----------------------------- MODULE HostCanBus -----------------------------
(***************************************************************************)
(* host/SscbHost.Core/Can/ZlgCanBus.cs: the host's CAN channel.  The form  *)
(* (MainForm.cs) opens and closes it from the UI thread, and closes it     *)
(* when the form is closed; every opening starts a receive task on the     *)
(* thread pool, and CloseAsync waits for that task without blocking the UI *)
(* thread, so that the next opening may be asked for, or the form go away, *)
(* while a closing is under way.  A session is one opening with its task,  *)
(* its cancellation source and its closing.                                *)
(*                                                                         *)
(* The vendor's ControlCAN.dll is external: a device has one handle,       *)
(* VCI_OpenDevice fails while it is held, and VCI_Receive may report an    *)
(* error as a count of 0xFFFFFFFF, which ReceiveLoop takes for a count.    *)
(* Frames are left out.  Openings that fail change nothing and are no      *)
(* steps.                                                                  *)
(***************************************************************************)
EXTENDS Naturals, FiniteSets

CONSTANTS
  Sessions,   \* openings, distinct objects in memory
  NoSession   \* null

ASSUME SessionAssumption == NoSession \notin Sessions

VARIABLES
  device,       \* the DLL's handle: "open" or "closed"
  is_open,      \* IsOpen
  receive_cts,  \* _receiveCts: the session whose source it is, or null
  options,      \* _options is set
  cancelled,    \* sessions whose source was cancelled
  task,         \* place of each session's receive task
  token,        \* the source whose token the task took
  closing,      \* place of each session's CloseAsync
  form          \* "shown", "closing", "disposed"; "exited": the process ended

fields == <<is_open, receive_cts, options>>
busVars == <<device, fields, cancelled, task, token, closing, form>>

\* How a receive task may throw: no source where it takes its token, a count
\* beyond the buffer, no form to BeginInvoke on.
TaskFaults == {"no_source", "bad_count", "no_form"}
TaskPlaces == {"none", "queued", "check", "options", "receive", "returned"} \cup TaskFaults
ClosePlaces == {"none", "cancel", "await", "closed", "threw"}

\* The UI thread runs CloseAsync up to its await,
UiFree == \A s \in Sessions : closing[s] # "cancel"

\* and takes clicks while the form is there.
Clickable == UiFree /\ form = "shown"

BusInit ==
  /\ device = "closed" /\ is_open = FALSE
  /\ receive_cts = NoSession /\ options = FALSE
  /\ cancelled = {}
  /\ task = [s \in Sessions |-> "none"]
  /\ token = [s \in Sessions |-> NoSession]
  /\ closing = [s \in Sessions |-> "none"]
  /\ form = "shown"

\* VCI_OpenDevice succeeds
DeviceOpens == device = "closed" /\ device' = "open"

\* Mutant of OpenAsync: after VCI_InitCAN failed and the device was closed,
\* the method goes on instead of throwing.
OpenAsyncFallsThrough(s) ==
  /\ Clickable /\ ~is_open /\ task[s] = "none" /\ device = "closed"
  /\ is_open' = TRUE /\ receive_cts' = s /\ options' = TRUE
  /\ task' = [task EXCEPT ![s] = "queued"]
  /\ UNCHANGED <<device, cancelled, token, closing, form>>

\* OpenAsync, under the lock
OpenAsync(s) ==
  /\ Clickable /\ ~is_open /\ task[s] = "none"
  /\ DeviceOpens
  /\ is_open' = TRUE /\ receive_cts' = s /\ options' = TRUE
  /\ task' = [task EXCEPT ![s] = "queued"]
  /\ UNCHANGED <<cancelled, token, closing, form>>

\* The task evaluates _receiveCts.Token when it starts, not when it is
\* queued: the field may be null by then.
TaskStart(s) ==
  /\ task[s] = "queued"
  /\ IF receive_cts = NoSession
       THEN task' = [task EXCEPT ![s] = "no_source"] /\ UNCHANGED token
       ELSE /\ task' = [task EXCEPT ![s] = "check"]
            /\ token' = [token EXCEPT ![s] = receive_cts]
  /\ UNCHANGED <<device, fields, cancelled, closing, form>>

\* ReceiveLoop: the condition of the loop, the options, the calls.
LoopCheck(s) ==
  /\ task[s] = "check"
  /\ task' = [task EXCEPT ![s] = IF token[s] \in cancelled THEN "returned" ELSE "options"]
  /\ UNCHANGED <<device, fields, cancelled, token, closing, form>>

LoopOptions(s) ==
  /\ task[s] = "options"
  /\ task' = [task EXCEPT ![s] = IF options THEN "receive" ELSE "returned"]
  /\ UNCHANGED <<device, fields, cancelled, token, closing, form>>

\* VCI_Receive and the handler of each frame, which posts to the form.
LoopReceive(s) ==
  /\ task[s] = "receive"
  /\ \E place \in {"check", "bad_count"} \cup (IF form = "disposed" THEN {"no_form"} ELSE {}) :
       task' = [task EXCEPT ![s] = place]
  /\ UNCHANGED <<device, fields, cancelled, token, closing, form>>

TaskStep(s) ==
  /\ form # "exited"
  /\ TaskStart(s) \/ LoopCheck(s) \/ LoopOptions(s) \/ LoopReceive(s)

\* CloseAsync: the part under the lock,
CloseBegin ==
  /\ is_open
  /\ closing' = [closing EXCEPT ![receive_cts] = "cancel"]
  /\ is_open' = FALSE /\ receive_cts' = NoSession /\ options' = FALSE
  /\ UNCHANGED <<device, cancelled, task, token>>

Disconnect == Clickable /\ CloseBegin /\ UNCHANGED form

\* the cancellation of the source it took out of the field,
CloseCancel(s) ==
  /\ closing[s] = "cancel"
  /\ cancelled' = cancelled \cup {s}
  /\ closing' = [closing EXCEPT ![s] = "await"]
  /\ UNCHANGED <<device, fields, task, token, form>>

\* Mutant of CloseResume: it waits for the call in progress, not the task.
CloseResumeBetweenCalls(s) ==
  /\ closing[s] = "await" /\ task[s] # "receive"
  /\ device' = "closed"
  /\ closing' = [closing EXCEPT ![s] = "closed"]
  /\ UNCHANGED <<fields, cancelled, task, token, form>>

\* Mutant of CloseResume: the device is kept.
CloseResumeKeepsDevice(s) ==
  /\ closing[s] = "await" /\ task[s] \in {"returned"} \cup TaskFaults
  /\ closing' = [closing EXCEPT ![s] = "closed"]
  /\ UNCHANGED <<device, fields, cancelled, task, token, form>>

\* Mutant of CloseResume: an exception of the task is not noticed.
CloseResumeUnfaulted(s) ==
  /\ closing[s] = "await" /\ task[s] = "returned"
  /\ device' = "closed"
  /\ closing' = [closing EXCEPT ![s] = "closed"]
  /\ UNCHANGED <<fields, cancelled, task, token, form>>

\* and what follows the await: an exception of the task is rethrown there.
CloseResume(s) ==
  /\ closing[s] = "await"
  /\ \/ /\ task[s] = "returned"
        /\ device' = "closed"
        /\ closing' = [closing EXCEPT ![s] = "closed"]
     \/ /\ task[s] \in TaskFaults
        /\ closing' = [closing EXCEPT ![s] = "threw"]
        /\ UNCHANGED device
  /\ UNCHANGED <<fields, cancelled, task, token, form>>

CloseStep(s) == form # "exited" /\ (CloseCancel(s) \/ CloseResume(s))

\* FormClosing calls CloseAsync and does not wait beyond its await: the form
\* is disposed, Main returns, and the process takes its tasks with it.
FormClosing ==
  /\ Clickable
  /\ form' = "closing"
  /\ \/ CloseBegin
     \/ ~is_open /\ UNCHANGED <<device, fields, cancelled, task, token, closing>>

FormGoes ==
  /\ \/ form = "closing" /\ UiFree /\ form' = "disposed"
     \/ form = "disposed" /\ form' = "exited"
  /\ UNCHANGED <<device, fields, cancelled, task, token, closing>>

BusNext ==
  \/ Disconnect \/ FormClosing \/ FormGoes
  \/ \E s \in Sessions : OpenAsync(s) \/ TaskStep(s) \/ CloseStep(s)

BusSpec == BusInit /\ [][BusNext]_busVars

\* The thread pool runs queued work and continuations; VCI_Receive returns
\* after ReceiveWaitMs at the latest.
FairBusSpec ==
  /\ BusSpec
  /\ \A s \in Sessions : WF_busVars(TaskStep(s)) /\ WF_busVars(CloseStep(s))

-----------------------------------------------------------------------------
\* The fields hold values of their types.
BusTypeOK ==
  /\ device \in {"open", "closed"}
  /\ {is_open, options} \subseteq BOOLEAN
  /\ receive_cts \in Sessions \cup {NoSession}
  /\ cancelled \subseteq Sessions
  /\ task \in [Sessions -> TaskPlaces]
  /\ token \in [Sessions -> Sessions \cup {NoSession}]
  /\ closing \in [Sessions -> ClosePlaces]
  /\ form \in {"shown", "closing", "disposed", "exited"}

\* A receive task calls the DLL, and SendAsync is let through, only while
\* the device is open: however openings, closings and tasks interleave, no
\* closing takes the device from under a later session.
NoUseAfterClose ==
  /\ is_open => device = "open"
  /\ \A s \in Sessions : task[s] = "receive" => device = "open"

\* Two receive loops never run at once, and a loop watches the source its
\* own closing cancels.
OneReceiveLoop ==
  /\ \A s, t \in Sessions :
        {task[s], task[t]} \subseteq {"check", "options", "receive"} => s = t
  /\ \A s \in Sessions : token[s] \in {s, NoSession}

\* A device that is open without a session is either being closed or was
\* left behind by a closing that threw, and that one rethrew what its receive
\* task threw: the source was gone before the task took its token, or the DLL
\* reported an error as a count, or a frame came after the form had gone.
OnlyFaultedLeak ==
  device = "open" /\ ~is_open =>
    \E s \in Sessions :
      \/ closing[s] \in {"cancel", "await"}
      \/ /\ closing[s] = "threw" /\ task[s] \in TaskFaults
         /\ task[s] = "no_source" <=> token[s] = NoSession
         /\ task[s] = "no_form" => form \in {"disposed", "exited"}

\* Every closing comes to an end, unless the process ends first: the loop
\* sees the cancellation, whatever it was about to do, or throws.
ClosingEnds ==
  \A s \in Sessions :
    closing[s] = "cancel" ~> closing[s] \in {"closed", "threw"} \/ form = "exited"
=============================================================================
