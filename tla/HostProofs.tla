----------------------------- MODULE HostProofs -----------------------------
(***************************************************************************)
(* Proofs about the host program, its CAN adapter first and then its       *)
(* session with a node.  For any number of openings, however openings,     *)
(* closings and receive tasks interleave, at most one session holds the    *)
(* device, and everything else follows from that.  For any rows, values,   *)
(* node numbers and lengths of a session the table settles, because the    *)
(* last response on its way for a row always carries the parameter's       *)
(* present value, and nothing but an answered write changes a parameter.   *)
(***************************************************************************)
EXTENDS HostCanBus, HostSession, SequenceTheorems, TLAPS

-----------------------------------------------------------------------------
(* The adapter.                                                            *)

\* A session holds the device from its opening until its closing gives it
\* back; one whose closing threw holds it for good.
Holder(s) == task[s] # "none" /\ closing[s] # "closed"

OneHolder == \A s, t \in Sessions : Holder(s) /\ Holder(t) => s = t

DeviceHeld ==
  /\ \A s \in Sessions : Holder(s) => device = "open"
  /\ device = "open" => \E s \in Sessions : Holder(s)

\* The fields tell of the open session, which no closing has reached.
FieldsAgree ==
  /\ is_open <=> receive_cts # NoSession
  /\ is_open <=> options
  /\ \A s \in Sessions :
       task[s] # "none" /\ closing[s] = "none" <=> receive_cts = s

\* How far a session's task and its closing are from each other.
PlacesAgree ==
  \A s \in Sessions :
    /\ task[s] = "none" => closing[s] = "none"
    /\ closing[s] = "closed" => task[s] = "returned"
    /\ closing[s] = "threw" => task[s] \in TaskFaults

TokensOwn ==
  \A s \in Sessions :
    /\ token[s] \in {s, NoSession}
    /\ task[s] \in {"none", "queued", "no_source"} <=> token[s] = NoSession

\* A task fails to reach the form only once the form is gone.
FormAgrees ==
  \A s \in Sessions : task[s] = "no_form" => form \in {"disposed", "exited"}

BusInductive ==
  /\ BusTypeOK /\ OneHolder /\ DeviceHeld /\ FieldsAgree /\ PlacesAgree /\ TokensOwn
  /\ FormAgrees

LEMMA OpenInductive ==
  ASSUME BusInductive, NEW s \in Sessions, OpenAsync(s) PROVE BusInductive'
<1>1. /\ ~is_open /\ task[s] = "none" /\ device = "closed" /\ device' = "open"
      /\ is_open' = TRUE /\ receive_cts' = s /\ options' = TRUE
      /\ task' = [task EXCEPT ![s] = "queued"]
      /\ UNCHANGED <<cancelled, token, closing, form>>
  BY DEF OpenAsync, DeviceOpens
<1>2. /\ task \in [Sessions -> TaskPlaces] /\ closing[s] = "none" /\ receive_cts = NoSession
      /\ \A t \in Sessions : ~Holder(t)
      /\ s # NoSession
  BY <1>1, SessionAssumption
     DEF BusInductive, BusTypeOK, PlacesAgree, FieldsAgree, DeviceHeld
<1>3. \A t \in Sessions : Holder(t)' <=> t = s
  BY <1>1, <1>2 DEF Holder
<1>4. BusTypeOK'
  BY <1>1 DEF BusInductive, BusTypeOK, TaskPlaces
<1>5. OneHolder' /\ DeviceHeld'
  BY <1>1, <1>3 DEF OneHolder, DeviceHeld
<1>6. FieldsAgree'
  BY <1>1, <1>2, SessionAssumption DEF BusInductive, FieldsAgree
<1>7. PlacesAgree' /\ TokensOwn' /\ FormAgrees'
  BY <1>1, <1>2 DEF BusInductive, PlacesAgree, TokensOwn, FormAgrees
<1> QED
  BY <1>4, <1>5, <1>6, <1>7 DEF BusInductive

\* A queued task belongs to a holder, so that the field, if it is set, names
\* the task's own session.
LEMMA TaskStartInductive ==
  ASSUME BusInductive, NEW s \in Sessions, TaskStart(s) PROVE BusInductive'
<1>1. task[s] = "queued" /\ UNCHANGED <<device, fields, cancelled, closing, form>>
  BY DEF TaskStart
<1>2. task \in [Sessions -> TaskPlaces] /\ token \in [Sessions -> Sessions \cup {NoSession}]
  BY DEF BusInductive, BusTypeOK
<1>3. Holder(s)
  BY <1>1 DEF Holder, BusInductive, PlacesAgree
<1>4. receive_cts \in {s, NoSession}
  <2>1. ASSUME receive_cts # NoSession PROVE receive_cts = s
    <3>1. receive_cts \in Sessions
      BY <2>1 DEF BusInductive, BusTypeOK
    <3>2. Holder(receive_cts)
      BY <3>1 DEF BusInductive, FieldsAgree, Holder
    <3> QED
      BY <1>3, <3>1, <3>2 DEF BusInductive, OneHolder
  <2> QED
    BY <2>1
<1>5. \/ /\ receive_cts = NoSession
         /\ task' = [task EXCEPT ![s] = "no_source"] /\ token' = token
      \/ /\ receive_cts = s
         /\ task' = [task EXCEPT ![s] = "check"] /\ token' = [token EXCEPT ![s] = s]
  BY <1>4, SessionAssumption DEF TaskStart
<1>6. \A t \in Sessions : task'[t] = "none" <=> task[t] = "none"
  BY <1>1, <1>2, <1>5
<1>7. BusTypeOK'
  BY <1>1, <1>5 DEF BusInductive, BusTypeOK, TaskPlaces, TaskFaults, fields
<1>8. OneHolder' /\ DeviceHeld' /\ FieldsAgree'
  BY <1>1, <1>6 DEF BusInductive, OneHolder, DeviceHeld, FieldsAgree, Holder, fields
<1>9. PlacesAgree' /\ FormAgrees'
  BY <1>1, <1>2, <1>5 DEF BusInductive, PlacesAgree, FormAgrees, TaskFaults
<1>10. TokensOwn'
  BY <1>1, <1>2, <1>5, SessionAssumption DEF BusInductive, TokensOwn
<1> QED
  BY <1>7, <1>8, <1>9, <1>10 DEF BusInductive

LEMMA LoopInductive ==
  ASSUME BusInductive, NEW s \in Sessions, LoopCheck(s) \/ LoopOptions(s) \/ LoopReceive(s)
  PROVE  BusInductive'
<1>1. task[s] \in {"check", "options", "receive"}
  BY DEF LoopCheck, LoopOptions, LoopReceive
<1>2. UNCHANGED <<device, is_open, receive_cts, options, cancelled, token, closing, form>>
  BY DEF LoopCheck, LoopOptions, LoopReceive, fields
<1>3. PICK place \in {"check", "options", "receive", "returned", "bad_count", "no_form"} :
        task' = [task EXCEPT ![s] = place] /\ (place = "no_form" => form = "disposed")
  BY DEF LoopCheck, LoopOptions, LoopReceive
<1>4. task \in [Sessions -> TaskPlaces]
  BY DEF BusInductive, BusTypeOK
<1>5. \A t \in Sessions : task'[t] = "none" <=> task[t] = "none"
  BY <1>1, <1>3, <1>4
<1>6. BusTypeOK'
  BY <1>2, <1>3 DEF BusInductive, BusTypeOK, TaskPlaces, TaskFaults
<1>7. OneHolder' /\ DeviceHeld' /\ FieldsAgree'
  BY <1>2, <1>5 DEF BusInductive, OneHolder, DeviceHeld, FieldsAgree, Holder
<1>8. PlacesAgree'
  BY <1>1, <1>2, <1>3, <1>4 DEF BusInductive, PlacesAgree, TaskFaults
<1>9. TokensOwn'
  BY <1>1, <1>2, <1>3, <1>4 DEF BusInductive, TokensOwn
<1>10. FormAgrees'
  BY <1>2, <1>3, <1>4 DEF BusInductive, FormAgrees
<1> QED
  BY <1>6, <1>7, <1>8, <1>9, <1>10 DEF BusInductive

LEMMA CloseBeginInductive ==
  ASSUME BusInductive, CloseBegin,
         form' = form \/ (form = "shown" /\ form' = "closing")
  PROVE  BusInductive'
<1>1. /\ is_open
      /\ closing' = [closing EXCEPT ![receive_cts] = "cancel"]
      /\ is_open' = FALSE /\ receive_cts' = NoSession /\ options' = FALSE
      /\ UNCHANGED <<device, cancelled, task, token>>
  BY DEF CloseBegin
<1>2. PICK s \in Sessions : receive_cts = s
  BY <1>1 DEF BusInductive, BusTypeOK, FieldsAgree
<1>3. /\ task[s] # "none" /\ closing[s] = "none"
      /\ closing \in [Sessions -> ClosePlaces]
  BY <1>2 DEF BusInductive, FieldsAgree, BusTypeOK
<1>4. BusTypeOK'
  BY <1>1, <1>2 DEF BusInductive, BusTypeOK, ClosePlaces
<1>5. OneHolder' /\ DeviceHeld'
  BY <1>1, <1>2, <1>3 DEF BusInductive, OneHolder, DeviceHeld, Holder
<1>6. FieldsAgree'
  BY <1>1, <1>2, <1>3, SessionAssumption DEF BusInductive, FieldsAgree
<1>7. PlacesAgree' /\ TokensOwn' /\ FormAgrees'
  BY <1>1, <1>2, <1>3 DEF BusInductive, PlacesAgree, TokensOwn, FormAgrees
<1> QED
  BY <1>4, <1>5, <1>6, <1>7 DEF BusInductive

LEMMA CloseCancelInductive ==
  ASSUME BusInductive, NEW s \in Sessions, CloseCancel(s) PROVE BusInductive'
<1>1. /\ closing[s] = "cancel"
      /\ cancelled' = cancelled \cup {s}
      /\ closing' = [closing EXCEPT ![s] = "await"]
      /\ UNCHANGED <<device, is_open, receive_cts, options, task, token, form>>
  BY DEF CloseCancel, fields
<1>2. closing \in [Sessions -> ClosePlaces]
  BY DEF BusInductive, BusTypeOK
<1>3. BusTypeOK'
  BY <1>1 DEF BusInductive, BusTypeOK, ClosePlaces
<1>4. OneHolder' /\ DeviceHeld' /\ FieldsAgree'
  BY <1>1, <1>2 DEF BusInductive, OneHolder, DeviceHeld, FieldsAgree, Holder
<1>5. PlacesAgree' /\ TokensOwn' /\ FormAgrees'
  BY <1>1, <1>2 DEF BusInductive, PlacesAgree, TokensOwn, FormAgrees
<1> QED
  BY <1>3, <1>4, <1>5 DEF BusInductive

\* The closing session is the holder: no other session loses the device.
LEMMA CloseResumeInductive ==
  ASSUME BusInductive, NEW s \in Sessions, CloseResume(s) PROVE BusInductive'
<1>1. /\ closing[s] = "await"
      /\ UNCHANGED <<is_open, receive_cts, options, cancelled, task, token, form>>
      /\ \/ /\ task[s] = "returned" /\ device' = "closed"
            /\ closing' = [closing EXCEPT ![s] = "closed"]
         \/ /\ task[s] \in TaskFaults /\ device' = device
            /\ closing' = [closing EXCEPT ![s] = "threw"]
  BY DEF CloseResume, fields
<1>2. closing \in [Sessions -> ClosePlaces]
  BY DEF BusInductive, BusTypeOK
<1>3. Holder(s)
  BY <1>1 DEF Holder, TaskFaults
<1>4. BusTypeOK'
  BY <1>1 DEF BusInductive, BusTypeOK, ClosePlaces
<1>5. OneHolder' /\ DeviceHeld'
  BY <1>1, <1>2, <1>3 DEF BusInductive, OneHolder, DeviceHeld, Holder
<1>6. FieldsAgree' /\ PlacesAgree' /\ TokensOwn' /\ FormAgrees'
  BY <1>1, <1>2 DEF BusInductive, FieldsAgree, PlacesAgree, TokensOwn, FormAgrees
<1> QED
  BY <1>4, <1>5, <1>6 DEF BusInductive

\* The form's own steps never bring it back.
LEMMA FormInductive ==
  ASSUME BusInductive, NEW next \in {"closing", "disposed", "exited"}, form' = next,
         form \in {"disposed", "exited"} => next \in {"disposed", "exited"},
         UNCHANGED <<device, fields, cancelled, task, token, closing>>
  PROVE  BusInductive'
<1>1. BusTypeOK'
  BY DEF BusInductive, BusTypeOK, fields
<1>2. OneHolder' /\ DeviceHeld' /\ FieldsAgree' /\ PlacesAgree' /\ TokensOwn' /\ FormAgrees'
  BY DEF BusInductive, OneHolder, DeviceHeld, FieldsAgree, PlacesAgree, TokensOwn,
         FormAgrees, Holder, fields
<1> QED
  BY <1>1, <1>2 DEF BusInductive

\* Closing the form closes the session first, in a state the form still has.
LEMMA FormClosingInductive ==
  ASSUME BusInductive, FormClosing PROVE BusInductive'
<1>1. form = "shown" /\ form' = "closing"
  BY DEF FormClosing, Clickable
<1>2. \/ CloseBegin
      \/ UNCHANGED <<device, fields, cancelled, task, token, closing>>
  BY DEF FormClosing
<1>3. CASE CloseBegin
  BY <1>1, <1>3, CloseBeginInductive
<1>4. CASE UNCHANGED <<device, fields, cancelled, task, token, closing>>
  BY <1>1, <1>4, FormInductive
<1> QED
  BY <1>2, <1>3, <1>4

LEMMA BusInvariant == BusSpec => []BusInductive
<1>1. BusInit => BusInductive
  <2> SUFFICES ASSUME BusInit PROVE BusInductive
    OBVIOUS
  <2>1. BusTypeOK
    BY DEF BusInit, BusTypeOK, TaskPlaces, ClosePlaces
  <2>2. OneHolder /\ DeviceHeld /\ PlacesAgree /\ TokensOwn /\ FormAgrees
    BY DEF BusInit, OneHolder, DeviceHeld, PlacesAgree, TokensOwn, FormAgrees, Holder
  <2>3. FieldsAgree
    BY SessionAssumption DEF BusInit, FieldsAgree
  <2> QED
    BY <2>1, <2>2, <2>3 DEF BusInductive
<1>2. BusInductive /\ [BusNext]_busVars => BusInductive'
  <2> SUFFICES ASSUME BusInductive, [BusNext]_busVars PROVE BusInductive'
    OBVIOUS
  <2>1. CASE UNCHANGED busVars
    BY <2>1 DEF busVars, fields, BusInductive, BusTypeOK, OneHolder, DeviceHeld, FieldsAgree,
           PlacesAgree, TokensOwn, FormAgrees, Holder
  <2>2. CASE Disconnect
    <3>1. CloseBegin /\ form' = form
      BY <2>2 DEF Disconnect
    <3> QED
      BY <3>1, CloseBeginInductive
  <2>3. CASE FormClosing
    BY <2>3, FormClosingInductive
  <2>4. CASE FormGoes
    <3>1. /\ form' \in {"disposed", "exited"}
          /\ UNCHANGED <<device, fields, cancelled, task, token, closing>>
      BY <2>4 DEF FormGoes
    <3> QED
      BY <3>1, FormInductive
  <2>5. ASSUME NEW s \in Sessions, OpenAsync(s) \/ TaskStep(s) \/ CloseStep(s)
        PROVE  BusInductive'
    BY <2>5, OpenInductive, TaskStartInductive, LoopInductive, CloseCancelInductive,
       CloseResumeInductive DEF TaskStep, CloseStep
  <2> QED
    BY <2>1, <2>2, <2>3, <2>4, <2>5 DEF BusNext
<1> QED
  BY <1>1, <1>2, PTL DEF BusSpec

\* The fields keep their types.
THEOREM BusTyped == BusSpec => []BusTypeOK
<1>1. BusInductive => BusTypeOK
  BY DEF BusInductive
<1> QED
  BY <1>1, BusInvariant, PTL

\* No receive task calls the DLL, and no frame is sent, on a closed device.
THEOREM DeviceOpenWhenUsed == BusSpec => []NoUseAfterClose
<1>1. BusInductive => NoUseAfterClose
  <2> SUFFICES ASSUME BusInductive PROVE NoUseAfterClose
    OBVIOUS
  <2>1. is_open => device = "open"
    <3>1. ASSUME is_open PROVE \E s \in Sessions : Holder(s)
      BY <3>1 DEF BusInductive, BusTypeOK, FieldsAgree, Holder
    <3> QED
      BY <3>1 DEF BusInductive, DeviceHeld
  <2>2. \A s \in Sessions : task[s] = "receive" => device = "open"
    BY DEF BusInductive, DeviceHeld, PlacesAgree, Holder
  <2> QED
    BY <2>1, <2>2 DEF NoUseAfterClose
<1> QED
  BY <1>1, BusInvariant, PTL

\* Two receive loops never run at once, and each watches its own source.
THEOREM ReceiveLoopAlone == BusSpec => []OneReceiveLoop
<1>1. BusInductive => OneReceiveLoop
  <2> SUFFICES ASSUME BusInductive PROVE OneReceiveLoop
    OBVIOUS
  <2>1. ASSUME NEW s \in Sessions, task[s] \in {"check", "options", "receive"}
        PROVE  Holder(s)
    BY <2>1 DEF BusInductive, PlacesAgree, Holder
  <2> QED
    BY <2>1 DEF BusInductive, OneHolder, TokensOwn, OneReceiveLoop
<1> QED
  BY <1>1, BusInvariant, PTL

\* Only a closing that rethrew one of the three faults of its receive task,
\* taken at the place that fault belongs to, leaves the device open.
THEOREM LeakExplained == BusSpec => []OnlyFaultedLeak
<1>1. BusInductive => OnlyFaultedLeak
  <2> SUFFICES ASSUME BusInductive, device = "open", ~is_open
               PROVE  \E s \in Sessions :
                        \/ closing[s] \in {"cancel", "await"}
                        \/ /\ closing[s] = "threw" /\ task[s] \in TaskFaults
                           /\ task[s] = "no_source" <=> token[s] = NoSession
                           /\ task[s] = "no_form" => form \in {"disposed", "exited"}
    BY DEF OnlyFaultedLeak
  <2>1. PICK s \in Sessions : Holder(s)
    BY DEF BusInductive, DeviceHeld
  <2>2. receive_cts = NoSession /\ NoSession \notin Sessions
    BY SessionAssumption DEF BusInductive, FieldsAgree
  <2>3. closing[s] \in {"cancel", "await", "threw"}
    BY <2>1, <2>2 DEF BusInductive, BusTypeOK, ClosePlaces, FieldsAgree, Holder
  <2>4. CASE closing[s] = "threw"
    <3>1. task[s] \in TaskFaults
      BY <2>4 DEF BusInductive, PlacesAgree
    <3>2. task[s] = "no_source" <=> token[s] = NoSession
      BY <3>1 DEF BusInductive, TokensOwn, TaskFaults
    <3>3. task[s] = "no_form" => form \in {"disposed", "exited"}
      BY DEF BusInductive, FormAgrees
    <3> QED
      BY <2>4, <3>1, <3>2, <3>3
  <2> QED
    BY <2>3, <2>4
<1> QED
  BY <1>1, BusInvariant, PTL

-----------------------------------------------------------------------------
(* The session.                                                            *)

\* The two mailboxes and the queue of the UI thread.
ResponseInTx == tx # NoFrame /\ tx.kind = "response"
TxAnswers(r) == ResponseInTx /\ tx.row = r

\* Position i of the queue holds the last response of row r.
LastInUi(i, r) ==
  /\ i \in 1 .. Len(ui) /\ ui[i].row = r
  /\ \A j \in 1 .. Len(ui) : ui[j].row = r => j <= i

InUi(r) == \E i \in 1 .. Len(ui) : ui[i].row = r

Settles(r, v) ==
  /\ TxAnswers(r) => tx.value = v
  /\ ~TxAnswers(r) => \A i \in 1 .. Len(ui) : LastInUi(i, r) => ui[i].value = v
  /\ ~TxAnswers(r) /\ ~InUi(r) /\ r \notin edited /\ rows[r].status = "OK"
        => rows[r].value = v

\* The last response under way, or else the table, tells every parameter but
\* the node's identifier.
TableTells ==
  ~excused => \A r \in Rows : ParamOf(r) # "NODE_ID" => Settles(r, params[ParamOf(r)])

\* Requests that pass the filter name the filter's node, and the node is
\* stored under no other identifier.
NodeKept ==
  /\ rx # NoFrame => rx.node = FilterNode
  /\ stored["NODE_ID"] = FilterNode /\ previous["NODE_ID"] = FilterNode
  /\ saving => params["NODE_ID"] = FilterNode

\* What is not being saved is stored, but for a changed identifier.
SavedButNode ==
  ~saving => \A id \in WritableIds \ {"NODE_ID"} : params[id] = stored[id]

SessionInv ==
  SessionTypeOK /\ NodeKept /\ SavedButNode /\ TableTells

-----------------------------------------------------------------------------
(* The two numberings.                                                     *)

\* Every row of the host has a parameter in the firmware, its own.
LEMMA RowsHaveParams ==
  /\ \A r \in Rows : ParamOf(r) \in WritableIds
  /\ \A q, r \in Rows : ParamOf(q) = ParamOf(r) => q = r
<1>1. HostRows =
        {"ShortThreshold", "OverCurrentThreshold", "OverVoltageThreshold",
         "OverTempThreshold", "I2TThreshold", "VoltageK", "CurrentK", "TempK", "NodeId",
         "RecoverMode"}
  BY DEF HostRows, HostNumber
<1>2. \A r \in HostRows : HostNumber[r] \in 1 .. 10
  BY <1>1 DEF HostNumber
<1>3. \A q, r \in HostRows : HostNumber[q] = HostNumber[r] => q = r
  BY <1>1 DEF HostNumber
<1>4. \A n \in 1 .. 10 : \E id \in WritableIds : FirmwareNumber[id] = n
  BY DEF FirmwareNumber, WritableIds
<1>5. \A r \in HostRows : ParamOf(r) \in WritableIds /\ FirmwareNumber[ParamOf(r)] = HostNumber[r]
  BY <1>2, <1>4 DEF ParamOf
<1> QED
  BY <1>3, <1>5, HostSessionAssumption

\* An accepted value leaves the block in its ranges and changes one parameter.
LEMMA AcceptedWrite ==
  ASSUME NEW p \in ParamBlock, NEW id, NEW value \in Int, ParamsSetAccepts(id, value)
  PROVE  /\ ParamsSet(p, id, value) \in ParamBlock
         /\ ParamsSet(p, id, value)[id] = value
         /\ \A other \in WritableIds \ {id} : ParamsSet(p, id, value)[other] = p[other]
<1>1. /\ id \in WritableIds /\ ParamRange[id] \in [lo : Nat, hi : Nat]
      /\ p \in [WritableIds -> Nat]
  BY ParamRangeAssumption DEF ParamsSetAccepts, ParamBlock
<1>2. value \in Nat /\ value \in ParamRange[id].lo .. ParamRange[id].hi
  BY <1>1 DEF ParamsSetAccepts
<1>3. ParamsSet(p, id, value) = [p EXCEPT ![id] = value]
  BY DEF ParamsSet
<1> QED
  BY <1>1, <1>2, <1>3 DEF ParamBlock

LEMMA ConvertedValues ==
  ASSUME NEW v \in Int, NEW value \in Converted(v) PROVE value \in Nat
BY HostSessionAssumption DEF Converted

-----------------------------------------------------------------------------
(* The types.                                                              *)

LEMMA RequestType ==
  ASSUME SessionTypeOK, NEW op \in {"read", "write"}, NEW r \in Rows, SendRequest(op, r)
  PROVE  (rx = NoFrame \/ rx \in Requests)' /\ sends' \in 0 .. MaxSends
<1>1. [op |-> op, node |-> host_node, row |-> r, value |-> rows[r].value] \in Requests
  BY DEF SessionTypeOK, Requests
<1> QED
  BY <1>1, HostSessionAssumption DEF SendRequest, SessionTypeOK

\* The UI thread takes the head of its queue and shows it or drops it.
LEMMA ShowEffect ==
  ASSUME SessionTypeOK, ShowResponse
  PROVE  /\ Len(ui) \in Nat \ {0} /\ ui[1] \in Responses
         /\ ui' \in Seq(Responses) /\ Len(ui') = Len(ui) - 1
         /\ \A i \in 1 .. Len(ui') : ui'[i] = ui[i + 1]
         /\ UNCHANGED <<host_node, sweep, params, stored, previous, saving, rx, tx, bounds>>
         /\ \/ excused' = TRUE /\ UNCHANGED <<rows, edited>>
            \/ /\ rows' = [rows EXCEPT ![ui[1].row] =
                           [value |-> ui[1].value,
                            status |-> IF ui[1].ok THEN "OK" ELSE "failed"]]
               /\ edited' = edited \ {ui[1].row} /\ excused' = excused
<1>1. ui \in Seq(Responses) /\ ui # <<>>
  BY DEF SessionTypeOK, ShowResponse
<1>2. /\ Len(ui) \in Nat \ {0} /\ ui[1] \in Responses /\ Head(ui) = ui[1]
      /\ Tail(ui) \in Seq(Responses) /\ Len(Tail(ui)) = Len(ui) - 1
      /\ \A i \in 1 .. Len(Tail(ui)) : Tail(ui)[i] = ui[i + 1]
  BY <1>1, HeadTailProperties, EmptySeq, ElementOfSeq
<1>3. /\ ui' = Tail(ui)
      /\ UNCHANGED <<host_node, sweep, params, stored, previous, saving, rx, tx, bounds>>
  BY DEF ShowResponse, nodeVars
<1>4. \/ excused' = TRUE /\ UNCHANGED <<rows, edited>>
      \/ /\ rows' = [rows EXCEPT ![ui[1].row] =
                     [value |-> ui[1].value,
                      status |-> IF ui[1].ok THEN "OK" ELSE "failed"]]
         /\ edited' = edited \ {ui[1].row} /\ excused' = excused
  BY <1>2 DEF ShowResponse
<1> QED
  BY <1>2, <1>3, <1>4

LEMMA HostTypes == ASSUME SessionTypeOK, HostStep PROVE SessionTypeOK'
<1> USE DEF SessionTypeOK, hostVars, nodeVars, bounds
<1>1. CASE ReadSelectedParam
  BY <1>1, RequestType DEF ReadSelectedParam
<1>2. CASE WriteSelectedParam
  BY <1>2, RequestType DEF WriteSelectedParam
<1>3. CASE StartReadAll
  BY <1>3 DEF StartReadAll
<1>4. CASE ReadNext
  BY <1>4, RequestType DEF ReadNext
<1>5. CASE EditValue
  <2>1. PICK r \in Rows, v \in HostValues :
          /\ rows' = [rows EXCEPT ![r].value = v] /\ edited' = edited \cup {r}
    BY <1>5 DEF EditValue
  <2>2. v \in Int
    BY HostSessionAssumption
  <2>3. rows' \in [Rows -> [value : Int, status : Statuses]] /\ edited' \subseteq Rows
    BY <2>1, <2>2
  <2> QED
    BY <1>5, <2>3 DEF EditValue
<1>6. CASE SelectNode
  BY <1>6 DEF SelectNode
<1>7. CASE ShowResponse
  <2> DEFINE shown == [value |-> ui[1].value, status |-> IF ui[1].ok THEN "OK" ELSE "failed"]
  <2>1. ui[1].row \in Rows /\ ui[1].value \in Int
    BY <1>7, ShowEffect DEF Responses
  <2>2. shown \in [value : Int, status : Statuses]
    BY <2>1 DEF Statuses
  <2>3. \/ excused' = TRUE /\ UNCHANGED <<rows, edited>>
        \/ /\ rows' = [rows EXCEPT ![ui[1].row] = shown]
           /\ edited' = edited \ {ui[1].row} /\ excused' = excused
    BY <1>7, ShowEffect
  <2> HIDE DEF shown
  <2>4. rows' \in [Rows -> [value : Int, status : Statuses]]
    BY <2>1, <2>2, <2>3
  <2>5. edited' \subseteq Rows /\ excused' \in BOOLEAN
    BY <2>3
  <2>6. /\ ui' \in Seq(Responses)
        /\ UNCHANGED <<host_node, sweep, params, stored, previous, saving, rx, tx, bounds>>
    BY <1>7, ShowEffect
  <2> QED
    BY <2>4, <2>5, <2>6
<1> QED
  BY <1>1, <1>2, <1>3, <1>4, <1>5, <1>6, <1>7 DEF HostStep

\* What a request does to the node, by kind.
LEMMA ReadEffect ==
  ASSUME SessionTypeOK, NEW f \in Requests, HandleRead(f)
  PROVE  /\ params' = params /\ saving' = saving
         /\ f.row \in Rows
         /\ tx' = Response(f, TRUE, params[ParamOf(f.row)])
         /\ tx' \in Responses
         /\ excused' = (excused \/ ResponseInTx)
<1>1. f.row \in Rows /\ f.node \in HostNodes
  BY DEF Requests
<1>2. params[ParamOf(f.row)] \in Int
  BY <1>1, RowsHaveParams DEF SessionTypeOK, ParamBlock
<1> QED
  BY <1>1, <1>2 DEF HandleRead, Send, Response, Responses, ResponseInTx

LEMMA WriteEffect ==
  ASSUME SessionTypeOK, NEW f \in Requests, HandleWrite(f)
  PROVE  /\ f.row \in Rows
         /\ params' \in ParamBlock
         /\ \A id \in WritableIds \ {ParamOf(f.row)} : params'[id] = params[id]
         /\ saving' = (f.node = params'["NODE_ID"])
         /\ tx' = Response(f, TRUE, params'[ParamOf(f.row)])
         /\ tx' \in Responses
         /\ excused' = (excused \/ ResponseInTx)
<1>1. f.row \in Rows /\ f.node \in HostNodes /\ f.value \in Int
  BY DEF Requests
<1>2. PICK value \in Converted(f.value) :
        /\ ParamsSetAccepts(ParamOf(f.row), value)
        /\ params' = ParamsSet(params, ParamOf(f.row), value)
        /\ Send(Response(f, TRUE, params'[ParamOf(f.row)]))
        /\ saving' = (f.node = params'["NODE_ID"])
  BY DEF HandleWrite
<1>3. value \in Nat /\ params \in ParamBlock
  BY <1>1, ConvertedValues DEF SessionTypeOK
<1>4. /\ params' \in ParamBlock /\ params'[ParamOf(f.row)] = value
      /\ \A id \in WritableIds \ {ParamOf(f.row)} : params'[id] = params[id]
  BY <1>2, <1>3, AcceptedWrite
<1> QED
  BY <1>1, <1>2, <1>3, <1>4 DEF Send, Response, Responses, ResponseInTx

\* A request is passed over, refused, read or written.
LEMMA RequestEffect ==
  ASSUME SessionTypeOK, HandleCanRequest
  PROVE  /\ rx \in Requests /\ rx # NoFrame /\ ~saving /\ rx' = NoFrame
         /\ UNCHANGED <<hostVars, stored, previous, edited, bounds>>
         /\ \/ UNCHANGED <<params, saving, tx, excused>>
            \/ Addressed(rx) /\ HandleRead(rx)
            \/ Addressed(rx) /\ HandleWrite(rx)
BY DEF SessionTypeOK, HandleCanRequest, RefuseWrite

LEMMA NodeTypes == ASSUME SessionTypeOK, NodeStep PROVE SessionTypeOK'
<1>1. CASE HandleCanRequest
  <2>1. /\ params' \in ParamBlock /\ saving' \in BOOLEAN /\ excused' \in BOOLEAN
        /\ (tx \in {NoFrame, Other} \/ tx \in Responses)'
    <3>1. CASE UNCHANGED <<params, saving, tx, excused>>
      BY <3>1 DEF SessionTypeOK
    <3>2. CASE Addressed(rx) /\ HandleRead(rx)
      BY <1>1, <3>2, RequestEffect, ReadEffect DEF SessionTypeOK
    <3>3. CASE Addressed(rx) /\ HandleWrite(rx)
      BY <1>1, <3>3, RequestEffect, WriteEffect DEF SessionTypeOK
    <3> QED
      BY <1>1, <3>1, <3>2, <3>3, RequestEffect
  <2> QED
    BY <1>1, <2>1, RequestEffect DEF SessionTypeOK, hostVars, bounds
<1>2. CASE SaveEnds
  BY <1>2 DEF SessionTypeOK, SaveEnds, hostVars, bounds
<1>3. CASE SendOther
  BY <1>3 DEF SessionTypeOK, SendOther, Send, hostVars, bounds
<1>4. CASE BusTransmits
  <2>1. ui' \in Seq(Responses)
    BY <1>4, AppendProperties, SessionFramesAssumption DEF SessionTypeOK, BusTransmits, Other
  <2> QED
    BY <1>4, <2>1 DEF SessionTypeOK, BusTransmits, bounds
<1>5. CASE PowerCycle
  <2>1. sends' \in 0 .. MaxSends /\ losses' \in 0 .. MaxLosses
    BY <1>5, HostSessionAssumption DEF SessionTypeOK, PowerCycle
  <2>2. {params', stored', previous'} \subseteq ParamBlock /\ saving' \in BOOLEAN
        /\ excused' \in BOOLEAN
    BY <1>5 DEF SessionTypeOK, PowerCycle
  <2> QED
    BY <1>5, <2>1, <2>2 DEF SessionTypeOK, PowerCycle, hostVars
<1> QED
  BY <1>1, <1>2, <1>3, <1>4, <1>5 DEF NodeStep

LEMMA SessionTypesInductive ==
  /\ SessionInit => SessionTypeOK
  /\ SessionTypeOK /\ [SessionNext]_sessionVars => SessionTypeOK'
<1>1. SessionInit => SessionTypeOK
  <2> SUFFICES ASSUME SessionInit PROVE SessionTypeOK
    OBVIOUS
  <2>1. {params, stored, previous} \subseteq ParamBlock
    BY ParamDefaultsAssumption DEF SessionInit, ParamBlock
  <2>2. rows \in [Rows -> [value : Int, status : Statuses]]
    BY DEF SessionInit, Statuses
  <2>3. sends \in 0 .. MaxSends /\ losses \in 0 .. MaxLosses /\ host_node \in HostNodes
    BY HostSessionAssumption DEF SessionInit
  <2>4. ui \in Seq(Responses)
    BY EmptySeq DEF SessionInit
  <2> QED
    BY <2>1, <2>2, <2>3, <2>4 DEF SessionInit, SessionTypeOK
<1>2. SessionTypeOK /\ UNCHANGED sessionVars => SessionTypeOK'
  BY DEF SessionTypeOK, sessionVars, hostVars, nodeVars, bounds
<1> QED
  BY <1>1, <1>2, HostTypes, NodeTypes DEF SessionNext
-----------------------------------------------------------------------------
(* The identifier, and what is stored.                                     *)

\* What the bus and the mailbox do to a response.
LEMMA TransmitEffect ==
  ASSUME SessionTypeOK, BusTransmits
  PROVE  /\ Len(ui) \in Nat /\ tx' = NoFrame
         /\ UNCHANGED <<rows, params, stored, previous, saving, rx, edited, excused>>
         /\ \/ ~ResponseInTx /\ ui' = ui
            \/ /\ ResponseInTx /\ Len(ui') = Len(ui) + 1 /\ ui'[Len(ui) + 1] = tx
               /\ \A i \in 1 .. Len(ui) : ui'[i] = ui[i]
<1>1. ui \in Seq(Responses) /\ tx # NoFrame
  BY DEF SessionTypeOK, BusTransmits
<1>2. /\ tx' = NoFrame /\ ui' = IF ResponseInTx THEN Append(ui, tx) ELSE ui
      /\ UNCHANGED <<rows, params, stored, previous, saving, rx, edited, excused>>
  BY <1>1 DEF BusTransmits, ResponseInTx
<1>3. CASE ResponseInTx
  <2>1. tx \in Responses
    BY <1>1, <1>3 DEF SessionTypeOK, ResponseInTx, Other
  <2> QED
    BY <1>1, <1>2, <1>3, <2>1, AppendProperties, LenProperties
<1> QED
  BY <1>1, <1>2, <1>3, LenProperties

LEMMA NodeKeptInductive ==
  /\ SessionInit => NodeKept
  /\ SessionTypeOK /\ NodeKept /\ [SessionNext]_sessionVars => NodeKept'
<1>1. SessionInit => NodeKept
  BY HostSessionAssumption DEF SessionInit, NodeKept
<1>2. ASSUME SessionTypeOK, NodeKept, HostStep PROVE NodeKept'
  <2>1. UNCHANGED <<params, stored, previous, saving>>
    BY <1>2, ShowEffect DEF HostStep, ReadSelectedParam, WriteSelectedParam, StartReadAll, ReadNext,
         EditValue, SelectNode, nodeVars
  <2>2. CASE ReadSelectedParam \/ WriteSelectedParam \/ ReadNext
    <3>1. \E op \in {"read", "write"}, r \in Rows : SendRequest(op, r)
      BY <1>2, <2>2 DEF ReadSelectedParam, WriteSelectedParam, ReadNext, SessionTypeOK
    <3>2. rx' = rx \/ rx'.node = FilterNode
      BY <3>1 DEF SendRequest
    <3> QED
      BY <1>2, <2>1, <3>2 DEF NodeKept
  <2>3. CASE StartReadAll \/ EditValue \/ SelectNode \/ ShowResponse
    <3>1. rx' = rx
      BY <1>2, <2>3, ShowEffect DEF StartReadAll, EditValue, SelectNode, nodeVars
    <3> QED
      BY <1>2, <2>1, <3>1 DEF NodeKept
  <2> QED
    BY <1>2, <2>2, <2>3 DEF HostStep
<1>3. ASSUME SessionTypeOK, NodeKept, NodeStep PROVE NodeKept'
  <2>1. CASE HandleCanRequest
    <3>1. /\ rx' = NoFrame /\ ~saving /\ rx.node = FilterNode
          /\ UNCHANGED <<stored, previous>>
      BY <1>3, <2>1, RequestEffect DEF NodeKept
    <3>2. saving' => params'["NODE_ID"] = rx.node
      BY <1>3, <2>1, RequestEffect, ReadEffect, WriteEffect
    <3> QED
      BY <1>3, <3>1, <3>2 DEF NodeKept
  <2>2. CASE SaveEnds
    BY <1>3, <2>2 DEF NodeKept, SaveEnds
  <2>3. CASE SendOther
    BY <1>3, <2>3 DEF NodeKept, SendOther
  <2>4. CASE BusTransmits
    BY <1>3, <2>4, TransmitEffect DEF NodeKept
  <2>5. CASE PowerCycle
    BY <1>3, <2>5 DEF NodeKept, PowerCycle
  <2> QED
    BY <1>3, <2>1, <2>2, <2>3, <2>4, <2>5 DEF NodeStep
<1>4. NodeKept /\ UNCHANGED sessionVars => NodeKept'
  BY DEF NodeKept, sessionVars, hostVars, nodeVars
<1> QED
  BY <1>1, <1>2, <1>3, <1>4 DEF SessionNext

LEMMA SavedInductive ==
  /\ SessionInit => SavedButNode
  /\ SessionTypeOK /\ NodeKept /\ SavedButNode /\ [SessionNext]_sessionVars => SavedButNode'
<1>1. SessionInit => SavedButNode
  BY DEF SessionInit, SavedButNode
<1>2. ASSUME SessionTypeOK, SavedButNode, HostStep PROVE SavedButNode'
  <2>1. UNCHANGED <<params, stored, previous, saving>>
    BY <1>2, ShowEffect DEF HostStep, ReadSelectedParam, WriteSelectedParam, StartReadAll, ReadNext,
         EditValue, SelectNode, nodeVars
  <2> QED
    BY <1>2, <2>1 DEF SavedButNode
<1>3. ASSUME SessionTypeOK, NodeKept, SavedButNode, NodeStep PROVE SavedButNode'
  <2>1. CASE HandleCanRequest
    <3>1. stored' = stored /\ ~saving
      BY <1>3, <2>1, RequestEffect
    <3>2. CASE UNCHANGED <<params, saving>>
      BY <1>3, <3>1, <3>2 DEF SavedButNode
    <3>3. CASE Addressed(rx) /\ HandleWrite(rx)
      <4>1. /\ \A id \in WritableIds \ {ParamOf(rx.row)} : params'[id] = params[id]
            /\ saving' = (rx.node = params'["NODE_ID"])
        BY <1>3, <2>1, <3>3, RequestEffect, WriteEffect
      <4>2. rx.node = params["NODE_ID"] /\ "NODE_ID" \in WritableIds
        BY <3>3 DEF Addressed, WritableIds
      <4> QED
        BY <1>3, <3>1, <4>1, <4>2 DEF SavedButNode
    <3> QED
      BY <1>3, <2>1, <3>2, <3>3, RequestEffect, ReadEffect
  <2>2. CASE SaveEnds
    BY <2>2 DEF SavedButNode, SaveEnds
  <2>3. CASE SendOther
    BY <1>3, <2>3 DEF SavedButNode, SendOther
  <2>4. CASE BusTransmits
    BY <1>3, <2>4, TransmitEffect DEF SavedButNode
  <2>5. CASE PowerCycle
    BY <2>5 DEF SavedButNode, PowerCycle
  <2> QED
    BY <1>3, <2>1, <2>2, <2>3, <2>4, <2>5 DEF NodeStep
<1>4. SavedButNode /\ UNCHANGED sessionVars => SavedButNode'
  BY DEF SavedButNode, sessionVars, nodeVars
<1> QED
  BY <1>1, <1>2, <1>3, <1>4 DEF SessionNext

-----------------------------------------------------------------------------
(* What the table tells.  One lemma per event that concerns a row.          *)

\* A step that touches neither the row nor its responses nor its parameter.
LEMMA SettlesKept ==
  ASSUME NEW r \in Rows, NEW v, Settles(r, v), UNCHANGED ui, rows'[r] = rows[r],
         TxAnswers(r)' <=> TxAnswers(r), TxAnswers(r) => tx' = tx,
         r \in edited' <=> r \in edited
  PROVE  Settles(r, v)'
<1>1. \A i : LastInUi(i, r)' <=> LastInUi(i, r)
  BY DEF LastInUi
<1>2. InUi(r)' <=> InUi(r)
  BY DEF InUi
<1> QED
  BY <1>1, <1>2 DEF Settles

\* The head of the queue is shown: the next response moves up, and the last
\* one of a row leaves its value in the table.
LEMMA SettlesShown ==
  ASSUME SessionTypeOK, ShowResponse, ~excused', NEW r \in Rows, NEW v, Settles(r, v)
  PROVE  Settles(r, v)'
<1> DEFINE shown == [value |-> ui[1].value, status |-> IF ui[1].ok THEN "OK" ELSE "failed"]
<1>1. /\ Len(ui) \in Nat \ {0} /\ Len(ui') = Len(ui) - 1 /\ tx' = tx
      /\ \A i \in 1 .. Len(ui') : ui'[i] = ui[i + 1]
      /\ rows' = [rows EXCEPT ![ui[1].row] = shown] /\ edited' = edited \ {ui[1].row}
  BY ShowEffect
<1>2. TxAnswers(r)' <=> TxAnswers(r)
  BY <1>1 DEF TxAnswers, ResponseInTx
<1>3. ASSUME NEW i, LastInUi(i, r)' PROVE LastInUi(i + 1, r) /\ ui'[i] = ui[i + 1]
  <2>1. i \in 1 .. Len(ui') /\ i + 1 \in 1 .. Len(ui) /\ ui'[i] = ui[i + 1] /\ ui[i + 1].row = r
    BY <1>1, <1>3 DEF LastInUi
  <2>2. ASSUME NEW j \in 1 .. Len(ui), ui[j].row = r PROVE j <= i + 1
    <3>1. CASE j = 1
      BY <2>1, <3>1
    <3>2. CASE j # 1
      <4>1. j - 1 \in 1 .. Len(ui') /\ ui'[j - 1] = ui[j]
        BY <1>1, <2>2, <3>2
      <4>2. j - 1 <= i
        BY <1>3, <2>2, <4>1 DEF LastInUi
      <4> QED
        BY <2>1, <4>2
    <3> QED
      BY <3>1, <3>2
  <2> QED
    BY <2>1, <2>2 DEF LastInUi
<1>4. ASSUME ~TxAnswers(r), ~InUi(r)', r \notin edited', rows'[r].status = "OK"
      PROVE  rows'[r].value = v
  <2>1. \A j \in 1 .. Len(ui) : j # 1 => ui[j].row # r
    <3> SUFFICES ASSUME NEW j \in 1 .. Len(ui), j # 1 PROVE ui[j].row # r
      OBVIOUS
    <3>1. j - 1 \in 1 .. Len(ui') /\ ui'[j - 1] = ui[j]
      BY <1>1
    <3> QED
      BY <1>4, <3>1 DEF InUi
  <2>2. CASE ui[1].row = r
    <3>1. LastInUi(1, r)
      BY <1>1, <2>1, <2>2 DEF LastInUi
    <3>2. ui[1].value = v
      BY <1>1, <1>4, <3>1 DEF Settles, LastInUi
    <3> QED
      BY <1>1, <2>2, <3>2 DEF SessionTypeOK
  <2>3. CASE ui[1].row # r
    <3>1. ~InUi(r) /\ r \notin edited /\ rows'[r] = rows[r]
      BY <1>1, <1>4, <2>1, <2>3 DEF InUi
    <3> QED
      BY <1>4, <3>1 DEF Settles
  <2> QED
    BY <2>2, <2>3
<1> QED
  <2>1. TxAnswers(r) => tx.value = v
    BY DEF Settles
  <2>2. ~TxAnswers(r) => \A i \in 1 .. Len(ui') : LastInUi(i, r)' => ui'[i].value = v
    <3> SUFFICES ASSUME ~TxAnswers(r), NEW i \in 1 .. Len(ui'), LastInUi(i, r)'
                 PROVE  ui'[i].value = v
      OBVIOUS
    <3>1. LastInUi(i + 1, r) /\ ui'[i] = ui[i + 1]
      BY <1>3
    <3> QED
      BY <3>1 DEF Settles, LastInUi
  <2> QED
    BY <1>1, <1>2, <1>4, <2>1, <2>2 DEF Settles

\* A response is put in an empty mailbox and carries its parameter's value.
LEMMA SettlesAnswered ==
  ASSUME NEW q \in Rows, NEW r \in Rows, NEW v, NEW w,
         ~ResponseInTx, ResponseInTx', tx'.row = q, r = q => tx'.value = w,
         r # q => w = v, Settles(r, v), UNCHANGED <<rows, ui, edited>>
  PROVE  Settles(r, w)'
<1>1. CASE r = q
  BY <1>1 DEF Settles, TxAnswers
<1>2. CASE r # q
  <2>1. ~TxAnswers(r) /\ ~TxAnswers(r)'
    BY <1>2 DEF TxAnswers
  <2>2. \A i : LastInUi(i, r)' <=> LastInUi(i, r)
    BY DEF LastInUi
  <2>3. InUi(r)' <=> InUi(r)
    BY DEF InUi
  <2> QED
    BY <1>2, <2>1, <2>2, <2>3 DEF Settles
<1> QED
  BY <1>1, <1>2

\* The response in the mailbox becomes the last one of the queue.
LEMMA SettlesTransmitted ==
  ASSUME SessionTypeOK, BusTransmits, NEW r \in Rows, NEW v, Settles(r, v)
  PROVE  Settles(r, v)'
<1>1. /\ Len(ui) \in Nat /\ ~TxAnswers(r)' /\ UNCHANGED <<rows, edited>>
      /\ \/ ~ResponseInTx /\ ui' = ui
         \/ /\ ResponseInTx /\ Len(ui') = Len(ui) + 1 /\ ui'[Len(ui) + 1] = tx
            /\ \A i \in 1 .. Len(ui) : ui'[i] = ui[i]
  BY TransmitEffect DEF TxAnswers, ResponseInTx
<1>2. CASE ~ResponseInTx /\ ui' = ui
  <2>1. ~TxAnswers(r)
    BY <1>2 DEF TxAnswers
  <2> QED
    BY <1>1, <1>2, <2>1 DEF Settles, LastInUi, InUi
<1>3. CASE /\ ResponseInTx /\ Len(ui') = Len(ui) + 1 /\ ui'[Len(ui) + 1] = tx
           /\ \A i \in 1 .. Len(ui) : ui'[i] = ui[i]
  <2>0. 1 .. Len(ui') = 1 .. Len(ui) \cup {Len(ui) + 1}
    BY <1>1, <1>3
  <2>1. CASE tx.row = r
    <3>1. tx.value = v
      BY <1>3, <2>1 DEF Settles, TxAnswers
    <3>2. ASSUME NEW i \in 1 .. Len(ui'), LastInUi(i, r)' PROVE ui'[i].value = v
      <4>1. Len(ui) + 1 <= i
        BY <1>3, <2>0, <2>1, <3>2 DEF LastInUi
      <4>2. i = Len(ui) + 1
        BY <1>1, <1>3, <4>1
      <4> QED
        BY <1>3, <3>1, <4>2
    <3>3. InUi(r)'
      BY <1>3, <2>0, <2>1 DEF InUi
    <3> QED
      BY <1>1, <3>2, <3>3 DEF Settles
  <2>2. CASE tx.row # r
    <3>1. ~TxAnswers(r)
      BY <2>2 DEF TxAnswers
    <3>2. ASSUME NEW i \in 1 .. Len(ui'), LastInUi(i, r)' PROVE ui'[i].value = v
      <4>1. i \in 1 .. Len(ui)
        BY <1>3, <2>0, <2>2, <3>2 DEF LastInUi
      <4>2. LastInUi(i, r)
        BY <1>3, <2>0, <3>2, <4>1 DEF LastInUi
      <4> QED
        BY <1>3, <3>1, <4>1, <4>2 DEF Settles
    <3>3. InUi(r)' <=> InUi(r)
      BY <1>3, <2>0, <2>2 DEF InUi
    <3> QED
      BY <1>1, <3>1, <3>2, <3>3 DEF Settles
  <2> QED
    BY <2>1, <2>2
<1> QED
  BY <1>1, <1>2, <1>3

\* A request leaves every row's parameter told.
LEMMA SettlesRequested ==
  ASSUME SessionTypeOK, HandleCanRequest, ~excused', NEW r \in Rows, NEW v, NEW w,
         v = params[ParamOf(r)], w = params'[ParamOf(r)], Settles(r, v)
  PROVE  Settles(r, w)'
<1>1. UNCHANGED <<rows, ui, edited>> /\ rx \in Requests
  BY RequestEffect DEF hostVars
<1>2. CASE UNCHANGED <<params, saving, tx, excused>>
  BY <1>1, <1>2, SettlesKept DEF TxAnswers, ResponseInTx
<1>3. CASE HandleRead(rx) \/ HandleWrite(rx)
  <2>1. /\ ~ResponseInTx /\ tx' \in Responses /\ rx.row \in Rows
        /\ tx' = Response(rx, TRUE, params'[ParamOf(rx.row)])
        /\ \A id \in WritableIds \ {ParamOf(rx.row)} : params'[id] = params[id]
    BY <1>1, <1>3, ReadEffect, WriteEffect
  <2>2. ResponseInTx' /\ tx'.row = rx.row /\ tx'.value = params'[ParamOf(rx.row)]
    BY <2>1, SessionFramesAssumption DEF Response, ResponseInTx
  <2>3. r # rx.row => w = v
    BY <2>1, RowsHaveParams
  <2> QED
    BY <1>1, <2>1, <2>2, <2>3, SettlesAnswered
<1> QED
  BY <1>2, <1>3, RequestEffect

\* A host's step leaves every row's parameter told.
LEMMA SettlesHost ==
  ASSUME SessionTypeOK, HostStep, ~excused', NEW r \in Rows, NEW v, Settles(r, v)
  PROVE  Settles(r, v)'
<1>1. CASE ShowResponse
  BY <1>1, SettlesShown
<1>2. CASE EditValue
  <2>1. PICK q \in Rows, n \in HostValues :
          rows' = [rows EXCEPT ![q].value = n] /\ edited' = edited \cup {q}
    BY <1>2 DEF EditValue
  <2>2. UNCHANGED <<ui, tx>>
    BY <1>2 DEF EditValue, nodeVars
  <2>3. CASE q = r
    BY <2>1, <2>2, <2>3 DEF Settles, LastInUi, InUi, TxAnswers, ResponseInTx
  <2>4. CASE q # r
    <3>1. rows'[r] = rows[r] /\ (r \in edited' <=> r \in edited)
      BY <2>1, <2>4 DEF SessionTypeOK
    <3> QED
      BY <2>2, <3>1, SettlesKept DEF TxAnswers, ResponseInTx
  <2> QED
    BY <2>3, <2>4
<1>3. CASE ReadSelectedParam \/ WriteSelectedParam \/ StartReadAll \/ ReadNext \/ SelectNode
  <2>1. UNCHANGED <<rows, ui, tx, edited>>
    BY <1>3 DEF ReadSelectedParam, WriteSelectedParam, StartReadAll, ReadNext, SelectNode, hostVars,
         nodeVars
  <2> QED
    BY <2>1, SettlesKept DEF TxAnswers, ResponseInTx
<1> QED
  BY <1>1, <1>2, <1>3 DEF HostStep

\* A node's step leaves every row's parameter told.
LEMMA SettlesNode ==
  ASSUME SessionTypeOK, SavedButNode, NodeStep, ~excused', NEW r \in Rows, NEW v, NEW w,
         ParamOf(r) # "NODE_ID", v = params[ParamOf(r)], w = params'[ParamOf(r)], Settles(r, v)
  PROVE  Settles(r, w)'
<1>1. CASE HandleCanRequest
  BY <1>1, SettlesRequested
<1>2. CASE SaveEnds
  <2>1. UNCHANGED <<rows, ui, tx, edited, params>>
    BY <1>2 DEF SaveEnds, hostVars
  <2> QED
    BY <2>1, SettlesKept DEF TxAnswers, ResponseInTx
<1>3. CASE SendOther
  <2>1. UNCHANGED <<rows, ui, edited, params>> /\ ~ResponseInTx /\ ~ResponseInTx'
    BY <1>3 DEF SendOther, Send, Other, ResponseInTx, hostVars
  <2>2. ~TxAnswers(r) /\ ~TxAnswers(r)'
    BY <2>1 DEF TxAnswers
  <2> QED
    BY <2>1, <2>2, SettlesKept
<1>4. CASE BusTransmits
  <2>1. w = v
    BY <1>4, TransmitEffect
  <2> QED
    BY <1>4, <2>1, SettlesTransmitted
<1>5. CASE PowerCycle
  <2>1. /\ UNCHANGED <<rows, ui, edited>> /\ ~ResponseInTx /\ ~ResponseInTx' /\ ~saving
        /\ params' = stored
    BY <1>5 DEF PowerCycle, ResponseInTx, hostVars
  <2>2. w = v
    BY <2>1, RowsHaveParams DEF SavedButNode
  <2>3. ~TxAnswers(r) /\ ~TxAnswers(r)'
    BY <2>1 DEF TxAnswers
  <2> QED
    BY <2>1, <2>2, <2>3, SettlesKept
<1> QED
  BY <1>1, <1>2, <1>3, <1>4, <1>5 DEF NodeStep

\* A response that was lost stays noted.
LEMMA ExcusedStays == ASSUME SessionTypeOK, SessionNext, excused PROVE excused'
<1>1. CASE HostStep
  BY <1>1, ShowEffect DEF HostStep, ReadSelectedParam, WriteSelectedParam, StartReadAll, ReadNext,
     EditValue, SelectNode
<1>2. CASE HandleCanRequest
  BY <1>2, RequestEffect, ReadEffect, WriteEffect
<1>3. CASE SaveEnds \/ SendOther \/ BusTransmits \/ PowerCycle
  BY <1>3 DEF SaveEnds, SendOther, Send, BusTransmits, PowerCycle
<1> QED
  BY <1>1, <1>2, <1>3 DEF SessionNext, NodeStep

LEMMA TableInductive ==
  /\ SessionInit => TableTells
  /\ SessionTypeOK /\ SavedButNode /\ TableTells /\ [SessionNext]_sessionVars => TableTells'
<1>1. SessionInit => TableTells
  <2> SUFFICES ASSUME SessionInit, NEW r \in Rows PROVE Settles(r, params[ParamOf(r)])
    BY DEF TableTells
  <2>1. ~ResponseInTx /\ Len(ui) = 0 /\ rows[r].status = "unread"
    BY EmptySeq DEF SessionInit, ResponseInTx
  <2> QED
    BY <2>1 DEF Settles, TxAnswers, LastInUi
<1>2. ASSUME SessionTypeOK, SavedButNode, TableTells, SessionNext PROVE TableTells'
  <2> SUFFICES ASSUME ~excused', NEW r \in Rows, ParamOf(r) # "NODE_ID"
               PROVE  Settles(r, params[ParamOf(r)])'
    BY DEF TableTells
  <2>1. PICK v, w : v = params[ParamOf(r)] /\ w = params'[ParamOf(r)]
    OBVIOUS
  <2>2. Settles(r, v)
    <3>1. Settles(r, params[ParamOf(r)])
      BY <1>2, ExcusedStays DEF TableTells
    <3> QED
      BY <2>1, <3>1
  <2>3. Settles(r, w)'
    <3>1. CASE HostStep
      <4>1. w = v
        BY <1>2, <2>1, <3>1, ShowEffect DEF HostStep, ReadSelectedParam, WriteSelectedParam,
           StartReadAll, ReadNext, EditValue, SelectNode, nodeVars
      <4> QED
        BY <1>2, <2>2, <3>1, <4>1, SettlesHost
    <3>2. CASE NodeStep
      BY <1>2, <2>1, <2>2, <3>2, SettlesNode
    <3> QED
      BY <1>2, <3>1, <3>2 DEF SessionNext
  <2> QED
    BY <2>1, <2>3 DEF Settles
<1>3. TableTells /\ UNCHANGED sessionVars => TableTells'
  BY DEF TableTells, Settles, TxAnswers, ResponseInTx, LastInUi, InUi, sessionVars, hostVars, nodeVars
<1> QED
  BY <1>1, <1>2, <1>3

-----------------------------------------------------------------------------
(* The theorems.                                                           *)

LEMMA SessionInvariant == SessionSpec => []SessionInv
<1>1. SessionInit => SessionInv
  BY SessionTypesInductive, NodeKeptInductive, SavedInductive, TableInductive
     DEF SessionInv
<1>2. SessionInv /\ [SessionNext]_sessionVars => SessionInv'
  BY SessionTypesInductive, NodeKeptInductive, SavedInductive, TableInductive
     DEF SessionInv
<1> QED
  BY <1>1, <1>2, PTL DEF SessionSpec

\* The table, the queues, the mailboxes and the node's parameters keep their
\* types: sscb_params_set never stores a value out of its parameter's range.
THEOREM SessionTyped == SessionSpec => []SessionTypeOK
<1>1. SessionInv => SessionTypeOK
  BY DEF SessionInv
<1> QED
  BY <1>1, SessionInvariant, PTL

\* However identifiers are written and wherever the power fails, only the
\* identifier the receive filters are built for is ever stored.
THEOREM StoredNodeKept == SessionSpec => []StoredNodeIsFilter
<1>1. SessionInv => StoredNodeIsFilter
  BY DEF SessionInv, NodeKept, StoredNodeIsFilter
<1> QED
  BY <1>1, SessionInvariant, PTL

\* Whatever reads, writes, sweeps, edits and saves were in flight together,
\* the table ends up with the node's values, unless a response was lost.
THEOREM TableSettles == SessionSpec => []RowsSettle
<1>1. SessionInv => RowsSettle
  <2> SUFFICES ASSUME SessionInv, Quiet, ~excused, NEW r \in Rows \ edited,
                      rows[r].status = "OK", ParamOf(r) # "NODE_ID"
               PROVE  rows[r].value = params[ParamOf(r)]
    BY DEF RowsSettle
  <2>1. ~ResponseInTx /\ Len(ui) = 0
    BY EmptySeq DEF Quiet, ResponseInTx, Other
  <2>2. ~TxAnswers(r) /\ ~InUi(r)
    BY <2>1 DEF TxAnswers, InUi
  <2> QED
    BY <2>2 DEF SessionInv, TableTells, Settles
<1> QED
  BY <1>1, SessionInvariant, PTL

\* Only the filter's node number reaches the node, which answers to none but
\* its present identifier: a renamed node changes nothing until it is
\* restarted.
THEOREM RenamedNodeDeaf == SessionSpec => RenamedNodeIsDeaf
<1>1. SessionInv /\ [SessionNext]_sessionVars =>
        [params["NODE_ID"] # FilterNode /\ losses' = losses => params' = params]_sessionVars
  <2> SUFFICES ASSUME SessionInv, SessionNext, params["NODE_ID"] # FilterNode, losses' = losses
               PROVE  params' = params
    OBVIOUS
  <2>1. SessionTypeOK /\ NodeKept
    BY DEF SessionInv
  <2>2. CASE HostStep
    BY <2>1, <2>2, ShowEffect DEF HostStep, ReadSelectedParam, WriteSelectedParam, StartReadAll,
       ReadNext, EditValue, SelectNode, nodeVars
  <2>3. CASE HandleCanRequest
    <3>1. ~Addressed(rx)
      BY <2>1, <2>3, RequestEffect DEF NodeKept, Addressed
    <3> QED
      BY <2>1, <2>3, <3>1, RequestEffect
  <2>4. CASE SaveEnds \/ SendOther \/ BusTransmits
    BY <2>4 DEF SaveEnds, SendOther, BusTransmits
  <2>5. CASE PowerCycle
    BY <2>1, <2>5, HostSessionAssumption DEF PowerCycle, SessionTypeOK
  <2> QED
    BY <2>2, <2>3, <2>4, <2>5 DEF SessionNext, NodeStep
<1> QED
  BY <1>1, SessionInvariant, PTL DEF SessionSpec, RenamedNodeIsDeaf
=============================================================================
