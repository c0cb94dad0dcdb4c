---------------------------- MODULE HostSession ----------------------------
(***************************************************************************)
(* The parameter table of the host against the parameters of the node:     *)
(* the rows and buttons of MainForm.cs, the frames of SscbProtocol.cs and  *)
(* protocol/can_protocol.c, the two mailboxes of can_driver.c, the save of *)
(* an accepted write and a power cycle of the node.                        *)
(*                                                                         *)
(* Host and firmware agree on numbers, not on meanings: the row the host   *)
(* names ShortThreshold has number 1, which is NODE_ID in the firmware.    *)
(*                                                                         *)
(* Left out: other requests and fractions of values.  Of the store only    *)
(* what a boot may find is kept: after a torn save the block being saved,  *)
(* the one before it, or the one before that, as ParamPersistence shows.   *)
(***************************************************************************)
EXTENDS Parameters, Sequences

CONSTANTS
  Rows,         \* rows in use, a subset of HostRows
  HostValues,   \* values users type into a row
  MaxWord,      \* largest uint32_t
  Unspecified,  \* what converting a float beyond it may give
  HostNodes,    \* node numbers users select
  FilterNode,   \* SSCB_CAN_NODE_ID_DEFAULT, fixed in the receive filters
  NoFrame,      \* an empty mailbox
  MaxSends,     \* bound on requests
  MaxLosses     \* bound on power failures

-----------------------------------------------------------------------------
(* SscbParamId of the host and sscb_param_id_t of the firmware.            *)

HostNumber ==
  [ShortThreshold |-> 1, OverCurrentThreshold |-> 2, OverVoltageThreshold |-> 3,
   OverTempThreshold |-> 4, I2TThreshold |-> 5, VoltageK |-> 6, CurrentK |-> 7,
   TempK |-> 8, NodeId |-> 9, RecoverMode |-> 10]

FirmwareNumber ==
  [NODE_ID |-> 1, SHORT_THRESHOLD_A |-> 2, OVER_CURRENT_IR_A |-> 3,
   I2T_TR_MS |-> 4, I2T_KCOOL_X10000 |-> 5, OVERLOAD_RECOVER_DELAY_MS |-> 6,
   OVER_VOLTAGE_TRIP_DV |-> 7, OVER_VOLTAGE_RETURN_DV |-> 8,
   OVER_VOLTAGE_TRIP_DELAY_MS |-> 9, OVER_VOLTAGE_RETURN_DELAY_MS |-> 10,
   OVER_TEMP_WARN_DC |-> 11, OVER_TEMP_RETURN_DC |-> 12, RECOVER_MODE |-> 13,
   CMPSS_DAC_REF_MV |-> 14]

HostRows == DOMAIN HostNumber

\* The parameter a row reads and writes in the firmware.
ParamOf(row) == CHOOSE id \in WritableIds : FirmwareNumber[id] = HostNumber[row]

ASSUME HostSessionAssumption ==
  /\ Rows \subseteq HostRows
  /\ HostValues \subseteq Int /\ Unspecified \subseteq 0 .. MaxWord
  /\ FilterNode = ParamDefaults["NODE_ID"] /\ FilterNode \in HostNodes
  /\ HostNodes \subseteq 1 .. 127
  /\ MaxWord \in Nat /\ MaxSends \in Nat /\ MaxLosses \in Nat

VARIABLES
  rows,       \* _params: value and status of each row
  host_node,  \* the node number selected
  sweep,      \* rows ReadAllParamsAsync has yet to ask for
  ui,         \* frames waiting for the UI thread
  params,     \* the node's parameters
  stored,     \* what a boot loads
  previous,   \* the block a torn save may bring back, stored if there is none
  saving,     \* the node is writing an accepted block
  rx, tx,     \* its mailboxes
  \* the observer:
  edited,     \* rows the user changed after the last response
  excused,    \* a response was replaced, ignored or died with the power
  sends, losses

hostVars == <<rows, host_node, sweep, ui>>
nodeVars == <<params, stored, previous, saving, rx, tx>>
bounds == <<sends, losses>>
sessionVars == <<hostVars, nodeVars, edited, excused, bounds>>

Statuses == {"unread", "OK", "failed"}
Requests == [op : {"read", "write"}, node : HostNodes, row : Rows, value : Int]
Responses == [kind : {"response"}, node : HostNodes, ok : BOOLEAN, row : Rows, value : Int]
Other == [kind |-> "other"]

ASSUME SessionFramesAssumption == NoFrame \notin Requests \cup Responses \cup {Other}

SessionInit ==
  /\ rows = [r \in Rows |-> [value |-> 0, status |-> "unread"]]
  /\ host_node = FilterNode
  /\ sweep = {} /\ ui = <<>>
  /\ params = ParamDefaults /\ stored = ParamDefaults /\ previous = ParamDefaults
  /\ saving = FALSE
  /\ rx = NoFrame /\ tx = NoFrame
  /\ edited = {} /\ excused = FALSE /\ sends = 0 /\ losses = 0

-----------------------------------------------------------------------------
(* The host.                                                               *)

\* The frame reaches the node's mailbox if its filter takes the identifier,
\* and replaces an unread one.
SendRequest(op, r) ==
  /\ sends < MaxSends /\ sends' = sends + 1
  /\ rx' = IF host_node = FilterNode
             THEN [op |-> op, node |-> host_node, row |-> r, value |-> rows[r].value]
             ELSE rx

ReadSelectedParam ==
  /\ \E r \in Rows : SendRequest("read", r)
  /\ UNCHANGED <<hostVars, params, stored, previous, saving, tx, edited, excused, losses>>

WriteSelectedParam ==
  /\ \E r \in Rows : SendRequest("write", r)
  /\ UNCHANGED <<hostVars, params, stored, previous, saving, tx, edited, excused, losses>>

\* ReadAllParamsAsync: one row, then 20 ms in which anything else may happen.
\* The button is disabled until the last row; the order is left open.
StartReadAll ==
  /\ sweep = {} /\ sweep' = Rows
  /\ UNCHANGED <<rows, host_node, ui, nodeVars, edited, excused, bounds>>

ReadNext ==
  /\ \E r \in sweep : SendRequest("read", r) /\ sweep' = sweep \ {r}
  /\ UNCHANGED <<rows, host_node, ui, params, stored, previous, saving, tx, edited, excused, losses>>

\* The value column can be edited, the status column cannot.
EditValue ==
  /\ \E r \in Rows, v \in HostValues :
        rows' = [rows EXCEPT ![r].value = v] /\ edited' = edited \cup {r}
  /\ UNCHANGED <<host_node, sweep, ui, nodeVars, excused, bounds>>

SelectNode ==
  /\ host_node' \in HostNodes
  /\ UNCHANGED <<rows, sweep, ui, nodeVars, edited, excused, bounds>>

\* OnFrameReceived, in the UI thread: TryParseParamResponse takes frames of
\* the node selected by then.
ShowResponse ==
  /\ ui # <<>> /\ ui' = Tail(ui)
  /\ LET f == Head(ui)
     IN  IF f.node = host_node
           THEN /\ rows' = [rows EXCEPT ![f.row] =
                              [value |-> f.value,
                               status |-> IF f.ok THEN "OK" ELSE "failed"]]
                /\ edited' = edited \ {f.row}
                /\ UNCHANGED excused
           ELSE excused' = TRUE /\ UNCHANGED <<rows, edited>>
  /\ UNCHANGED <<host_node, sweep, nodeVars, bounds>>

-----------------------------------------------------------------------------
(* The node.                                                               *)

\* sscb_can_driver_send: the mailbox loses what it still holds.
Send(frame) ==
  /\ tx' = frame
  /\ excused' = (excused \/ (tx # NoFrame /\ tx.kind = "response"))

\* The response goes back under the identifier of the request.
Response(f, ok, value) ==
  [kind |-> "response", node |-> f.node, ok |-> ok, row |-> f.row, value |-> value]

\* A value below zero is zero; one beyond the word is undefined.
Converted(v) ==
  IF v < 0 THEN {0} ELSE IF v > MaxWord THEN Unspecified ELSE {v}

\* Mutant of HandleRead: the row's own value is sent back.
HandleReadEchoes(f) ==
  /\ f.op = "read"
  /\ Send(Response(f, TRUE, f.value))
  /\ UNCHANGED <<params, saving>>

HandleRead(f) ==
  /\ f.op = "read"
  /\ Send(Response(f, TRUE, params[ParamOf(f.row)]))
  /\ UNCHANGED <<params, saving>>

\* Mutant of HandleWrite: the save is decided with the old identifier.
HandleWriteSaves(f) ==
  /\ f.op = "write"
  /\ \E value \in Converted(f.value) :
       /\ ParamsSetAccepts(ParamOf(f.row), value)
       /\ params' = ParamsSet(params, ParamOf(f.row), value)
       /\ Send(Response(f, TRUE, params'[ParamOf(f.row)]))
       /\ saving' = TRUE

\* Mutant of HandleWrite: the range is not looked at.
HandleWriteUnchecked(f) ==
  /\ f.op = "write"
  /\ \E value \in Converted(f.value) :
       /\ params' = [params EXCEPT ![ParamOf(f.row)] = value]
       /\ Send(Response(f, TRUE, params'[ParamOf(f.row)]))
       /\ saving' = (f.node = params'["NODE_ID"])

\* An accepted write is answered, and then saved if the request is still
\* addressed to the node.
HandleWrite(f) ==
  /\ f.op = "write"
  /\ \E value \in Converted(f.value) :
       /\ ParamsSetAccepts(ParamOf(f.row), value)
       /\ params' = ParamsSet(params, ParamOf(f.row), value)
       /\ Send(Response(f, TRUE, params'[ParamOf(f.row)]))
       /\ saving' = (f.node = params'["NODE_ID"])

\* The error response of a refused write is built and not sent.
RefuseWrite(f) ==
  /\ f.op = "write"
  /\ \E value \in Converted(f.value) : ~ParamsSetAccepts(ParamOf(f.row), value)
  /\ UNCHANGED <<params, saving, tx, excused>>

\* Mutant of Addressed: the protocol trusts the filter.
AddressedAlways(f) == f # NoFrame

\* sscb_protocol_handle_frame compares with the node's present identifier.
Addressed(f) == f.node = params["NODE_ID"]

HandleCanRequest ==
  /\ rx # NoFrame /\ ~saving
  /\ rx' = NoFrame
  /\ \/ ~Addressed(rx) /\ UNCHANGED <<params, saving, tx, excused>>
     \/ Addressed(rx) /\ (HandleRead(rx) \/ HandleWrite(rx) \/ RefuseWrite(rx))
  /\ UNCHANGED <<hostVars, stored, previous, edited, bounds>>

SaveEnds ==
  /\ saving /\ saving' = FALSE
  /\ stored' = params /\ previous' = stored
  /\ UNCHANGED <<hostVars, params, rx, tx, edited, excused, bounds>>

\* A periodic frame or a report.
SendOther ==
  /\ ~saving
  /\ Send(Other)
  /\ UNCHANGED <<hostVars, params, stored, previous, saving, rx, edited, bounds>>

BusTransmits ==
  /\ tx # NoFrame /\ tx' = NoFrame
  /\ ui' = IF tx.kind = "response" THEN Append(ui, tx) ELSE ui
  /\ UNCHANGED <<rows, host_node, sweep, params, stored, previous, saving, rx, edited, excused, bounds>>

\* A write is answered before it is saved: the power may fail between.  The
\* slot being written has then its old number, or the new one with its old
\* block, which passes for the newest, or half a block, or all of it.
PowerCycle ==
  /\ losses < MaxLosses /\ losses' = losses + 1
  /\ \/ UNCHANGED <<stored, previous>>
     \/ saving /\ stored' = previous /\ previous' = stored
     \/ saving /\ previous' = stored /\ UNCHANGED stored
     \/ saving /\ stored' = params /\ previous' = stored
  /\ params' = stored' /\ saving' = FALSE
  /\ rx' = NoFrame /\ tx' = NoFrame
  /\ excused' = (excused \/ saving \/ (tx # NoFrame /\ tx.kind = "response"))
  /\ UNCHANGED <<hostVars, edited, sends>>

HostStep ==
  \/ ReadSelectedParam \/ WriteSelectedParam \/ StartReadAll \/ ReadNext
  \/ EditValue \/ SelectNode \/ ShowResponse

NodeStep ==
  HandleCanRequest \/ SaveEnds \/ SendOther \/ BusTransmits \/ PowerCycle

SessionNext == HostStep \/ NodeStep
SessionSpec == SessionInit /\ [][SessionNext]_sessionVars

-----------------------------------------------------------------------------
\* The variables hold values of their types.
SessionTypeOK ==
  /\ rows \in [Rows -> [value : Int, status : Statuses]]
  /\ host_node \in HostNodes /\ sweep \subseteq Rows
  /\ ui \in Seq(Responses)
  /\ {params, stored, previous} \subseteq ParamBlock /\ saving \in BOOLEAN
  /\ rx = NoFrame \/ rx \in Requests
  /\ tx \in {NoFrame, Other} \/ tx \in Responses
  /\ edited \subseteq Rows /\ excused \in BOOLEAN
  /\ sends \in 0 .. MaxSends /\ losses \in 0 .. MaxLosses

Quiet == rx = NoFrame /\ tx \in {NoFrame, Other} /\ ui = <<>> /\ ~saving

\* When nothing is on its way, every row marked OK and not edited since shows
\* what the node has under its number, whatever reads, writes, sweeps and
\* edits were in flight together; unless a response was lost on the way, and
\* but for the row that changes the node's identifier, which is not stored.
RowsSettle ==
  Quiet /\ ~excused =>
    \A r \in Rows \ edited :
      rows[r].status = "OK" /\ ParamOf(r) # "NODE_ID" =>
        rows[r].value = params[ParamOf(r)]

\* A node that was given another identifier keeps all its parameters until
\* its power is cycled, whichever node number hosts select from then on:
\* its filters and its protocol no longer agree on any frame.
RenamedNodeIsDeaf ==
  [][params["NODE_ID"] # FilterNode /\ losses' = losses => params' = params]_sessionVars

\* The identifier the filters are built for is the only one ever stored: a
\* power cycle gives every renamed node back, also one in the middle of a save.
StoredNodeIsFilter == stored["NODE_ID"] = FilterNode

-----------------------------------------------------------------------------
(* What the documents say and the code does not do.                        *)

\* The node is addressed by a write whose value it does not take.
Refusable(f) ==
  /\ f # NoFrame /\ f.op = "write" /\ Addressed(f)
  /\ \A value \in Converted(f.value) : ~ParamsSetAccepts(ParamOf(f.row), value)

\* 8.4: a mechanism to report an illegal parameter or a failed write, which
\* the table would show as a failure.  A node that takes such a write out of
\* its mailbox answers it.
RefusalsAnswered ==
  [][Refusable(rx) /\ rx' = NoFrame /\ losses' = losses =>
       /\ tx' \notin {NoFrame, Other}
       /\ tx'.row = rx.row /\ ~tx'.ok]_sessionVars
=============================================================================
