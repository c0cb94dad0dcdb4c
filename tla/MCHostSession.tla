--------------------------- MODULE MCHostSession ---------------------------
(* Two rows: the one that is NODE_ID in the firmware and the one that is   *)
(* its short threshold.  Of the values typed, 2 is a node identifier, 533  *)
(* a threshold and 5000 beyond the (scaled) word.                          *)
EXTENDS HostSession

MCParamRange ==
  [id \in WritableIds |->
     CASE id = "NODE_ID"           -> [lo |-> 1, hi |-> 2]
       [] id = "SHORT_THRESHOLD_A" -> [lo |-> 500, hi |-> 1000]
       [] OTHER                    -> [lo |-> 0, hi |-> 1]]

MCParamDefaults ==
  [id \in WritableIds |->
     IF id = "SHORT_THRESHOLD_A" THEN 1000 ELSE MCParamRange[id].lo]

MCHostValues == {2, 533, 5000}
=============================================================================
