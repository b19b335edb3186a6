-------------------------- MODULE MCIsoTpReentrant --------------------------
(* A sender of single and segmented messages with a driver that may fail.   *)
EXTENDS IsoTpReentrant

Single    == [id |-> 1, length |-> 5]
Segmented == [id |-> 2, length |-> 18]

SentMessages == {Single, Segmented}
FlowControls == {[type |-> "FC", fs |-> "READY", bs |-> 0]}
OutputOnly   == {"output"}
None         == {}
=============================================================================
