------------------------------ MODULE MCIsoTp ------------------------------
(* Small instances of IsoTp for TLC.                                       *)
EXTENDS IsoTp, TLC

CONSTANTS b1, b2

Single   == [id |-> 1, length |-> 5]
Limit    == [id |-> 2, length |-> 7]     \* the longest single frame
TwoCfs   == [id |-> 3, length |-> 8 + 10]
Wrapping == [id |-> 4, length |-> 6 + 7 * 17 + 3]  \* sn goes 1..15, 0, 1, 2

(* The sender: messages of every kind, any flow control.                   *)
SentMessages == {Single, Limit, TwoCfs, Wrapping}

FlowControls ==
  {[type |-> "FC", fs |-> "READY", bs |-> n] : n \in {0, 1, 3, 15, 16, 200}}
    \cup {[type |-> "FC", fs |-> s, bs |-> 0] : s \in {"WAIT", "OVERFLOW"}}

(* A peer that always announces blocks of three.                           *)
BlocksOfThree == {[type |-> "FC", fs |-> "READY", bs |-> 3]}

(* The receiver: a peer sends the frames of its messages in any order.      *)
ReceivedMessages == {Single, TwoCfs}

DataFrames ==
  {[type |-> "SF", dl |-> Single.length, data |-> [msg |-> Single, off |-> 0]],
   [type |-> "FF", dl |-> TwoCfs.length, data |-> [msg |-> TwoCfs, off |-> 0]],
   [type |-> "CF", sn |-> 1, data |-> [msg |-> TwoCfs, off |-> 6]],
   [type |-> "CF", sn |-> 2, data |-> [msg |-> TwoCfs, off |-> 13]]}

LongFrames ==
  {[type |-> "FF", dl |-> Wrapping.length, data |-> [msg |-> Wrapping, off |-> 0]]}
    \cup {[type |-> "CF", sn |-> n, data |-> [msg |-> Wrapping, off |-> 6]]
            : n \in 0..CF_SN_MASK}

ManyMessages == {Single, TwoCfs, Wrapping}
AllFrames == DataFrames \cup LongFrames
AnyFrames == DataFrames \cup FlowControls

OneBuffer == {b1}
TwoBuffers == {b1, b2}
None == {}
OutputOnly == {"output"}
BothFlows == Flow

BufferSymmetry == Permutations(TwoBuffers)
=============================================================================
