----------------------------- MODULE MCIsoTpLink -----------------------------
(* The messages of the two applications: without losses one whose 19         *)
(* consecutive frames take the serial number past its wrap, and a single     *)
(* frame; with losses three segmented ones, so that what is left of the      *)
(* first may meet the second and the third.                                *)
EXTENDS IsoTpLink

CONSTANT b1

LongMessage   == [id |-> 1, length |-> 6 + 7 * 18 + 2]
SingleMessage == [id |-> 2, length |-> 4]
UnevenMessage == [id |-> 3, length |-> 6 + 7 + 2]
EvenMessage   == [id |-> 4, length |-> 6 + 7 * 2]
ShortMessage  == [id |-> 5, length |-> 6 + 7]
Answer        == [id |-> 6, length |-> 6 + 7 * 2]
ShortAnswer   == [id |-> 7, length |-> 6 + 7]

LongAndSingle  == {LongMessage, SingleMessage}
ThreeSegmented == {UnevenMessage, EvenMessage, ShortMessage}
OneAnswer      == {Answer}
OneShortAnswer == {ShortAnswer}
AllMessages    == LongAndSingle \cup ThreeSegmented \cup OneAnswer \cup OneShortAnswer
OneBuffer      == {b1}
=============================================================================
