----------------------------- MODULE MCDispatch -----------------------------
(* Two interfaces with the two numbers there are; three raw connections,    *)
(* for a list with a middle, and an ISO-TP one.                             *)
EXTENDS Dispatch

CONSTANTS c1, c2, x

TwoInterfaces == {c1, c2}
OneId == {x}
=============================================================================
