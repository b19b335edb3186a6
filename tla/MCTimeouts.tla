----------------------------- MODULE MCTimeouts -----------------------------
(* A clock of eight values, so that it wraps while timeouts are pending.    *)
EXTENDS Timeouts

CONSTANTS h1, h2

TwoHandlers == {h1, h2}
OneHandler == {h1}
NowAndLater == {0, 2}
AtOnce == {0}
=============================================================================
