---------------------------- MODULE MCUdsClient ----------------------------
(* The client with everything that may come in its way.                    *)
EXTENDS UdsClient

Disturbed == {"memory short", "no room", "unexpected response"}
=============================================================================
