---------------------------- MODULE IsoTpService ----------------------------
(***************************************************************************)
(* What two bound ISO-TP connections promise in one direction: messages     *)
(* arrive whole, in the order isotp_send took them and at most once; when   *)
(* the bus loses nothing, each of them arrives.                            *)
(***************************************************************************)
EXTENDS Naturals, Sequences

CONSTANTS
  Outgoing,  \* messages the sending application has, each sent once
  Lossy      \* whether messages may get lost

VARIABLES
  accepted,  \* what isotp_send took, in order
  delivered  \* what the receive callback was given, in order

vars == <<accepted, delivered>>

Init ==
  /\ accepted = <<>>
  /\ delivered = <<>>

Send(m) ==
  /\ \A i \in DOMAIN accepted : accepted[i] # m
  /\ accepted' = Append(accepted, m)
  /\ UNCHANGED delivered

(* The i-th message arrives: none that was sent after it has.              *)
Deliver(i) ==
  /\ \A j \in DOMAIN delivered : \E k \in 1..(i - 1) : delivered[j] = accepted[k]
  /\ ~Lossy => i = Len(delivered) + 1
  /\ delivered' = Append(delivered, accepted[i])
  /\ UNCHANGED accepted

Next ==
  \/ \E m \in Outgoing : Send(m)
  \/ \E i \in DOMAIN accepted : Deliver(i)

Spec == Init /\ [][Next]_vars

(* Nothing accepted stays undelivered when nothing is lost.                *)
Live == ~Lossy => WF_vars(\E i \in DOMAIN accepted : Deliver(i))

LiveSpec == Spec /\ Live
=============================================================================
