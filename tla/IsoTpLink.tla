----------------------------- MODULE IsoTpLink -----------------------------
(***************************************************************************)
(* Two bound connections, A and B, on one CAN bus: what A transmits B's     *)
(* isotp_input is given and the other way round, in the order of the bus.   *)
(* Both applications send while they receive.                              *)
(*                                                                         *)
(* The driver is assumed to report a frame with isotp_sent before it hands  *)
(* over a frame that answers it, and N_Bs and N_Cr to be longer than        *)
(* anything else takes: they expire only when no frame and no other timeout *)
(* is under way.                                                           *)
(***************************************************************************)
EXTENDS Integers, Sequences

CONSTANTS
  Messages, OutgoingA, OutgoingB, BufferId,
  ISOTP_RECEIVE_BS, ISOTP_N_WFT, LWCAN_TIMEOUTS_NUM,
  Lossy  \* whether a frame may miss its receiver

(* As for one connection (IsoTpAssumption); and each heap has room for a    *)
(* receive buffer.                                                         *)
ASSUME LinkAssumption ==
  /\ Messages \subseteq [id : Nat, length : 1..4095]
  /\ OutgoingA \subseteq Messages
  /\ OutgoingB \subseteq Messages
  /\ BufferId # {}
  /\ ISOTP_RECEIVE_BS \in 0..255
  /\ ISOTP_N_WFT \in 0..255
  /\ LWCAN_TIMEOUTS_NUM \in Nat
  /\ LWCAN_TIMEOUTS_NUM >= 2
  /\ Lossy \in BOOLEAN

VARIABLES
  output_flow_a, input_flow_a, timeouts_a, tx_a,
  held_a, attached_a, outcome_a, unacked_a,
  output_flow_b, input_flow_b, timeouts_b, tx_b,
  held_b, attached_b, outcome_b, unacked_b,
  bus_a, bus_b,              \* frames of A and of B that the other has not got yet
  accepted_a, accepted_b,    \* messages isotp_send took from A and from B
  delivered_a, delivered_b,  \* messages the receive callback of A and of B was given
  stopped                    \* whether an end has told the other to stop

varsA == <<output_flow_a, input_flow_a, timeouts_a, tx_a,
           held_a, attached_a, outcome_a, unacked_a>>
varsB == <<output_flow_b, input_flow_b, timeouts_b, tx_b,
           held_b, attached_b, outcome_b, unacked_b>>
vars  == <<varsA, varsB, bus_a, bus_b, accepted_a, accepted_b,
           delivered_a, delivered_b, stopped>>

A == INSTANCE IsoTpNode
       WITH Outgoing <- OutgoingA, PeerFrames <- {}, FailingFlows <- {},
         Holding <- FALSE, Detachable <- FALSE,
         output_flow <- output_flow_a,
         input_flow <- input_flow_a,
         timeouts <- timeouts_a,
         tx <- tx_a,
         held <- held_a,
         attached <- attached_a,
         outcome <- outcome_a,
         unacked <- unacked_a

B == INSTANCE IsoTpNode
       WITH Outgoing <- OutgoingB, PeerFrames <- {}, FailingFlows <- {},
         Holding <- FALSE, Detachable <- FALSE,
         output_flow <- output_flow_b,
         input_flow <- input_flow_b,
         timeouts <- timeouts_b,
         tx <- tx_b,
         held <- held_b,
         attached <- attached_b,
         outcome <- outcome_b,
         unacked <- unacked_b

Init ==
  /\ A!Init
  /\ B!Init
  /\ bus_a = <<>> /\ bus_b = <<>>
  /\ accepted_a = <<>> /\ accepted_b = <<>>
  /\ delivered_a = <<>> /\ delivered_b = <<>>
  /\ stopped = FALSE

OnBus(bus) == {bus[i] : i \in DOMAIN bus}

(* Flow control that ends the message of the other end.                    *)
Stops(frames) == \E f \in OnBus(frames) : f.type = "FC" /\ f.fs = "OVERFLOW"

(* Nothing happens any more unless N_Bs or N_Cr expires or a message is sent.*)
Silence ==
  /\ bus_a = <<>> /\ bus_b = <<>>
  /\ A!Unconfirmed = {} /\ B!Unconfirmed = {}
  /\ A!OnlyErrorTimeouts /\ B!OnlyErrorTimeouts

(* What A's application, its timeouts and its driver do.                     *)
SendA(m) ==
  /\ \A i \in DOMAIN accepted_a : accepted_a[i] # m
  /\ A!isotp_send(m)
  /\ accepted_a' = Append(accepted_a, m)
  /\ UNCHANGED <<varsB, bus_a, bus_b, accepted_b, delivered_a, delivered_b, stopped>>

TransmitA ==
  /\ A!isotp_out_flow_output \/ A!isotp_in_flow_output
  /\ bus_a' = bus_a \o A!Emitted
  /\ stopped' = (stopped \/ Stops(A!Emitted))
  /\ UNCHANGED <<varsB, bus_b, accepted_a, accepted_b, delivered_a, delivered_b>>

ConfirmA ==
  /\ A!isotp_sent
  /\ UNCHANGED <<varsB, bus_a, bus_b, accepted_a, accepted_b, delivered_a, delivered_b, stopped>>

(* Mutant: N_Bs does not leave the answer the time it needs.               *)
ExpireAHasty ==
  /\ A!isotp_output_error_handler \/ A!isotp_input_error_handler
  /\ UNCHANGED <<varsB, bus_a, bus_b, accepted_a, accepted_b, delivered_a, delivered_b, stopped>>

ExpireA ==
  /\ Silence
  /\ A!isotp_output_error_handler \/ A!isotp_input_error_handler
  /\ UNCHANGED <<varsB, bus_a, bus_b, accepted_a, accepted_b, delivered_a, delivered_b, stopped>>

ReceiveA ==
  /\ bus_b # <<>>
  /\ A!Unconfirmed \subseteq OnBus(bus_a)
  /\ A!isotp_input(Head(bus_b))
  /\ bus_b' = Tail(bus_b)
  /\ delivered_a' = delivered_a \o A!Received(Head(bus_b))
  /\ UNCHANGED <<varsB, bus_a, accepted_a, accepted_b, delivered_b, stopped>>

(* What B's application, its timeouts and its driver do.                     *)
SendB(m) ==
  /\ \A i \in DOMAIN accepted_b : accepted_b[i] # m
  /\ B!isotp_send(m)
  /\ accepted_b' = Append(accepted_b, m)
  /\ UNCHANGED <<varsA, bus_b, bus_a, accepted_a, delivered_b, delivered_a, stopped>>

TransmitB ==
  /\ B!isotp_out_flow_output \/ B!isotp_in_flow_output
  /\ bus_b' = bus_b \o B!Emitted
  /\ stopped' = (stopped \/ Stops(B!Emitted))
  /\ UNCHANGED <<varsA, bus_a, accepted_b, accepted_a, delivered_b, delivered_a>>

ConfirmB ==
  /\ B!isotp_sent
  /\ UNCHANGED <<varsA, bus_b, bus_a, accepted_b, accepted_a, delivered_b, delivered_a, stopped>>

ExpireB ==
  /\ Silence
  /\ B!isotp_output_error_handler \/ B!isotp_input_error_handler
  /\ UNCHANGED <<varsA, bus_b, bus_a, accepted_b, accepted_a, delivered_b, delivered_a, stopped>>

ReceiveB ==
  /\ bus_a # <<>>
  /\ B!Unconfirmed \subseteq OnBus(bus_b)
  /\ B!isotp_input(Head(bus_a))
  /\ bus_a' = Tail(bus_a)
  /\ delivered_b' = delivered_b \o B!Received(Head(bus_a))
  /\ UNCHANGED <<varsA, bus_b, accepted_b, accepted_a, delivered_a, stopped>>

(* A receiver misses a frame.                                              *)
Lose ==
  /\ Lossy
  /\ \/ bus_a # <<>> /\ bus_a' = Tail(bus_a) /\ UNCHANGED bus_b
     \/ bus_b # <<>> /\ bus_b' = Tail(bus_b) /\ UNCHANGED bus_a
  /\ UNCHANGED <<varsA, varsB, accepted_a, accepted_b, delivered_a, delivered_b, stopped>>

Next ==
  \/ \E m \in OutgoingA : SendA(m)
  \/ \E m \in OutgoingB : SendB(m)
  \/ TransmitA \/ ConfirmA \/ ExpireA \/ ReceiveA
  \/ TransmitB \/ ConfirmB \/ ExpireB \/ ReceiveB
  \/ Lose

Spec == Init /\ [][Next]_vars

(* Both main loops run, both drivers report and hand over what they get.   *)
Fairness ==
  /\ WF_vars(TransmitA) /\ WF_vars(ConfirmA) /\ WF_vars(ExpireA) /\ WF_vars(ReceiveA)
  /\ WF_vars(TransmitB) /\ WF_vars(ConfirmB) /\ WF_vars(ExpireB) /\ WF_vars(ReceiveB)

FairSpec == Spec /\ Fairness
-----------------------------------------------------------------------------
AToB == INSTANCE IsoTpService
          WITH Outgoing <- OutgoingA, accepted <- accepted_a, delivered <- delivered_b
BToA == INSTANCE IsoTpService
          WITH Outgoing <- OutgoingB, accepted <- accepted_b, delivered <- delivered_a

(* Each direction implements the service: without losses every message is   *)
(* delivered at most once, whole and in order.                             *)
BothSafe == AToB!Spec /\ BToA!Spec

(* And every message isotp_send took arrives.                              *)
EachArrives == AToB!Live /\ BToA!Live

(* With losses no message is delivered twice, out of order, in parts or     *)
(* made of two messages until an end stops the other: a stop is not tied to *)
(* a message, so when the one it is for has ended it ends the next, and     *)
(* the answer to that one sets the one after it going.                     *)
SafeUntilStop ==
  /\ AToB!Init /\ BToA!Init
  /\ [][~stopped' => [AToB!Next]_(AToB!vars) /\ [BToA!Next]_(BToA!vars)]_vars

(* Without losses N_Bs and N_Cr never expire: the two ends agree on where    *)
(* each block ends, so they never wait for each other.                     *)
NeverBothWait ==
  Silence /\ ~Lossy =>
    /\ output_flow_a.state = "IDLE" /\ input_flow_a.state = "IDLE"
    /\ output_flow_b.state = "IDLE" /\ input_flow_b.state = "IDLE"

(* Whatever the bus loses, N_Bs and N_Cr bring all four flows back, so each  *)
(* end can send and receive again.                                         *)
Recovers ==
  /\ output_flow_a.state # "IDLE" ~> output_flow_a.state = "IDLE"
  /\ input_flow_a.state  # "IDLE" ~> input_flow_a.state  = "IDLE"
  /\ output_flow_b.state # "IDLE" ~> output_flow_b.state = "IDLE"
  /\ input_flow_b.state  # "IDLE" ~> input_flow_b.state  = "IDLE"
=============================================================================
