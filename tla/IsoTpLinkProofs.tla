-------------------------- MODULE IsoTpLinkProofs --------------------------
(***************************************************************************)
(* Two connections understand each other, for all messages, block sizes    *)
(* and states of both: the frames are read as they were written (Codec),    *)
(* on a bus that loses nothing every message arrives at most once, whole    *)
(* and in order, and no end ever waits for nothing (IsoTpLink); and on one  *)
(* that loses frames what does arrive is still so, until a receiver says    *)
(* stop.                                                                   *)
(*                                                                         *)
(* What a step of one end does to the two directions it takes part in is    *)
(* proved in IsoTpProofs; here the two ends and the bus are put together.   *)
(***************************************************************************)
EXTENDS IsoTpLink, Codec, TLAPS

(* The lemmas about one connection, for each of the two.                    *)
PA == INSTANCE IsoTpProofs
        WITH Outgoing <- OutgoingA, PeerFrames <- {}, FailingFlows <- {},
          Holding <- FALSE, Detachable <- FALSE,
          output_flow <- output_flow_a,
          input_flow <- input_flow_a,
          timeouts <- timeouts_a,
          tx <- tx_a,
          held <- held_a,
          attached <- attached_a,
          outcome <- outcome_a,
          unacked <- unacked_a

PB == INSTANCE IsoTpProofs
        WITH Outgoing <- OutgoingB, PeerFrames <- {}, FailingFlows <- {},
          Holding <- FALSE, Detachable <- FALSE,
          output_flow <- output_flow_b,
          input_flow <- input_flow_b,
          timeouts <- timeouts_b,
          tx <- tx_b,
          held <- held_b,
          attached <- attached_b,
          outcome <- outcome_b,
          unacked <- unacked_b
-----------------------------------------------------------------------------
(* What IsoTpLink sees of an end is what the lemmas are about.              *)
LEMMA NodeA ==
  /\ A!Init <=> PA!Init
  /\ \A m : A!isotp_send(m) <=> PA!isotp_send(m)
  /\ A!isotp_out_flow_output <=> PA!isotp_out_flow_output
  /\ A!isotp_in_flow_output <=> PA!isotp_in_flow_output
  /\ A!isotp_sent <=> PA!isotp_sent
  /\ A!isotp_output_error_handler <=> PA!isotp_output_error_handler
  /\ A!isotp_input_error_handler <=> PA!isotp_input_error_handler
  /\ \A f : A!isotp_input(f) <=> PA!isotp_input(f)
  /\ \A f : A!Received(f) = PA!Received(f)
  /\ A!Emitted = PA!Emitted
  /\ A!Unconfirmed = PA!Unconfirmed
  /\ A!OnlyErrorTimeouts <=> PA!OnlyErrorTimeouts
<1>1. A!Init <=> PA!Init
  BY DEF A!Init, PA!Init, A!Flow, PA!Flow, A!Handler, PA!Handler
<1>2. \A m : A!isotp_send(m) <=> PA!isotp_send(m)
  BY DEF A!isotp_send, PA!isotp_send, A!SfData, PA!SfData, A!Armed,
         PA!Armed, A!Pending, PA!Pending
<1>3. A!isotp_out_flow_output <=> PA!isotp_out_flow_output
  BY DEF A!isotp_out_flow_output, PA!isotp_out_flow_output, A!Disarmed,
         PA!Disarmed, A!Transmitting, PA!Transmitting, A!output_accepted,
         PA!output_accepted, A!output_refused, PA!output_refused,
         A!OutputFrame, PA!OutputFrame, A!OutputTaken, PA!OutputTaken,
         A!Message, PA!Message, A!FF_DL_MAX, PA!FF_DL_MAX, A!FfData,
         PA!FfData, A!CfData, PA!CfData, A!Least, PA!Least, A!HeadRemoved,
         PA!HeadRemoved, A!Report, PA!Report
<1>4. A!isotp_in_flow_output <=> PA!isotp_in_flow_output
  BY DEF A!isotp_in_flow_output, PA!isotp_in_flow_output, A!Disarmed,
         PA!Disarmed, A!flow_control_accepted, PA!flow_control_accepted,
         A!flow_control_refused, PA!flow_control_refused, A!FlowControl,
         PA!FlowControl, A!ReceptionLost, PA!ReceptionLost, A!HeadRemoved,
         PA!HeadRemoved
<1>5. A!isotp_sent <=> PA!isotp_sent
  BY DEF A!isotp_sent, PA!isotp_sent, A!sent_sf, PA!sent_sf, A!sent_ff,
         PA!sent_ff, A!sent_cf, PA!sent_cf, A!sent_last_cf,
         PA!sent_last_cf, A!sent_fc, PA!sent_fc,
         A!isotp_sent_error_output, PA!isotp_sent_error_output,
         A!isotp_sent_error_input, PA!isotp_sent_error_input, A!Acked,
         PA!Acked, A!Confirm, PA!Confirm, A!Carried, PA!Carried,
         A!MessageSent, PA!MessageSent, A!AwaitFlowControl,
         PA!AwaitFlowControl, A!MessageLost, PA!MessageLost,
         A!ReceptionLost, PA!ReceptionLost, A!HeadRemoved, PA!HeadRemoved,
         A!Report, PA!Report, A!Armed, PA!Armed, A!Pending, PA!Pending,
         A!BlockGoesOn, PA!BlockGoesOn, A!Int8, PA!Int8, A!NextSn,
         PA!NextSn, A!CF_SN_MASK, PA!CF_SN_MASK, A!Least, PA!Least,
         A!CfData, PA!CfData, A!FfData, PA!FfData
<1>6. /\ A!isotp_output_error_handler <=> PA!isotp_output_error_handler
      /\ A!isotp_input_error_handler <=> PA!isotp_input_error_handler
  BY DEF A!isotp_output_error_handler, PA!isotp_output_error_handler,
         A!isotp_input_error_handler, PA!isotp_input_error_handler,
         A!Disarmed, PA!Disarmed, A!MessageLost, PA!MessageLost,
         A!ReceptionLost, PA!ReceptionLost, A!HeadRemoved, PA!HeadRemoved,
         A!Report, PA!Report
<1>7. \A f : A!isotp_input(f) <=> PA!isotp_input(f)
  BY DEF A!isotp_input, PA!isotp_input, A!received_sf, PA!received_sf,
         A!received_ff, PA!received_ff, A!received_cf, PA!received_cf,
         A!received_last_cf, PA!received_last_cf, A!received_wrong_cf,
         PA!received_wrong_cf, A!received_fc, PA!received_fc,
         A!isotp_input_dropped, PA!isotp_input_dropped, A!FreeBuffers,
         PA!FreeBuffers, A!Ids, PA!Ids, A!NewBuffer, PA!NewBuffer,
         A!Deliver, PA!Deliver, A!Stored, PA!Stored, A!StoredLength,
         PA!StoredLength, A!CfMatches, PA!CfMatches, A!Quiet, PA!Quiet,
         A!Disarmed, PA!Disarmed, A!Armed, PA!Armed, A!Pending,
         PA!Pending, A!MessageLost, PA!MessageLost, A!HeadRemoved,
         PA!HeadRemoved, A!Report, PA!Report, A!BlockGoesOn,
         PA!BlockGoesOn, A!Int8, PA!Int8, A!NextSn, PA!NextSn,
         A!CF_SN_MASK, PA!CF_SN_MASK, A!Least, PA!Least, A!CfData,
         PA!CfData, A!FfData, PA!FfData, A!vars, PA!vars
<1>8. \A f : A!Received(f) = PA!Received(f)
  BY DEF A!Received, PA!Received, A!Reassembled, PA!Reassembled,
         A!Garbled, PA!Garbled, A!Filled, PA!Filled, A!Stored, PA!Stored,
         A!StoredLength, PA!StoredLength, A!NewBuffer, PA!NewBuffer,
         A!FreeBuffers, PA!FreeBuffers, A!Ids, PA!Ids, A!CfMatches,
         PA!CfMatches, A!Least, PA!Least, A!CfData, PA!CfData
<1>9. A!Emitted = PA!Emitted
  BY DEF A!Emitted, PA!Emitted
<1>10. A!Unconfirmed = PA!Unconfirmed
  BY DEF A!Unconfirmed, PA!Unconfirmed
<1>11. A!OnlyErrorTimeouts <=> PA!OnlyErrorTimeouts
  BY DEF A!OnlyErrorTimeouts, PA!OnlyErrorTimeouts
<1> QED
  BY <1>1, <1>2, <1>3, <1>4, <1>5, <1>6, <1>7, <1>8, <1>9, <1>10, <1>11

LEMMA NodeB ==
  /\ B!Init <=> PB!Init
  /\ \A m : B!isotp_send(m) <=> PB!isotp_send(m)
  /\ B!isotp_out_flow_output <=> PB!isotp_out_flow_output
  /\ B!isotp_in_flow_output <=> PB!isotp_in_flow_output
  /\ B!isotp_sent <=> PB!isotp_sent
  /\ B!isotp_output_error_handler <=> PB!isotp_output_error_handler
  /\ B!isotp_input_error_handler <=> PB!isotp_input_error_handler
  /\ \A f : B!isotp_input(f) <=> PB!isotp_input(f)
  /\ \A f : B!Received(f) = PB!Received(f)
  /\ B!Emitted = PB!Emitted
  /\ B!Unconfirmed = PB!Unconfirmed
  /\ B!OnlyErrorTimeouts <=> PB!OnlyErrorTimeouts
<1>1. B!Init <=> PB!Init
  BY DEF B!Init, PB!Init, B!Flow, PB!Flow, B!Handler, PB!Handler
<1>2. \A m : B!isotp_send(m) <=> PB!isotp_send(m)
  BY DEF B!isotp_send, PB!isotp_send, B!SfData, PB!SfData, B!Armed,
         PB!Armed, B!Pending, PB!Pending
<1>3. B!isotp_out_flow_output <=> PB!isotp_out_flow_output
  BY DEF B!isotp_out_flow_output, PB!isotp_out_flow_output, B!Disarmed,
         PB!Disarmed, B!Transmitting, PB!Transmitting, B!output_accepted,
         PB!output_accepted, B!output_refused, PB!output_refused,
         B!OutputFrame, PB!OutputFrame, B!OutputTaken, PB!OutputTaken,
         B!Message, PB!Message, B!FF_DL_MAX, PB!FF_DL_MAX, B!FfData,
         PB!FfData, B!CfData, PB!CfData, B!Least, PB!Least, B!HeadRemoved,
         PB!HeadRemoved, B!Report, PB!Report
<1>4. B!isotp_in_flow_output <=> PB!isotp_in_flow_output
  BY DEF B!isotp_in_flow_output, PB!isotp_in_flow_output, B!Disarmed,
         PB!Disarmed, B!flow_control_accepted, PB!flow_control_accepted,
         B!flow_control_refused, PB!flow_control_refused, B!FlowControl,
         PB!FlowControl, B!ReceptionLost, PB!ReceptionLost, B!HeadRemoved,
         PB!HeadRemoved
<1>5. B!isotp_sent <=> PB!isotp_sent
  BY DEF B!isotp_sent, PB!isotp_sent, B!sent_sf, PB!sent_sf, B!sent_ff,
         PB!sent_ff, B!sent_cf, PB!sent_cf, B!sent_last_cf,
         PB!sent_last_cf, B!sent_fc, PB!sent_fc,
         B!isotp_sent_error_output, PB!isotp_sent_error_output,
         B!isotp_sent_error_input, PB!isotp_sent_error_input, B!Acked,
         PB!Acked, B!Confirm, PB!Confirm, B!Carried, PB!Carried,
         B!MessageSent, PB!MessageSent, B!AwaitFlowControl,
         PB!AwaitFlowControl, B!MessageLost, PB!MessageLost,
         B!ReceptionLost, PB!ReceptionLost, B!HeadRemoved, PB!HeadRemoved,
         B!Report, PB!Report, B!Armed, PB!Armed, B!Pending, PB!Pending,
         B!BlockGoesOn, PB!BlockGoesOn, B!Int8, PB!Int8, B!NextSn,
         PB!NextSn, B!CF_SN_MASK, PB!CF_SN_MASK, B!Least, PB!Least,
         B!CfData, PB!CfData, B!FfData, PB!FfData
<1>6. /\ B!isotp_output_error_handler <=> PB!isotp_output_error_handler
      /\ B!isotp_input_error_handler <=> PB!isotp_input_error_handler
  BY DEF B!isotp_output_error_handler, PB!isotp_output_error_handler,
         B!isotp_input_error_handler, PB!isotp_input_error_handler,
         B!Disarmed, PB!Disarmed, B!MessageLost, PB!MessageLost,
         B!ReceptionLost, PB!ReceptionLost, B!HeadRemoved, PB!HeadRemoved,
         B!Report, PB!Report
<1>7. \A f : B!isotp_input(f) <=> PB!isotp_input(f)
  BY DEF B!isotp_input, PB!isotp_input, B!received_sf, PB!received_sf,
         B!received_ff, PB!received_ff, B!received_cf, PB!received_cf,
         B!received_last_cf, PB!received_last_cf, B!received_wrong_cf,
         PB!received_wrong_cf, B!received_fc, PB!received_fc,
         B!isotp_input_dropped, PB!isotp_input_dropped, B!FreeBuffers,
         PB!FreeBuffers, B!Ids, PB!Ids, B!NewBuffer, PB!NewBuffer,
         B!Deliver, PB!Deliver, B!Stored, PB!Stored, B!StoredLength,
         PB!StoredLength, B!CfMatches, PB!CfMatches, B!Quiet, PB!Quiet,
         B!Disarmed, PB!Disarmed, B!Armed, PB!Armed, B!Pending,
         PB!Pending, B!MessageLost, PB!MessageLost, B!HeadRemoved,
         PB!HeadRemoved, B!Report, PB!Report, B!BlockGoesOn,
         PB!BlockGoesOn, B!Int8, PB!Int8, B!NextSn, PB!NextSn,
         B!CF_SN_MASK, PB!CF_SN_MASK, B!Least, PB!Least, B!CfData,
         PB!CfData, B!FfData, PB!FfData, B!vars, PB!vars
<1>8. \A f : B!Received(f) = PB!Received(f)
  BY DEF B!Received, PB!Received, B!Reassembled, PB!Reassembled,
         B!Garbled, PB!Garbled, B!Filled, PB!Filled, B!Stored, PB!Stored,
         B!StoredLength, PB!StoredLength, B!NewBuffer, PB!NewBuffer,
         B!FreeBuffers, PB!FreeBuffers, B!Ids, PB!Ids, B!CfMatches,
         PB!CfMatches, B!Least, PB!Least, B!CfData, PB!CfData
<1>9. B!Emitted = PB!Emitted
  BY DEF B!Emitted, PB!Emitted
<1>10. B!Unconfirmed = PB!Unconfirmed
  BY DEF B!Unconfirmed, PB!Unconfirmed
<1>11. B!OnlyErrorTimeouts <=> PB!OnlyErrorTimeouts
  BY DEF B!OnlyErrorTimeouts, PB!OnlyErrorTimeouts
<1> QED
  BY <1>1, <1>2, <1>3, <1>4, <1>5, <1>6, <1>7, <1>8, <1>9, <1>10, <1>11

(* The assumptions of each.                                                *)
LEMMA AssumedA ==
  /\ Messages \subseteq [id : Nat, length : 1..PA!FF_DL_MAX]
  /\ OutgoingA \subseteq Messages
  /\ {} \subseteq PA!Frame
  /\ {} \subseteq PA!Flow
  /\ FALSE \in BOOLEAN
  /\ ISOTP_RECEIVE_BS \in PA!Byte
  /\ ISOTP_N_WFT \in PA!Byte
  /\ LWCAN_TIMEOUTS_NUM \in Nat
  /\ LWCAN_TIMEOUTS_NUM >= 2
  /\ BufferId # {}
  BY LinkAssumption DEF PA!FF_DL_MAX, PA!Byte

LEMMA AssumedB ==
  /\ Messages \subseteq [id : Nat, length : 1..PB!FF_DL_MAX]
  /\ OutgoingB \subseteq Messages
  /\ {} \subseteq PB!Frame
  /\ {} \subseteq PB!Flow
  /\ FALSE \in BOOLEAN
  /\ ISOTP_RECEIVE_BS \in PB!Byte
  /\ ISOTP_N_WFT \in PB!Byte
  /\ LWCAN_TIMEOUTS_NUM \in Nat
  /\ LWCAN_TIMEOUTS_NUM >= 2
  /\ BufferId # {}
  BY LinkAssumption DEF PB!FF_DL_MAX, PB!Byte

(* Frames and directions are the same seen from either end.                *)
LEMMA SameFrames ==
  /\ PB!Frame = PA!Frame
  /\ \A acc, out, txo, dbus, rbus, in, txi, del :
       PB!Direction(acc, out, txo, dbus, rbus, in, txi, del)
         <=> PA!Direction(acc, out, txo, dbus, rbus, in, txi, del)
<1>1. PB!Frame = PA!Frame
  BY DEF PA!Frame, PB!Frame, PA!Segment, PB!Segment, PA!SfData, PB!SfData,
         PA!FF_DL_MAX, PB!FF_DL_MAX, PA!SerialNumber, PB!SerialNumber,
         PA!CF_SN_MASK, PB!CF_SN_MASK, PA!FlowStatus, PB!FlowStatus,
         PA!Byte, PB!Byte
<1>2. ASSUME NEW acc, NEW out, NEW txo, NEW dbus, NEW rbus, NEW in, NEW txi, NEW del
      PROVE  PB!Direction(acc, out, txo, dbus, rbus, in, txi, del)
               <=> PA!Direction(acc, out, txo, dbus, rbus, in, txi, del)
  BY DEF PA!SfData, PB!SfData, PA!FfData, PB!FfData, PA!CfData, PB!CfData,
         PA!CF_SN_MASK, PB!CF_SN_MASK, PA!IsData, PB!IsData, PA!HasData,
         PB!HasData, PA!HasFc, PB!HasFc, PA!Go, PB!Go, PA!Start, PB!Start,
         PA!FrameAt, PB!FrameAt, PA!After, PB!After, PA!Follows,
         PB!Follows, PA!Chain, PB!Chain, PA!EndsBlock, PB!EndsBlock,
         PA!AwaitsFc, PB!AwaitsFc, PA!OwesFc, PB!OwesFc, PA!LastAsks,
         PB!LastAsks, PA!OneGo, PB!OneGo, PA!Turn, PB!Turn,
         PA!SendPosition, PB!SendPosition, PA!SenderOK, PB!SenderOK,
         PA!ReceivePosition, PB!ReceivePosition, PA!Holds, PB!Holds,
         PA!ReceiverOK, PB!ReceiverOK, PA!Direction, PB!Direction,
         PA!Carried, PB!Carried, PA!Least, PB!Least, PA!NextSn, PB!NextSn,
         PA!BlockGoesOn, PB!BlockGoesOn, PA!Int8, PB!Int8, PA!Filled,
         PB!Filled
<1> QED
  BY <1>1, <1>2

-----------------------------------------------------------------------------
(* The invariant of the link without losses: each end alone, and the two    *)
(* directions.                                                             *)
AToBLinked ==
  PA!Direction(accepted_a, output_flow_a, tx_a["output"],
               bus_a, bus_b, input_flow_b, tx_b["input"], delivered_b)

BToALinked ==
  PA!Direction(accepted_b, output_flow_b, tx_b["output"],
               bus_b, bus_a, input_flow_a, tx_a["input"], delivered_a)

Linked ==
  /\ PA!Inv /\ attached_a
  /\ PB!Inv /\ attached_b
  /\ bus_a \in Seq(PA!Frame) /\ bus_b \in Seq(PA!Frame)
  /\ AToBLinked /\ BToALinked

LinkInv == ~Lossy => Linked

(* The invariant as an end sees it, which takes the other for a value.      *)
LEMMA SeenFromA ==
  ASSUME Linked
  PROVE  /\ PA!Inv /\ attached_a
         /\ bus_a \in Seq(PA!Frame) /\ bus_b \in Seq(PA!Frame)
         /\ PA!Direction(accepted_a, output_flow_a, tx_a["output"],
                         bus_a, bus_b, input_flow_b, tx_b["input"], delivered_b)
         /\ PA!Direction(accepted_b, output_flow_b, tx_b["output"],
                         bus_b, bus_a, input_flow_a, tx_a["input"], delivered_a)
  BY SameFrames DEF Linked, AToBLinked, BToALinked

LEMMA SeenFromB ==
  ASSUME Linked
  PROVE  /\ PB!Inv /\ attached_b
         /\ bus_b \in Seq(PB!Frame) /\ bus_a \in Seq(PB!Frame)
         /\ PB!Direction(accepted_b, output_flow_b, tx_b["output"],
                         bus_b, bus_a, input_flow_a, tx_a["input"], delivered_a)
         /\ PB!Direction(accepted_a, output_flow_a, tx_a["output"],
                         bus_a, bus_b, input_flow_b, tx_b["input"], delivered_b)
  BY SameFrames DEF Linked, AToBLinked, BToALinked

(* A step of A that keeps both directions keeps the invariant.             *)
LEMMA MovedA ==
  ASSUME Linked, PA!Inv', attached_a', UNCHANGED varsB,
         bus_a' \in Seq(PA!Frame), bus_b' \in Seq(PA!Frame),
         PA!Direction(accepted_a', output_flow_a', tx_a'["output"],
                      bus_a', bus_b', input_flow_b, tx_b["input"], delivered_b'),
         PA!Direction(accepted_b', output_flow_b, tx_b["output"],
                      bus_b', bus_a', input_flow_a', tx_a'["input"], delivered_a')
  PROVE  Linked'
<1>1. PB!Inv' /\ attached_b'
  <2>1. UNCHANGED PB!vars /\ UNCHANGED attached_b
    BY DEF varsB, PB!vars
  <2> QED
    BY <2>1, PB!NextInv, AssumedB DEF Linked, PB!ReferencesKept
<1>2. /\ input_flow_b' = input_flow_b /\ output_flow_b' = output_flow_b /\ tx_b' = tx_b
  BY DEF varsB
<1> QED
  BY <1>1, <1>2, SameFrames DEF Linked, AToBLinked, BToALinked

(* A step of B that keeps both directions keeps the invariant.             *)
LEMMA MovedB ==
  ASSUME Linked, PB!Inv', attached_b', UNCHANGED varsA,
         bus_b' \in Seq(PB!Frame), bus_a' \in Seq(PB!Frame),
         PB!Direction(accepted_b', output_flow_b', tx_b'["output"],
                      bus_b', bus_a', input_flow_a, tx_a["input"], delivered_a'),
         PB!Direction(accepted_a', output_flow_a, tx_a["output"],
                      bus_a', bus_b', input_flow_b', tx_b'["input"], delivered_b')
  PROVE  Linked'
<1>1. PA!Inv' /\ attached_a'
  <2>1. UNCHANGED PA!vars /\ UNCHANGED attached_a
    BY DEF varsA, PA!vars
  <2> QED
    BY <2>1, PA!NextInv, AssumedA DEF Linked, PA!ReferencesKept
<1>2. /\ input_flow_a' = input_flow_a /\ output_flow_a' = output_flow_a /\ tx_a' = tx_a
  BY DEF varsA
<1> QED
  BY <1>1, <1>2, SameFrames DEF Linked, AToBLinked, BToALinked

(* Without frames, confirmations and timeouts under way nothing waits.     *)
LEMMA AtRest ==
  ASSUME Linked, Silence
  PROVE  /\ output_flow_a.state = "IDLE" /\ input_flow_a.state = "IDLE"
         /\ output_flow_b.state = "IDLE" /\ input_flow_b.state = "IDLE"
<1>1. /\ PA!Unconfirmed = {} /\ PB!Unconfirmed = {}
      /\ PA!OnlyErrorTimeouts /\ PB!OnlyErrorTimeouts
      /\ bus_a = <<>> /\ bus_b = <<>>
  BY NodeA, NodeB DEF Silence
<1>2. ~PA!OwesFc(input_flow_a, tx_a["input"]) /\ ~PB!OwesFc(input_flow_b, tx_b["input"])
  BY <1>1, SeenFromA, SeenFromB, PA!NothingOwed, PB!NothingOwed, AssumedA, AssumedB
<1>3. ~PA!OwesFc(input_flow_b, tx_b["input"]) /\ ~PB!OwesFc(input_flow_a, tx_a["input"])
  BY <1>2 DEF PA!OwesFc, PB!OwesFc
<1>4. output_flow_a.state = "IDLE"
  BY <1>1, <1>3, SeenFromA, PA!SenderAtRest, AssumedA
<1>5. output_flow_b.state = "IDLE"
  BY <1>1, <1>3, SeenFromB, PB!SenderAtRest, AssumedB
<1>6. input_flow_a.state = "IDLE"
  BY <1>1, <1>5, SeenFromA, PA!ReceiverAtRest, AssumedA
<1>7. input_flow_b.state = "IDLE"
  BY <1>1, <1>4, SeenFromB, PB!ReceiverAtRest, AssumedB
<1> QED
  BY <1>4, <1>5, <1>6, <1>7

(* isotp_send: the message joins those accepted, its first frame is due.    *)
LEMMA SendAStep ==
  ASSUME Linked, NEW m \in OutgoingA, SendA(m)
  PROVE  Linked'
<1>1. PA!isotp_send(m)
  BY NodeA DEF SendA
<1>2. PA!Inv'
  BY <1>1, PA!NextInv, AssumedA DEF Linked, PA!ReferencesKept, PA!Next, PA!Application
<1>3. /\ PA!Direction(Append(accepted_a, m), output_flow_a', tx_a'["output"],
                      bus_a, bus_b, input_flow_b, tx_b["input"], delivered_b)
      /\ UNCHANGED <<input_flow_a, tx_a, attached_a>>
  BY <1>1, SeenFromA, PA!LinkSend, AssumedA
<1>4. PA!Direction(accepted_b, output_flow_b, tx_b["output"],
                   bus_b, bus_a, input_flow_a', tx_a'["input"], delivered_a)
  BY <1>3, SeenFromA
<1> QED
  BY <1>2, <1>3, <1>4, SeenFromA, MovedA DEF SendA

(* A frame goes from a flow of A into its driver and onto the bus.          *)
LEMMA TransmitAStep ==
  ASSUME Linked, TransmitA
  PROVE  Linked'
<1>1. PA!isotp_out_flow_output \/ PA!isotp_in_flow_output
  BY NodeA DEF TransmitA
<1>2. PA!Inv'
  BY <1>1, PA!NextInv, AssumedA
     DEF Linked, PA!ReferencesKept, PA!Next, PA!lwcan_timeouts_handler
<1>3. /\ bus_a \o PA!Emitted \in Seq(PA!Frame)
      /\ PA!Direction(accepted_a, output_flow_a', tx_a'["output"],
                      bus_a \o PA!Emitted, bus_b, input_flow_b, tx_b["input"], delivered_b)
      /\ PA!Direction(accepted_b, output_flow_b, tx_b["output"],
                      bus_b, bus_a \o PA!Emitted, input_flow_a', tx_a'["input"], delivered_a)
      /\ UNCHANGED attached_a
  <2>1. CASE PA!isotp_out_flow_output
    BY <2>1, SeenFromA, PA!LinkOutput, AssumedA
  <2>2. CASE PA!isotp_in_flow_output
    BY <2>2, SeenFromA, PA!LinkFlowControl, AssumedA
  <2> QED
    BY <1>1, <2>1, <2>2
<1>4. bus_a' = bus_a \o PA!Emitted
  BY NodeA DEF TransmitA
<1> QED
  BY <1>2, <1>3, <1>4, SeenFromA, MovedA DEF TransmitA

(* A's driver reports a frame.                                             *)
LEMMA ConfirmAStep ==
  ASSUME Linked, ConfirmA
  PROVE  Linked'
<1>1. PA!isotp_sent
  BY NodeA DEF ConfirmA
<1>2. PA!Inv'
  BY <1>1, PA!NextInv, AssumedA DEF Linked, PA!ReferencesKept, PA!Next
<1>3. /\ PA!Direction(accepted_a, output_flow_a', tx_a'["output"],
                      bus_a, bus_b, input_flow_b, tx_b["input"], delivered_b)
      /\ PA!Direction(accepted_b, output_flow_b, tx_b["output"],
                      bus_b, bus_a, input_flow_a', tx_a'["input"], delivered_a)
      /\ UNCHANGED attached_a
  BY <1>1, SeenFromA, PA!LinkConfirm, AssumedA
<1> QED
  BY <1>2, <1>3, SeenFromA, MovedA DEF ConfirmA

(* N_Bs and N_Cr of A never expire.                                        *)
LEMMA ExpireANever ==
  ASSUME Linked
  PROVE  ~ExpireA
<1> SUFFICES ASSUME ExpireA PROVE FALSE
  OBVIOUS
<1>1. PA!isotp_output_error_handler \/ PA!isotp_input_error_handler
  BY NodeA DEF ExpireA
<1>2. output_flow_a.state = "IDLE" /\ input_flow_a.state = "IDLE"
  BY AtRest DEF ExpireA
<1> QED
  BY <1>1, <1>2, PA!NothingExpires, AssumedA DEF Linked

(* A takes a frame off the bus.                                            *)
LEMMA ReceiveAFacts ==
  ASSUME Linked, ReceiveA
  PROVE  /\ PA!isotp_input(Head(bus_b))
         /\ PA!Unconfirmed \subseteq PA!OnTheBus(bus_a)
         /\ bus_b # <<>> /\ Head(bus_b) \in PA!Frame /\ Tail(bus_b) \in Seq(PA!Frame)
         /\ delivered_a' = delivered_a \o PA!Received(Head(bus_b))
<1>1. PA!isotp_input(Head(bus_b))
  BY NodeA DEF ReceiveA
<1>2. delivered_a' = delivered_a \o PA!Received(Head(bus_b))
  BY NodeA DEF ReceiveA
<1>3. PA!Unconfirmed \subseteq PA!OnTheBus(bus_a)
  BY NodeA DEF ReceiveA, OnBus, PA!OnTheBus
<1>4. bus_b # <<>> /\ bus_b \in Seq(PA!Frame)
  BY SeenFromA DEF ReceiveA
<1>5. Head(bus_b) \in PA!Frame /\ Tail(bus_b) \in Seq(PA!Frame)
  BY <1>4
<1> QED
  BY <1>1, <1>2, <1>3, <1>4, <1>5

LEMMA ReceiveAStep ==
  ASSUME Linked, ReceiveA
  PROVE  Linked'
<1>1. PA!Inv'
  BY ReceiveAFacts, PA!InputInv, AssumedA DEF Linked, PA!ReferencesKept
<1>2. /\ PA!Direction(accepted_a, output_flow_a', tx_a'["output"],
                      bus_a, Tail(bus_b), input_flow_b, tx_b["input"], delivered_b)
      /\ PA!Direction(accepted_b, output_flow_b, tx_b["output"],
                      Tail(bus_b), bus_a, input_flow_a', tx_a'["input"],
                      delivered_a \o PA!Received(Head(bus_b)))
      /\ UNCHANGED attached_a
  <2>1. CASE PA!IsData(Head(bus_b))
    BY <2>1, SeenFromA, ReceiveAFacts, PA!LinkData, AssumedA
  <2>2. CASE ~PA!IsData(Head(bus_b))
    BY <2>2, SeenFromA, ReceiveAFacts, PA!LinkGo, AssumedA
  <2> QED
    BY <2>1, <2>2
<1> QED
  BY <1>1, <1>2, ReceiveAFacts, SeenFromA, MovedA DEF ReceiveA

(* isotp_send: the message joins those accepted, its first frame is due.    *)
LEMMA SendBStep ==
  ASSUME Linked, NEW m \in OutgoingB, SendB(m)
  PROVE  Linked'
<1>1. PB!isotp_send(m)
  BY NodeB DEF SendB
<1>2. PB!Inv'
  BY <1>1, PB!NextInv, AssumedB DEF Linked, PB!ReferencesKept, PB!Next, PB!Application
<1>3. /\ PB!Direction(Append(accepted_b, m), output_flow_b', tx_b'["output"],
                      bus_b, bus_a, input_flow_a, tx_a["input"], delivered_a)
      /\ UNCHANGED <<input_flow_b, tx_b, attached_b>>
  BY <1>1, SeenFromB, PB!LinkSend, AssumedB
<1>4. PB!Direction(accepted_a, output_flow_a, tx_a["output"],
                   bus_a, bus_b, input_flow_b', tx_b'["input"], delivered_b)
  BY <1>3, SeenFromB
<1> QED
  BY <1>2, <1>3, <1>4, SeenFromB, MovedB DEF SendB

(* A frame goes from a flow of B into its driver and onto the bus.          *)
LEMMA TransmitBStep ==
  ASSUME Linked, TransmitB
  PROVE  Linked'
<1>1. PB!isotp_out_flow_output \/ PB!isotp_in_flow_output
  BY NodeB DEF TransmitB
<1>2. PB!Inv'
  BY <1>1, PB!NextInv, AssumedB
     DEF Linked, PB!ReferencesKept, PB!Next, PB!lwcan_timeouts_handler
<1>3. /\ bus_b \o PB!Emitted \in Seq(PB!Frame)
      /\ PB!Direction(accepted_b, output_flow_b', tx_b'["output"],
                      bus_b \o PB!Emitted, bus_a, input_flow_a, tx_a["input"], delivered_a)
      /\ PB!Direction(accepted_a, output_flow_a, tx_a["output"],
                      bus_a, bus_b \o PB!Emitted, input_flow_b', tx_b'["input"], delivered_b)
      /\ UNCHANGED attached_b
  <2>1. CASE PB!isotp_out_flow_output
    BY <2>1, SeenFromB, PB!LinkOutput, AssumedB
  <2>2. CASE PB!isotp_in_flow_output
    BY <2>2, SeenFromB, PB!LinkFlowControl, AssumedB
  <2> QED
    BY <1>1, <2>1, <2>2
<1>4. bus_b' = bus_b \o PB!Emitted
  BY NodeB DEF TransmitB
<1> QED
  BY <1>2, <1>3, <1>4, SeenFromB, MovedB DEF TransmitB

(* B's driver reports a frame.                                             *)
LEMMA ConfirmBStep ==
  ASSUME Linked, ConfirmB
  PROVE  Linked'
<1>1. PB!isotp_sent
  BY NodeB DEF ConfirmB
<1>2. PB!Inv'
  BY <1>1, PB!NextInv, AssumedB DEF Linked, PB!ReferencesKept, PB!Next
<1>3. /\ PB!Direction(accepted_b, output_flow_b', tx_b'["output"],
                      bus_b, bus_a, input_flow_a, tx_a["input"], delivered_a)
      /\ PB!Direction(accepted_a, output_flow_a, tx_a["output"],
                      bus_a, bus_b, input_flow_b', tx_b'["input"], delivered_b)
      /\ UNCHANGED attached_b
  BY <1>1, SeenFromB, PB!LinkConfirm, AssumedB
<1> QED
  BY <1>2, <1>3, SeenFromB, MovedB DEF ConfirmB

(* N_Bs and N_Cr of B never expire.                                        *)
LEMMA ExpireBNever ==
  ASSUME Linked
  PROVE  ~ExpireB
<1> SUFFICES ASSUME ExpireB PROVE FALSE
  OBVIOUS
<1>1. PB!isotp_output_error_handler \/ PB!isotp_input_error_handler
  BY NodeB DEF ExpireB
<1>2. output_flow_b.state = "IDLE" /\ input_flow_b.state = "IDLE"
  BY AtRest DEF ExpireB
<1> QED
  BY <1>1, <1>2, PB!NothingExpires, AssumedB DEF Linked

(* B takes a frame off the bus.                                            *)
LEMMA ReceiveBFacts ==
  ASSUME Linked, ReceiveB
  PROVE  /\ PB!isotp_input(Head(bus_a))
         /\ PB!Unconfirmed \subseteq PB!OnTheBus(bus_b)
         /\ bus_a # <<>> /\ Head(bus_a) \in PB!Frame /\ Tail(bus_a) \in Seq(PB!Frame)
         /\ delivered_b' = delivered_b \o PB!Received(Head(bus_a))
<1>1. PB!isotp_input(Head(bus_a))
  BY NodeB DEF ReceiveB
<1>2. delivered_b' = delivered_b \o PB!Received(Head(bus_a))
  BY NodeB DEF ReceiveB
<1>3. PB!Unconfirmed \subseteq PB!OnTheBus(bus_b)
  BY NodeB DEF ReceiveB, OnBus, PB!OnTheBus
<1>4. bus_a # <<>> /\ bus_a \in Seq(PB!Frame)
  BY SeenFromB DEF ReceiveB
<1>5. Head(bus_a) \in PB!Frame /\ Tail(bus_a) \in Seq(PB!Frame)
  BY <1>4
<1> QED
  BY <1>1, <1>2, <1>3, <1>4, <1>5

LEMMA ReceiveBStep ==
  ASSUME Linked, ReceiveB
  PROVE  Linked'
<1>1. PB!Inv'
  BY ReceiveBFacts, PB!InputInv, AssumedB DEF Linked, PB!ReferencesKept
<1>2. /\ PB!Direction(accepted_b, output_flow_b', tx_b'["output"],
                      bus_b, Tail(bus_a), input_flow_a, tx_a["input"], delivered_a)
      /\ PB!Direction(accepted_a, output_flow_a, tx_a["output"],
                      Tail(bus_a), bus_b, input_flow_b', tx_b'["input"],
                      delivered_b \o PB!Received(Head(bus_a)))
      /\ UNCHANGED attached_b
  <2>1. CASE PB!IsData(Head(bus_a))
    BY <2>1, SeenFromB, ReceiveBFacts, PB!LinkData, AssumedB
  <2>2. CASE ~PB!IsData(Head(bus_a))
    BY <2>2, SeenFromB, ReceiveBFacts, PB!LinkGo, AssumedB
  <2> QED
    BY <2>1, <2>2
<1> QED
  BY <1>1, <1>2, ReceiveBFacts, SeenFromB, MovedB DEF ReceiveB

-----------------------------------------------------------------------------
(* The invariant holds at first and in every step, as no frame is lost.     *)
LEMMA LinkedInit == Init => Linked
<1> SUFFICES ASSUME Init PROVE Linked
  OBVIOUS
<1>1. PA!Init /\ PB!Init
  BY NodeA, NodeB DEF Init
<1>2. PA!Inv /\ PB!Inv
  BY <1>1, PA!InitInv, PB!InitInv, AssumedA, AssumedB
<1>3. attached_a /\ attached_b
  BY <1>1 DEF PA!Init, PB!Init
<1>4. /\ output_flow_b.state = "IDLE" /\ input_flow_b.state = "IDLE"
      /\ tx_b["output"] = <<>> /\ tx_b["input"] = <<>>
  BY <1>1 DEF PB!Init, PB!Flow
<1>5. /\ PA!Direction(<<>>, output_flow_a, tx_a["output"], <<>>, <<>>,
                      input_flow_b, tx_b["input"], <<>>)
      /\ PA!Direction(<<>>, output_flow_b, tx_b["output"], <<>>, <<>>,
                      input_flow_a, tx_a["input"], <<>>)
  BY <1>1, <1>4, PA!LinkInit, AssumedA
<1>6. <<>> \in Seq(PA!Frame)
  OBVIOUS
<1> QED
  BY <1>2, <1>3, <1>5, <1>6 DEF Linked, AToBLinked, BToALinked, Init

LEMMA LinkedStutters ==
  ASSUME Linked, UNCHANGED vars
  PROVE  Linked'
<1>1. UNCHANGED PA!vars /\ UNCHANGED PB!vars
  BY DEF vars, varsA, varsB, PA!vars, PB!vars
<1>2. PA!Inv' /\ PB!Inv'
  BY <1>1, PA!NextInv, PB!NextInv, AssumedA, AssumedB
     DEF Linked, PA!ReferencesKept, PB!ReferencesKept
<1>3. AToBLinked' /\ BToALinked'
  BY DEF Linked, AToBLinked, BToALinked, vars, varsA, varsB
<1> QED
  BY <1>2, <1>3 DEF Linked, vars, varsA, varsB

LEMMA LinkedNext ==
  ASSUME ~Lossy, Linked, [Next]_vars
  PROVE  Linked'
<1>1. CASE \E m \in OutgoingA : SendA(m)
  BY <1>1, SendAStep
<1>2. CASE \E m \in OutgoingB : SendB(m)
  BY <1>2, SendBStep
<1>3. CASE TransmitA
  BY <1>3, TransmitAStep
<1>4. CASE TransmitB
  BY <1>4, TransmitBStep
<1>5. CASE ConfirmA
  BY <1>5, ConfirmAStep
<1>6. CASE ConfirmB
  BY <1>6, ConfirmBStep
<1>7. CASE ExpireA \/ ExpireB
  BY <1>7, ExpireANever, ExpireBNever
<1>8. CASE ReceiveA
  BY <1>8, ReceiveAStep
<1>9. CASE ReceiveB
  BY <1>9, ReceiveBStep
<1>10. CASE Lose
  BY <1>10 DEF Lose
<1>11. CASE UNCHANGED vars
  BY <1>11, LinkedStutters
<1> QED
  BY <1>1, <1>2, <1>3, <1>4, <1>5, <1>6, <1>7, <1>8, <1>9, <1>10, <1>11 DEF Next

(* Without losses, whatever the two applications send and the drivers and   *)
(* timeouts do, both directions are linked: the frames on the bus are those *)
(* between where the receiver is in the messages accepted and where the     *)
(* sender is, and exactly one end is to act on a flow control frame.        *)
THEOREM LinkInvariance == Spec => []LinkInv
<1>1. Init => LinkInv
  BY LinkedInit DEF LinkInv
<1>2. LinkInv /\ [Next]_vars => LinkInv'
  BY LinkedNext DEF LinkInv
<1> QED
  BY <1>1, <1>2, PTL DEF Spec

(* The two ends never wait for each other, for every block size and every   *)
(* length of message, past every wrap of the serial number: both compute    *)
(* the end of a block by the same rule (isotp_out.c:63, isotp_in.c:294),   *)
(* so N_Bs and N_Cr expire only when a frame was lost.                      *)
THEOREM BothNeverWait == Spec => []NeverBothWait
<1>1. LinkInv => NeverBothWait
  BY AtRest DEF LinkInv, NeverBothWait
<1> QED
  BY <1>1, LinkInvariance, PTL

(* A frame that is received delivers nothing or the next message.           *)
LEMMA DeliversA ==
  ASSUME ~Lossy, Linked, Linked', ReceiveA
  PROVE  [BToA!Next]_(BToA!vars)
<1>1. /\ accepted_b \in Seq(Messages) /\ delivered_a \in Seq(Messages)
      /\ PA!ReceiverOK(accepted_b, input_flow_a, tx_a["input"], delivered_a)
  BY SeenFromA DEF PA!Direction, PA!SenderOK, PA!ReceiverOK
<1>2. PA!ReceiverOK(accepted_b', input_flow_a', tx_a'["input"], delivered_a')
  BY DEF Linked, BToALinked, PA!Direction
<1>3. accepted_b' = accepted_b /\ delivered_a' = delivered_a \o PA!Received(Head(bus_b))
  BY ReceiveAFacts DEF ReceiveA
<1>4. PA!ReceiverOK(accepted_b, input_flow_a', tx_a'["input"],
                    delivered_a \o PA!Received(Head(bus_b)))
  BY <1>2, <1>3
<1>5. \/ delivered_a \o PA!Received(Head(bus_b)) = delivered_a
      \/ /\ Len(delivered_a) + 1 \in DOMAIN accepted_b
         /\ delivered_a \o PA!Received(Head(bus_b)) = Append(delivered_a, accepted_b[Len(delivered_a) + 1])
         /\ \A j \in DOMAIN delivered_a :
              j \in 1..((Len(delivered_a) + 1) - 1) /\ delivered_a[j] = accepted_b[j]
  BY <1>1, <1>4, PA!DeliversNext, AssumedA
<1> DEFINE n == Len(delivered_a) + 1
<1>6. CASE delivered_a' = delivered_a
  BY <1>3, <1>6 DEF BToA!vars
<1>7. CASE BToA!Deliver(n) /\ n \in DOMAIN accepted_b
  BY <1>7 DEF BToA!Next
<1> QED
  <2>1. delivered_a' = delivered_a \/ (BToA!Deliver(n) /\ n \in DOMAIN accepted_b)
    <3>1. ASSUME n \in DOMAIN accepted_b, delivered_a' = Append(delivered_a, accepted_b[n]),
                 \A j \in DOMAIN delivered_a : j \in 1..(n - 1) /\ delivered_a[j] = accepted_b[j]
          PROVE  BToA!Deliver(n)
      BY <1>3, <3>1 DEF BToA!Deliver
    <3> QED
      BY <1>3, <1>5, <3>1
  <2> QED
    BY <1>6, <1>7, <2>1

LEMMA DeliversB ==
  ASSUME ~Lossy, Linked, Linked', ReceiveB
  PROVE  [AToB!Next]_(AToB!vars)
<1>1. /\ accepted_a \in Seq(Messages) /\ delivered_b \in Seq(Messages)
      /\ PB!ReceiverOK(accepted_a, input_flow_b, tx_b["input"], delivered_b)
  BY SeenFromB DEF PB!Direction, PB!SenderOK, PB!ReceiverOK
<1>2. PB!ReceiverOK(accepted_a', input_flow_b', tx_b'["input"], delivered_b')
  BY SameFrames DEF Linked, AToBLinked, PB!Direction
<1>3. accepted_a' = accepted_a /\ delivered_b' = delivered_b \o PB!Received(Head(bus_a))
  BY ReceiveBFacts DEF ReceiveB
<1>4. PB!ReceiverOK(accepted_a, input_flow_b', tx_b'["input"],
                    delivered_b \o PB!Received(Head(bus_a)))
  BY <1>2, <1>3
<1>5. \/ delivered_b \o PB!Received(Head(bus_a)) = delivered_b
      \/ /\ Len(delivered_b) + 1 \in DOMAIN accepted_a
         /\ delivered_b \o PB!Received(Head(bus_a)) = Append(delivered_b, accepted_a[Len(delivered_b) + 1])
         /\ \A j \in DOMAIN delivered_b :
              j \in 1..((Len(delivered_b) + 1) - 1) /\ delivered_b[j] = accepted_a[j]
  BY <1>1, <1>4, PB!DeliversNext, AssumedB
<1> DEFINE n == Len(delivered_b) + 1
<1>6. CASE delivered_b' = delivered_b
  BY <1>3, <1>6 DEF AToB!vars
<1>7. CASE AToB!Deliver(n) /\ n \in DOMAIN accepted_a
  BY <1>7 DEF AToB!Next
<1> QED
  <2>1. delivered_b' = delivered_b \/ (AToB!Deliver(n) /\ n \in DOMAIN accepted_a)
    <3>1. ASSUME n \in DOMAIN accepted_a, delivered_b' = Append(delivered_b, accepted_a[n]),
                 \A j \in DOMAIN delivered_b : j \in 1..(n - 1) /\ delivered_b[j] = accepted_a[j]
          PROVE  AToB!Deliver(n)
      BY <1>3, <3>1 DEF AToB!Deliver
    <3> QED
      BY <1>3, <1>5, <3>1
  <2> QED
    BY <1>6, <1>7, <2>1

(* IsoTpLink implements IsoTpService: without losses the receive callback   *)
(* of either end is given the messages isotp_send took at the other, each   *)
(* once, whole and in order, and nothing else.                             *)
THEOREM LinkImplementsService == ~Lossy => (Spec => BothSafe)
<1> SUFFICES ASSUME ~Lossy PROVE Spec => BothSafe
  OBVIOUS
<1>1. Init => AToB!Init /\ BToA!Init
  BY DEF Init, AToB!Init, BToA!Init
<1>2. ASSUME LinkInv, LinkInv', [Next]_vars
      PROVE  [AToB!Next]_(AToB!vars) /\ [BToA!Next]_(BToA!vars)
  <2>1. Linked /\ Linked'
    BY <1>2 DEF LinkInv
  <2>2. CASE \E m \in OutgoingA : SendA(m)
    <3>1. AToB!Next /\ UNCHANGED BToA!vars
      BY <2>2 DEF SendA, AToB!Next, AToB!Send, BToA!vars
    <3> QED
      BY <3>1
  <2>3. CASE \E m \in OutgoingB : SendB(m)
    <3>1. BToA!Next /\ UNCHANGED AToB!vars
      BY <2>3 DEF SendB, BToA!Next, BToA!Send, AToB!vars
    <3> QED
      BY <3>1
  <2>4. CASE ReceiveA
    <3>1. UNCHANGED AToB!vars
      BY <2>4 DEF ReceiveA, AToB!vars
    <3> QED
      BY <2>1, <2>4, <3>1, DeliversA
  <2>5. CASE ReceiveB
    <3>1. UNCHANGED BToA!vars
      BY <2>5 DEF ReceiveB, BToA!vars
    <3> QED
      BY <2>1, <2>5, <3>1, DeliversB
  <2>6. CASE \/ TransmitA \/ ConfirmA \/ ExpireA
             \/ TransmitB \/ ConfirmB \/ ExpireB \/ Lose \/ UNCHANGED vars
    <3>1. UNCHANGED AToB!vars /\ UNCHANGED BToA!vars
      BY <2>6 DEF TransmitA, ConfirmA, ExpireA, TransmitB, ConfirmB, ExpireB, Lose, vars,
                  AToB!vars, BToA!vars
    <3> QED
      BY <3>1
  <2> QED
    BY <1>2, <2>2, <2>3, <2>4, <2>5, <2>6 DEF Next
<1> QED
  BY <1>1, <1>2, LinkInvariance, PTL DEF Spec, BothSafe, AToB!Spec, BToA!Spec
-----------------------------------------------------------------------------
(* The directions of the lossy link are the same seen from either end.      *)
LEMMA SameLossy ==
  \A acc, out, txo, dbus, rbus, in, txi, del :
    PB!LossyDirection(acc, out, txo, dbus, rbus, in, txi, del)
      <=> PA!LossyDirection(acc, out, txo, dbus, rbus, in, txi, del)
<1>1. /\ \A p, q, acc, f : PB!Follows(acc, f, p, q) <=> PA!Follows(acc, f, p, q)
      /\ \A acc, bus, r, s : PB!Chain(acc, bus, r, s) <=> PA!Chain(acc, bus, r, s)
  BY DEF PA!SfData, PB!SfData, PA!FfData, PB!FfData, PA!CfData, PB!CfData,
         PA!CF_SN_MASK, PB!CF_SN_MASK, PA!IsData, PB!IsData, PA!Start, PB!Start,
         PA!FrameAt, PB!FrameAt, PA!After, PB!After, PA!Follows, PB!Follows,
         PA!Chain, PB!Chain, PA!Carried, PB!Carried, PA!Least, PB!Least,
         PA!NextSn, PB!NextSn
<1>2. \A acc, out, txo, dbus, x :
        PB!Leads(acc, out, txo, dbus, x) <=> PA!Leads(acc, out, txo, dbus, x)
  BY <1>1 DEF PA!Leads, PB!Leads, PA!SenderOK, PB!SenderOK, PA!Place, PB!Place,
         PA!SendPosition, PB!SendPosition, PA!LastAsks, PB!LastAsks, PA!AwaitsFc,
         PB!AwaitsFc, PA!EndsBlock, PB!EndsBlock, PA!BlockGoesOn, PB!BlockGoesOn,
         PA!Int8, PB!Int8, PA!IsData, PB!IsData, PA!Start, PB!Start, PA!FfData,
         PB!FfData, PA!CfData, PB!CfData, PA!NextSn, PB!NextSn, PA!CF_SN_MASK,
         PB!CF_SN_MASK
<1>3. \A acc, in, txi, x : PB!InStep(acc, in, txi, x) <=> PA!InStep(acc, in, txi, x)
  BY DEF PA!InStep, PB!InStep, PA!Prefix, PB!Prefix, PA!ReceiverOK, PB!ReceiverOK,
         PA!ReceivePosition, PB!ReceivePosition, PA!Holds, PB!Holds, PA!Filled,
         PB!Filled, PA!Start, PB!Start, PA!Go, PB!Go, PA!FfData, PB!FfData
<1>4. \A acc, in, x : PB!Behind(acc, in, x) <=> PA!Behind(acc, in, x)
  BY DEF PA!Behind, PB!Behind, PA!BlockGoesOn, PB!BlockGoesOn, PA!Int8, PB!Int8,
         PA!NextSn, PB!NextSn, PA!CF_SN_MASK, PB!CF_SN_MASK, PA!CfData, PB!CfData
<1>5. \A acc, awaits, dbus, rbus, in, txi, x :
        /\ PB!Answers(acc, awaits, dbus, rbus, in, txi, x)
             <=> PA!Answers(acc, awaits, dbus, rbus, in, txi, x)
        /\ PB!Keeps(acc, awaits, dbus, in, txi, x)
             <=> PA!Keeps(acc, awaits, dbus, in, txi, x)
  BY <1>3, <1>4 DEF PA!Answers, PB!Answers, PA!Keeps, PB!Keeps, PA!OneGo, PB!OneGo,
         PA!Asks, PB!Asks, PA!OwesFc, PB!OwesFc, PA!HasFc, PB!HasFc, PA!HasData,
         PB!HasData, PA!IsData, PB!IsData, PA!Go, PB!Go, PA!Stopping, PB!Stopping
<1>6. \A out, txo : PB!AwaitsFc(out, txo) <=> PA!AwaitsFc(out, txo)
  BY DEF PA!AwaitsFc, PB!AwaitsFc, PA!BlockGoesOn, PB!BlockGoesOn, PA!Int8, PB!Int8
<1>7. ASSUME NEW acc, NEW out, NEW txo, NEW dbus, NEW rbus, NEW in, NEW txi, NEW del
      PROVE  PB!LossyDirection(acc, out, txo, dbus, rbus, in, txi, del)
               <=> PA!LossyDirection(acc, out, txo, dbus, rbus, in, txi, del)
  <2>1. PB!AwaitsFc(out, txo) = PA!AwaitsFc(out, txo)
    BY <1>6 DEF PA!AwaitsFc, PB!AwaitsFc
  <2>2. PB!Tells(in, txi) <=> PA!Tells(in, txi)
    BY DEF PA!Tells, PB!Tells, PA!Stopping, PB!Stopping, PA!Go, PB!Go
  <2>3. \A n : PB!Delivered(acc, del, n) <=> PA!Delivered(acc, del, n)
    BY DEF PA!Delivered, PB!Delivered
  <2> QED
    BY <1>2, <1>5, <2>1, <2>2, <2>3 DEF PA!LossyDirection, PB!LossyDirection,
       PA!LossyAt, PB!LossyAt
<1> QED
  BY <1>7

(* The invariant of the link when frames may miss their receivers, until an *)
(* end stops the other.                                                    *)
AToBLossy ==
  PA!LossyDirection(accepted_a, output_flow_a, tx_a["output"],
                    bus_a, bus_b, input_flow_b, tx_b["input"], delivered_b)

BToALossy ==
  PA!LossyDirection(accepted_b, output_flow_b, tx_b["output"],
                    bus_b, bus_a, input_flow_a, tx_a["input"], delivered_a)

LossyLinked ==
  /\ PA!Inv /\ attached_a
  /\ PB!Inv /\ attached_b
  /\ bus_a \in Seq(PA!Frame) /\ bus_b \in Seq(PA!Frame)
  /\ AToBLossy /\ BToALossy

LossyInv == ~stopped => LossyLinked

LEMMA LossySeenFromA ==
  ASSUME LossyLinked
  PROVE  /\ PA!Inv /\ attached_a
         /\ bus_a \in Seq(PA!Frame) /\ bus_b \in Seq(PA!Frame)
         /\ PA!LossyDirection(accepted_a, output_flow_a, tx_a["output"],
                              bus_a, bus_b, input_flow_b, tx_b["input"], delivered_b)
         /\ PA!LossyDirection(accepted_b, output_flow_b, tx_b["output"],
                              bus_b, bus_a, input_flow_a, tx_a["input"], delivered_a)
  BY SameFrames, SameLossy DEF LossyLinked, AToBLossy, BToALossy

LEMMA LossySeenFromB ==
  ASSUME LossyLinked
  PROVE  /\ PB!Inv /\ attached_b
         /\ bus_b \in Seq(PB!Frame) /\ bus_a \in Seq(PB!Frame)
         /\ PB!LossyDirection(accepted_b, output_flow_b, tx_b["output"],
                              bus_b, bus_a, input_flow_a, tx_a["input"], delivered_a)
         /\ PB!LossyDirection(accepted_a, output_flow_a, tx_a["output"],
                              bus_a, bus_b, input_flow_b, tx_b["input"], delivered_b)
  BY SameFrames, SameLossy DEF LossyLinked, BToALossy, AToBLossy

LEMMA LossyMovedA ==
  ASSUME LossyLinked, PA!Inv', attached_a', UNCHANGED varsB,
         bus_a' \in Seq(PA!Frame), bus_b' \in Seq(PA!Frame),
         PA!LossyDirection(accepted_a', output_flow_a', tx_a'["output"],
                           bus_a', bus_b', input_flow_b, tx_b["input"], delivered_b'),
         PA!LossyDirection(accepted_b', output_flow_b, tx_b["output"],
                           bus_b', bus_a', input_flow_a', tx_a'["input"], delivered_a')
  PROVE  LossyLinked'
<1>1. PB!Inv' /\ attached_b'
  <2>1. UNCHANGED PB!vars /\ UNCHANGED attached_b
    BY DEF varsB, PB!vars
  <2> QED
    BY <2>1, PB!NextInv, AssumedB DEF LossyLinked, PB!ReferencesKept
<1>2. /\ input_flow_b' = input_flow_b /\ output_flow_b' = output_flow_b /\ tx_b' = tx_b
  BY DEF varsB
<1> QED
  BY <1>1, <1>2, SameFrames, SameLossy DEF LossyLinked, AToBLossy, BToALossy

LEMMA LossyMovedB ==
  ASSUME LossyLinked, PB!Inv', attached_b', UNCHANGED varsA,
         bus_b' \in Seq(PB!Frame), bus_a' \in Seq(PB!Frame),
         PB!LossyDirection(accepted_b', output_flow_b', tx_b'["output"],
                           bus_b', bus_a', input_flow_a, tx_a["input"], delivered_a'),
         PB!LossyDirection(accepted_a', output_flow_a, tx_a["output"],
                           bus_a', bus_b', input_flow_b', tx_b'["input"], delivered_b')
  PROVE  LossyLinked'
<1>1. PA!Inv' /\ attached_a'
  <2>1. UNCHANGED PA!vars /\ UNCHANGED attached_a
    BY DEF varsA, PA!vars
  <2> QED
    BY <2>1, PA!NextInv, AssumedA DEF LossyLinked, PA!ReferencesKept
<1>2. /\ input_flow_a' = input_flow_a /\ output_flow_a' = output_flow_a /\ tx_a' = tx_a
  BY DEF varsA
<1> QED
  BY <1>1, <1>2, SameFrames, SameLossy DEF LossyLinked, BToALossy, AToBLossy

LEMMA LossySendA ==
  ASSUME LossyLinked, NEW m \in OutgoingA, SendA(m)
  PROVE  LossyLinked'
<1>1. PA!isotp_send(m)
  BY NodeA DEF SendA
<1>2. PA!Inv'
  BY <1>1, PA!NextInv, AssumedA DEF LossyLinked, PA!ReferencesKept, PA!Next, PA!Application
<1>3. /\ PA!LossyDirection(Append(accepted_a, m), output_flow_a', tx_a'["output"],
                           bus_a, bus_b, input_flow_b, tx_b["input"], delivered_b)
      /\ UNCHANGED <<input_flow_a, tx_a, attached_a>>
  BY <1>1, LossySeenFromA, PA!LossySend, AssumedA
<1>4. PA!LossyDirection(accepted_b, output_flow_b, tx_b["output"],
                        bus_b, bus_a, input_flow_a', tx_a'["input"], delivered_a)
  BY <1>3, LossySeenFromA
<1> QED
  BY <1>2, <1>3, <1>4, LossySeenFromA, LossyMovedA DEF SendA

(* A flow control frame of A is one of its receiver's in step, or stops B.   *)
LEMMA LossyTransmitA ==
  ASSUME LossyLinked, TransmitA, ~stopped'
  PROVE  LossyLinked'
<1>1. PA!isotp_out_flow_output \/ PA!isotp_in_flow_output
  BY NodeA DEF TransmitA
<1>2. PA!Inv'
  BY <1>1, PA!NextInv, AssumedA
     DEF LossyLinked, PA!ReferencesKept, PA!Next, PA!lwcan_timeouts_handler
<1>3. bus_a' = bus_a \o PA!Emitted /\ ~Stops(PA!Emitted)
  BY NodeA DEF TransmitA
<1>4. ASSUME PA!isotp_in_flow_output
      PROVE  input_flow_a.fs = "READY"
  <2> SUFFICES ASSUME input_flow_a.fs # "READY" PROVE FALSE
    OBVIOUS
  <2> DEFINE fc == PA!FlowControl
  <2>1. PA!Emitted = <<fc>> /\ fc.type = "FC" /\ fc.fs = "OVERFLOW"
    BY <1>4, LossySeenFromA, PA!StopPut, AssumedA
  <2> HIDE DEF fc
  <2>2. 1 \in DOMAIN <<fc>> /\ <<fc>>[1] = fc
    OBVIOUS
  <2>3. Stops(<<fc>>)
    BY <2>1, <2>2 DEF Stops, OnBus
  <2> QED
    BY <1>3, <2>1, <2>3
<1>5. /\ bus_a \o PA!Emitted \in Seq(PA!Frame)
      /\ PA!LossyDirection(accepted_a, output_flow_a', tx_a'["output"],
                           bus_a \o PA!Emitted, bus_b, input_flow_b, tx_b["input"],
                           delivered_b)
      /\ PA!LossyDirection(accepted_b, output_flow_b, tx_b["output"],
                           bus_b, bus_a \o PA!Emitted, input_flow_a', tx_a'["input"],
                           delivered_a)
      /\ UNCHANGED attached_a
  <2>1. CASE PA!isotp_out_flow_output
    BY <2>1, LossySeenFromA, PA!LossyOutput, AssumedA
  <2>2. CASE PA!isotp_in_flow_output
    BY <1>4, <2>2, LossySeenFromA, PA!LossyFlowControl, AssumedA
  <2> QED
    BY <1>1, <2>1, <2>2
<1> QED
  BY <1>2, <1>3, <1>5, LossySeenFromA, LossyMovedA DEF TransmitA

LEMMA LossyConfirmA ==
  ASSUME LossyLinked, ConfirmA
  PROVE  LossyLinked'
<1>1. PA!isotp_sent
  BY NodeA DEF ConfirmA
<1>2. PA!Inv'
  BY <1>1, PA!NextInv, AssumedA DEF LossyLinked, PA!ReferencesKept, PA!Next
<1>3. /\ PA!LossyDirection(accepted_a, output_flow_a', tx_a'["output"],
                           bus_a, bus_b, input_flow_b, tx_b["input"], delivered_b)
      /\ PA!LossyDirection(accepted_b, output_flow_b, tx_b["output"],
                           bus_b, bus_a, input_flow_a', tx_a'["input"], delivered_a)
      /\ UNCHANGED attached_a
  BY <1>1, LossySeenFromA, PA!LossyConfirm, AssumedA
<1> QED
  BY <1>2, <1>3, LossySeenFromA, LossyMovedA DEF ConfirmA

(* N_Bs or N_Cr of A expires: nothing of what it gives up is under way.      *)
LEMMA LossyExpireA ==
  ASSUME LossyLinked, ExpireA
  PROVE  LossyLinked'
<1>1. PA!isotp_output_error_handler \/ PA!isotp_input_error_handler
  BY NodeA DEF ExpireA
<1>2. PA!Inv'
  BY <1>1, PA!NextInv, AssumedA
     DEF LossyLinked, PA!ReferencesKept, PA!Next, PA!lwcan_timeouts_handler
<1>3. /\ PB!Unconfirmed = {} /\ PB!OnlyErrorTimeouts
      /\ bus_a = <<>> /\ bus_b = <<>>
  BY NodeB DEF ExpireA, Silence
<1>4. /\ output_flow_b.state \in {"IDLE", "WAIT_FC"}
      /\ ~PA!OwesFc(input_flow_b, tx_b["input"])
  <2>1. output_flow_b.state \in {"IDLE", "WAIT_FC"} /\ ~PB!OwesFc(input_flow_b, tx_b["input"])
    BY <1>3, LossySeenFromB, PB!NothingOwed, AssumedB
  <2> QED
    BY <2>1 DEF PA!OwesFc, PB!OwesFc
<1>5. /\ PA!LossyDirection(accepted_a, output_flow_a, tx_a["output"],
                           <<>>, <<>>, input_flow_b, tx_b["input"], delivered_b)
      /\ PA!LossyDirection(accepted_b, output_flow_b, tx_b["output"],
                           <<>>, <<>>, input_flow_a, tx_a["input"], delivered_a)
      /\ PA!Inv
  BY <1>3, LossySeenFromA
<1>6. /\ PA!LossyDirection(accepted_a, output_flow_a', tx_a'["output"],
                           <<>>, <<>>, input_flow_b, tx_b["input"], delivered_b)
      /\ PA!LossyDirection(accepted_b, output_flow_b, tx_b["output"],
                           <<>>, <<>>, input_flow_a', tx_a'["input"], delivered_a)
      /\ UNCHANGED attached_a
  <2>1. CASE PA!isotp_output_error_handler
    BY <1>4, <1>5, <2>1, PA!LossySenderExpires, AssumedA
  <2>2. CASE PA!isotp_input_error_handler
    BY <1>4, <1>5, <2>2, PA!LossyReceiverExpires, AssumedA
  <2> QED
    BY <1>1, <2>1, <2>2
<1> QED
  BY <1>2, <1>3, <1>6, LossySeenFromA, LossyMovedA DEF ExpireA

LEMMA LossyReceiveA ==
  ASSUME LossyLinked, ReceiveA
  PROVE  /\ LossyLinked'
         /\ \/ delivered_a' = delivered_a
            \/ \E i \in DOMAIN accepted_b :
                 /\ \A j \in DOMAIN delivered_a :
                      \E k \in 1..(i - 1) : delivered_a[j] = accepted_b[k]
                 /\ delivered_a' = Append(delivered_a, accepted_b[i])
<1>1. /\ PA!isotp_input(Head(bus_b))
      /\ PA!Unconfirmed \subseteq PA!OnTheBus(bus_a)
      /\ bus_b # <<>>
      /\ delivered_a' = delivered_a \o PA!Received(Head(bus_b))
  BY NodeA DEF ReceiveA, OnBus, PA!OnTheBus
<1>2. Head(bus_b) \in PA!Frame /\ Tail(bus_b) \in Seq(PA!Frame)
  BY <1>1, LossySeenFromA
<1>3. PA!Inv'
  BY <1>1, <1>2, PA!InputInv, AssumedA DEF LossyLinked, PA!ReferencesKept
<1> DEFINE more == delivered_a \o PA!Received(Head(bus_b))
<1>4. /\ PA!LossyDirection(accepted_a, output_flow_a', tx_a'["output"],
                           bus_a, Tail(bus_b), input_flow_b, tx_b["input"], delivered_b)
      /\ PA!LossyDirection(accepted_b, output_flow_b, tx_b["output"],
                           Tail(bus_b), bus_a, input_flow_a', tx_a'["input"], more)
      /\ UNCHANGED attached_a
      /\ PA!Furthers(accepted_b, delivered_a, more)
  <2>1. CASE PA!IsData(Head(bus_b))
    BY <1>1, <1>2, <2>1, LossySeenFromA, PA!LossyData, AssumedA
  <2>2. CASE ~PA!IsData(Head(bus_b))
    BY <1>1, <1>2, <2>2, LossySeenFromA, PA!LossyGo, AssumedA
  <2> QED
    BY <2>1, <2>2
<1>5. LossyLinked'
  BY <1>1, <1>2, <1>3, <1>4, LossySeenFromA, LossyMovedA DEF ReceiveA
<1> QED
  BY <1>1, <1>4, <1>5 DEF PA!Furthers

LEMMA LossySendB ==
  ASSUME LossyLinked, NEW m \in OutgoingB, SendB(m)
  PROVE  LossyLinked'
<1>1. PB!isotp_send(m)
  BY NodeB DEF SendB
<1>2. PB!Inv'
  BY <1>1, PB!NextInv, AssumedB DEF LossyLinked, PB!ReferencesKept, PB!Next, PB!Application
<1>3. /\ PB!LossyDirection(Append(accepted_b, m), output_flow_b', tx_b'["output"],
                           bus_b, bus_a, input_flow_a, tx_a["input"], delivered_a)
      /\ UNCHANGED <<input_flow_b, tx_b, attached_b>>
  BY <1>1, LossySeenFromB, PB!LossySend, AssumedB
<1>4. PB!LossyDirection(accepted_a, output_flow_a, tx_a["output"],
                        bus_a, bus_b, input_flow_b', tx_b'["input"], delivered_b)
  BY <1>3, LossySeenFromB
<1> QED
  BY <1>2, <1>3, <1>4, LossySeenFromB, LossyMovedB DEF SendB

(* A flow control frame of B is one of its receiver's in step, or stops A.   *)
LEMMA LossyTransmitB ==
  ASSUME LossyLinked, TransmitB, ~stopped'
  PROVE  LossyLinked'
<1>1. PB!isotp_out_flow_output \/ PB!isotp_in_flow_output
  BY NodeB DEF TransmitB
<1>2. PB!Inv'
  BY <1>1, PB!NextInv, AssumedB
     DEF LossyLinked, PB!ReferencesKept, PB!Next, PB!lwcan_timeouts_handler
<1>3. bus_b' = bus_b \o PB!Emitted /\ ~Stops(PB!Emitted)
  BY NodeB DEF TransmitB
<1>4. ASSUME PB!isotp_in_flow_output
      PROVE  input_flow_b.fs = "READY"
  <2> SUFFICES ASSUME input_flow_b.fs # "READY" PROVE FALSE
    OBVIOUS
  <2> DEFINE fc == PB!FlowControl
  <2>1. PB!Emitted = <<fc>> /\ fc.type = "FC" /\ fc.fs = "OVERFLOW"
    BY <1>4, LossySeenFromB, PB!StopPut, AssumedB
  <2> HIDE DEF fc
  <2>2. 1 \in DOMAIN <<fc>> /\ <<fc>>[1] = fc
    OBVIOUS
  <2>3. Stops(<<fc>>)
    BY <2>1, <2>2 DEF Stops, OnBus
  <2> QED
    BY <1>3, <2>1, <2>3
<1>5. /\ bus_b \o PB!Emitted \in Seq(PB!Frame)
      /\ PB!LossyDirection(accepted_b, output_flow_b', tx_b'["output"],
                           bus_b \o PB!Emitted, bus_a, input_flow_a, tx_a["input"],
                           delivered_a)
      /\ PB!LossyDirection(accepted_a, output_flow_a, tx_a["output"],
                           bus_a, bus_b \o PB!Emitted, input_flow_b', tx_b'["input"],
                           delivered_b)
      /\ UNCHANGED attached_b
  <2>1. CASE PB!isotp_out_flow_output
    BY <2>1, LossySeenFromB, PB!LossyOutput, AssumedB
  <2>2. CASE PB!isotp_in_flow_output
    BY <1>4, <2>2, LossySeenFromB, PB!LossyFlowControl, AssumedB
  <2> QED
    BY <1>1, <2>1, <2>2
<1> QED
  BY <1>2, <1>3, <1>5, LossySeenFromB, LossyMovedB DEF TransmitB

LEMMA LossyConfirmB ==
  ASSUME LossyLinked, ConfirmB
  PROVE  LossyLinked'
<1>1. PB!isotp_sent
  BY NodeB DEF ConfirmB
<1>2. PB!Inv'
  BY <1>1, PB!NextInv, AssumedB DEF LossyLinked, PB!ReferencesKept, PB!Next
<1>3. /\ PB!LossyDirection(accepted_b, output_flow_b', tx_b'["output"],
                           bus_b, bus_a, input_flow_a, tx_a["input"], delivered_a)
      /\ PB!LossyDirection(accepted_a, output_flow_a, tx_a["output"],
                           bus_a, bus_b, input_flow_b', tx_b'["input"], delivered_b)
      /\ UNCHANGED attached_b
  BY <1>1, LossySeenFromB, PB!LossyConfirm, AssumedB
<1> QED
  BY <1>2, <1>3, LossySeenFromB, LossyMovedB DEF ConfirmB

(* N_Bs or N_Cr of B expires: nothing of what it gives up is under way.      *)
LEMMA LossyExpireB ==
  ASSUME LossyLinked, ExpireB
  PROVE  LossyLinked'
<1>1. PB!isotp_output_error_handler \/ PB!isotp_input_error_handler
  BY NodeB DEF ExpireB
<1>2. PB!Inv'
  BY <1>1, PB!NextInv, AssumedB
     DEF LossyLinked, PB!ReferencesKept, PB!Next, PB!lwcan_timeouts_handler
<1>3. /\ PA!Unconfirmed = {} /\ PA!OnlyErrorTimeouts
      /\ bus_b = <<>> /\ bus_a = <<>>
  BY NodeA DEF ExpireB, Silence
<1>4. /\ output_flow_a.state \in {"IDLE", "WAIT_FC"}
      /\ ~PB!OwesFc(input_flow_a, tx_a["input"])
  <2>1. output_flow_a.state \in {"IDLE", "WAIT_FC"} /\ ~PA!OwesFc(input_flow_a, tx_a["input"])
    BY <1>3, LossySeenFromA, PA!NothingOwed, AssumedA
  <2> QED
    BY <2>1 DEF PB!OwesFc, PA!OwesFc
<1>5. /\ PB!LossyDirection(accepted_b, output_flow_b, tx_b["output"],
                           <<>>, <<>>, input_flow_a, tx_a["input"], delivered_a)
      /\ PB!LossyDirection(accepted_a, output_flow_a, tx_a["output"],
                           <<>>, <<>>, input_flow_b, tx_b["input"], delivered_b)
      /\ PB!Inv
  BY <1>3, LossySeenFromB
<1>6. /\ PB!LossyDirection(accepted_b, output_flow_b', tx_b'["output"],
                           <<>>, <<>>, input_flow_a, tx_a["input"], delivered_a)
      /\ PB!LossyDirection(accepted_a, output_flow_a, tx_a["output"],
                           <<>>, <<>>, input_flow_b', tx_b'["input"], delivered_b)
      /\ UNCHANGED attached_b
  <2>1. CASE PB!isotp_output_error_handler
    BY <1>4, <1>5, <2>1, PB!LossySenderExpires, AssumedB
  <2>2. CASE PB!isotp_input_error_handler
    BY <1>4, <1>5, <2>2, PB!LossyReceiverExpires, AssumedB
  <2> QED
    BY <1>1, <2>1, <2>2
<1> QED
  BY <1>2, <1>3, <1>6, LossySeenFromB, LossyMovedB DEF ExpireB

LEMMA LossyReceiveB ==
  ASSUME LossyLinked, ReceiveB
  PROVE  /\ LossyLinked'
         /\ \/ delivered_b' = delivered_b
            \/ \E i \in DOMAIN accepted_a :
                 /\ \A j \in DOMAIN delivered_b :
                      \E k \in 1..(i - 1) : delivered_b[j] = accepted_a[k]
                 /\ delivered_b' = Append(delivered_b, accepted_a[i])
<1>1. /\ PB!isotp_input(Head(bus_a))
      /\ PB!Unconfirmed \subseteq PB!OnTheBus(bus_b)
      /\ bus_a # <<>>
      /\ delivered_b' = delivered_b \o PB!Received(Head(bus_a))
  BY NodeB DEF ReceiveB, OnBus, PB!OnTheBus
<1>2. Head(bus_a) \in PB!Frame /\ Tail(bus_a) \in Seq(PB!Frame)
  BY <1>1, LossySeenFromB
<1>3. PB!Inv'
  BY <1>1, <1>2, PB!InputInv, AssumedB DEF LossyLinked, PB!ReferencesKept
<1> DEFINE more == delivered_b \o PB!Received(Head(bus_a))
<1>4. /\ PB!LossyDirection(accepted_b, output_flow_b', tx_b'["output"],
                           bus_b, Tail(bus_a), input_flow_a, tx_a["input"], delivered_a)
      /\ PB!LossyDirection(accepted_a, output_flow_a, tx_a["output"],
                           Tail(bus_a), bus_b, input_flow_b', tx_b'["input"], more)
      /\ UNCHANGED attached_b
      /\ PB!Furthers(accepted_a, delivered_b, more)
  <2>1. CASE PB!IsData(Head(bus_a))
    BY <1>1, <1>2, <2>1, LossySeenFromB, PB!LossyData, AssumedB
  <2>2. CASE ~PB!IsData(Head(bus_a))
    BY <1>1, <1>2, <2>2, LossySeenFromB, PB!LossyGo, AssumedB
  <2> QED
    BY <2>1, <2>2
<1>5. LossyLinked'
  BY <1>1, <1>2, <1>3, <1>4, LossySeenFromB, LossyMovedB DEF ReceiveB
<1> QED
  BY <1>1, <1>4, <1>5 DEF PB!Furthers

LEMMA LossyLose ==
  ASSUME LossyLinked, Lose
  PROVE  LossyLinked'
<1>1. input_flow_a.remaining_data \in Int /\ input_flow_b.remaining_data \in Int
  <2>1. input_flow_a.remaining_data \in Nat
    BY PA!ReceiverTypes, AssumedA DEF LossyLinked, PA!Inv, PA!ReceiverInv
  <2>2. input_flow_b.remaining_data \in Nat
    BY PB!ReceiverTypes, AssumedB DEF LossyLinked, PB!Inv, PB!ReceiverInv
  <2> QED
    BY <2>1, <2>2
<1>2. /\ PA!Inv /\ attached_a /\ PB!Inv /\ attached_b
      /\ bus_a \in Seq(PA!Frame) /\ bus_b \in Seq(PA!Frame)
      /\ PA!LossyDirection(accepted_a, output_flow_a, tx_a["output"],
                           bus_a, bus_b, input_flow_b, tx_b["input"], delivered_b)
      /\ PA!LossyDirection(accepted_b, output_flow_b, tx_b["output"],
                           bus_b, bus_a, input_flow_a, tx_a["input"], delivered_a)
  BY DEF LossyLinked, AToBLossy, BToALossy
<1>3. /\ bus_a # <<>> =>
           /\ PA!LossyDirection(accepted_a, output_flow_a, tx_a["output"],
                           Tail(bus_a), bus_b, input_flow_b, tx_b["input"], delivered_b)
           /\ PA!LossyDirection(accepted_b, output_flow_b, tx_b["output"],
                           bus_b, Tail(bus_a), input_flow_a, tx_a["input"], delivered_a)
      /\ bus_b # <<>> =>
           /\ PA!LossyDirection(accepted_a, output_flow_a, tx_a["output"],
                           bus_a, Tail(bus_b), input_flow_b, tx_b["input"], delivered_b)
           /\ PA!LossyDirection(accepted_b, output_flow_b, tx_b["output"],
                           Tail(bus_b), bus_a, input_flow_a, tx_a["input"], delivered_a)
  BY <1>1, <1>2, PA!LossyLost, AssumedA
<1>4. PA!Inv' /\ PB!Inv' /\ attached_a' /\ attached_b'
  <2>1. UNCHANGED PA!vars /\ UNCHANGED PB!vars
    BY DEF Lose, varsA, varsB, PA!vars, PB!vars
  <2>2. PA!Inv' /\ PB!Inv'
    BY <1>2, <2>1, PA!NextInv, PB!NextInv, AssumedA, AssumedB
       DEF PA!ReferencesKept, PB!ReferencesKept
  <2> QED
    BY <1>2, <2>2 DEF Lose, varsA, varsB
<1>5. /\ bus_a' \in Seq(PA!Frame) /\ bus_b' \in Seq(PA!Frame)
  <2>1. CASE bus_a # <<>> /\ bus_a' = Tail(bus_a) /\ UNCHANGED bus_b
    BY <1>2, <2>1
  <2>2. CASE bus_b # <<>> /\ bus_b' = Tail(bus_b) /\ UNCHANGED bus_a
    BY <1>2, <2>2
  <2> QED
    BY <2>1, <2>2 DEF Lose
<1>6. /\ PA!LossyDirection(accepted_a, output_flow_a, tx_a["output"],
                           bus_a', bus_b', input_flow_b, tx_b["input"], delivered_b)
      /\ PA!LossyDirection(accepted_b, output_flow_b, tx_b["output"],
                           bus_b', bus_a', input_flow_a, tx_a["input"], delivered_a)
  BY <1>3 DEF Lose
<1>7. AToBLossy' /\ BToALossy'
  BY <1>6 DEF AToBLossy, BToALossy, Lose, varsA, varsB
<1> QED
  BY <1>4, <1>5, <1>7 DEF LossyLinked

LEMMA LossyLinkedInit == Init => LossyLinked
<1> SUFFICES ASSUME Init PROVE LossyLinked
  OBVIOUS
<1>1. PA!Init /\ PB!Init
  BY NodeA, NodeB DEF Init
<1>2. PA!Inv /\ PB!Inv
  BY <1>1, PA!InitInv, PB!InitInv, AssumedA, AssumedB
<1>3. attached_a /\ attached_b
  BY <1>1 DEF PA!Init, PB!Init
<1>4. /\ output_flow_a.state = "IDLE" /\ input_flow_a.state = "IDLE"
      /\ tx_a["output"] = <<>> /\ tx_a["input"] = <<>>
      /\ output_flow_b.state = "IDLE" /\ input_flow_b.state = "IDLE"
      /\ tx_b["output"] = <<>> /\ tx_b["input"] = <<>>
  BY <1>1 DEF PA!Init, PA!Flow, PB!Init, PB!Flow
<1>5. /\ PA!LossyDirection(<<>>, output_flow_a, tx_a["output"], <<>>, <<>>,
                           input_flow_b, tx_b["input"], <<>>)
      /\ PA!LossyDirection(<<>>, output_flow_b, tx_b["output"], <<>>, <<>>,
                           input_flow_a, tx_a["input"], <<>>)
  BY <1>4, PA!LossyInit, AssumedA
<1>6. <<>> \in Seq(PA!Frame)
  OBVIOUS
<1> QED
  BY <1>2, <1>3, <1>5, <1>6 DEF LossyLinked, AToBLossy, BToALossy, Init

LEMMA LossyStutters ==
  ASSUME LossyLinked, UNCHANGED vars
  PROVE  LossyLinked'
<1>1. UNCHANGED PA!vars /\ UNCHANGED PB!vars
  BY DEF vars, varsA, varsB, PA!vars, PB!vars
<1>2. PA!Inv' /\ PB!Inv'
  BY <1>1, PA!NextInv, PB!NextInv, AssumedA, AssumedB
     DEF LossyLinked, PA!ReferencesKept, PB!ReferencesKept
<1>3. AToBLossy' /\ BToALossy'
  BY DEF LossyLinked, AToBLossy, BToALossy, vars, varsA, varsB
<1> QED
  BY <1>2, <1>3 DEF LossyLinked, vars, varsA, varsB

(* An end that said stop has said so for good.                             *)
LEMMA StoppedStays ==
  ASSUME [Next]_vars, stopped
  PROVE  stopped'
BY DEF Next, vars, SendA, SendB, TransmitA, TransmitB, ConfirmA, ConfirmB, ExpireA, ExpireB,
       ReceiveA, ReceiveB, Lose

LEMMA LossyNext ==
  ASSUME LossyInv, [Next]_vars
  PROVE  LossyInv'
<1> SUFFICES ASSUME ~stopped' PROVE LossyLinked'
  BY DEF LossyInv
<1>0. LossyLinked
  BY StoppedStays DEF LossyInv
<1>1. CASE \E m \in OutgoingA : SendA(m)
  BY <1>0, <1>1, LossySendA
<1>2. CASE \E m \in OutgoingB : SendB(m)
  BY <1>0, <1>2, LossySendB
<1>3. CASE TransmitA
  BY <1>0, <1>3, LossyTransmitA
<1>4. CASE TransmitB
  BY <1>0, <1>4, LossyTransmitB
<1>5. CASE ConfirmA
  BY <1>0, <1>5, LossyConfirmA
<1>6. CASE ConfirmB
  BY <1>0, <1>6, LossyConfirmB
<1>7. CASE ExpireA
  BY <1>0, <1>7, LossyExpireA
<1>8. CASE ExpireB
  BY <1>0, <1>8, LossyExpireB
<1>9. CASE ReceiveA
  BY <1>0, <1>9, LossyReceiveA
<1>10. CASE ReceiveB
  BY <1>0, <1>10, LossyReceiveB
<1>11. CASE Lose
  BY <1>0, <1>11, LossyLose
<1>12. CASE UNCHANGED vars
  BY <1>0, <1>12, LossyStutters
<1> QED
  BY <1>1, <1>2, <1>3, <1>4, <1>5, <1>6, <1>7, <1>8, <1>9, <1>10, <1>11, <1>12 DEF Next

LEMMA LossyInvariance == Spec => []LossyInv
<1>1. Init => LossyInv
  BY LossyLinkedInit DEF LossyInv
<1> QED
  BY <1>1, LossyNext, PTL DEF Spec

(* Whatever frames the receivers miss: until an end stops the other, the    *)
(* receive callback of either is given messages isotp_send took at the      *)
(* other, each whole, none twice and none after a later one.  A receiver    *)
(* that missed a frame of a message is short of more bytes than the rest of *)
(* that message brings, so it never takes its end for another's; it finds a *)
(* serial number wrong (isotp_in.c:281), or waits for N_Cr.                 *)
THEOREM LinkSafeUntilStop == Spec => SafeUntilStop
<1>1. Init => AToB!Init /\ BToA!Init
  BY DEF Init, AToB!Init, BToA!Init
<1>2. ASSUME LinkInv, LinkInv', LossyInv, [Next]_vars
      PROVE  [~stopped' => [AToB!Next]_(AToB!vars) /\ [BToA!Next]_(BToA!vars)]_vars
  <2> SUFFICES ASSUME ~stopped'
               PROVE  [AToB!Next]_(AToB!vars) /\ [BToA!Next]_(BToA!vars)
    OBVIOUS
  <2>1. LossyLinked
    BY <1>2, StoppedStays DEF LossyInv
  <2>2. CASE \E m \in OutgoingA : SendA(m)
    <3>1. AToB!Next /\ UNCHANGED BToA!vars
      BY <2>2 DEF SendA, AToB!Next, AToB!Send, BToA!vars
    <3> QED
      BY <3>1
  <2>3. CASE \E m \in OutgoingB : SendB(m)
    <3>1. BToA!Next /\ UNCHANGED AToB!vars
      BY <2>3 DEF SendB, BToA!Next, BToA!Send, AToB!vars
    <3> QED
      BY <3>1
  <2>4. CASE ReceiveA
    <3>1. UNCHANGED AToB!vars /\ accepted_b' = accepted_b
      BY <2>4 DEF ReceiveA, AToB!vars
    <3>2. CASE ~Lossy
      BY <1>2, <2>4, <3>1, <3>2, DeliversA DEF LinkInv
    <3>3. CASE Lossy
      <4>1. CASE delivered_a' = delivered_a
        BY <3>1, <4>1 DEF BToA!vars
      <4>2. ASSUME NEW i \in DOMAIN accepted_b,
                   \A j \in DOMAIN delivered_a :
                     \E k \in 1..(i - 1) : delivered_a[j] = accepted_b[k],
                   delivered_a' = Append(delivered_a, accepted_b[i])
            PROVE  BToA!Next
        <5>1. BToA!Deliver(i)
          BY <3>1, <3>3, <4>2 DEF BToA!Deliver
        <5> QED
          BY <5>1 DEF BToA!Next
      <4> QED
        BY <2>1, <2>4, <3>1, <4>1, <4>2, LossyReceiveA
    <3> QED
      BY <3>2, <3>3
  <2>5. CASE ReceiveB
    <3>1. UNCHANGED BToA!vars /\ accepted_a' = accepted_a
      BY <2>5 DEF ReceiveB, BToA!vars
    <3>2. CASE ~Lossy
      BY <1>2, <2>5, <3>1, <3>2, DeliversB DEF LinkInv
    <3>3. CASE Lossy
      <4>1. CASE delivered_b' = delivered_b
        BY <3>1, <4>1 DEF AToB!vars
      <4>2. ASSUME NEW i \in DOMAIN accepted_a,
                   \A j \in DOMAIN delivered_b :
                     \E k \in 1..(i - 1) : delivered_b[j] = accepted_a[k],
                   delivered_b' = Append(delivered_b, accepted_a[i])
            PROVE  AToB!Next
        <5>1. AToB!Deliver(i)
          BY <3>1, <3>3, <4>2 DEF AToB!Deliver
        <5> QED
          BY <5>1 DEF AToB!Next
      <4> QED
        BY <2>1, <2>5, <3>1, <4>1, <4>2, LossyReceiveB
    <3> QED
      BY <3>2, <3>3
  <2>6. CASE \/ TransmitA \/ ConfirmA \/ ExpireA
             \/ TransmitB \/ ConfirmB \/ ExpireB \/ Lose \/ UNCHANGED vars
    <3>1. UNCHANGED AToB!vars /\ UNCHANGED BToA!vars
      BY <2>6 DEF TransmitA, ConfirmA, ExpireA, TransmitB, ConfirmB, ExpireB, Lose, vars,
                  AToB!vars, BToA!vars
    <3> QED
      BY <3>1
  <2> QED
    BY <1>2, <2>2, <2>3, <2>4, <2>5, <2>6 DEF Next
<1> QED
  BY <1>1, <1>2, LinkInvariance, LossyInvariance, PTL DEF Spec, SafeUntilStop
-----------------------------------------------------------------------------
(* The frames on the wire.                                                 *)

(* A classic frame of each kind is taken for what it is, and its fields are *)
(* those of the flow: the length of a single frame, the serial number of a  *)
(* consecutive one, status, block size and separation time of a flow        *)
(* control frame (isotp.c:360-490).                                        *)
THEOREM ClassicFramesRead ==
  /\ \A n \in 1..7 : /\ Type(isotp_fill_sf(n)) = SF
                     /\ isotp_get_sf_dl(isotp_fill_sf(n)) = n
  /\ \A sn \in 0..15 : /\ Type(isotp_fill_cf(sn)) = CF
                       /\ Low(isotp_fill_cf(sn)[0]) = sn
  /\ \A fs \in 0..2, bs, st \in Byte :
       LET data == isotp_fill_fc(fs, bs, st) IN
       /\ Type(data) = FC /\ Low(data[0]) = fs
       /\ data[1] = bs /\ data[2] = st
<1>1. \A n \in 1..7 : /\ Type(isotp_fill_sf(n)) = SF
                      /\ isotp_get_sf_dl(isotp_fill_sf(n)) = n
  BY DEF Type, isotp_fill_sf, isotp_get_sf_dl, Low, SF
<1>2. \A sn \in 0..15 : /\ Type(isotp_fill_cf(sn)) = CF
                        /\ Low(isotp_fill_cf(sn)[0]) = sn
  BY DEF Type, isotp_fill_cf, Low, CF
<1>3. ASSUME NEW fs \in 0..2, NEW bs \in Byte, NEW st \in Byte
      PROVE  LET data == isotp_fill_fc(fs, bs, st) IN
             /\ Type(data) = FC /\ Low(data[0]) = fs
             /\ data[1] = bs /\ data[2] = st
  BY DEF Type, isotp_fill_fc, Low, FC, Byte
<1> QED
  BY <1>1, <1>2, <1>3

(* The length of a message survives a classic first frame modulo 4096: up   *)
(* to 4095 bytes it is announced as it is, a longer one shorter, although   *)
(* isotp_send accepts it and all of it is sent (isotp_out.c:224, isotp.c:410)*)
THEOREM ClassicLengthRead ==
  \A n \in Nat : /\ Type(isotp_fill_ff(n)) = FF
                    /\ isotp_get_ff_dl(isotp_fill_ff(n)) = n % 4096
<1> SUFFICES ASSUME NEW n \in Nat
             PROVE  /\ Type(isotp_fill_ff(n)) = FF
                    /\ isotp_get_ff_dl(isotp_fill_ff(n)) = n % 4096
  OBVIOUS
<1> DEFINE hi == (n \div 256) % 16
<1>1. hi \in 0..15 /\ n % 256 \in 0..255
  OBVIOUS
<1>2. Low((n \div 256) % 256) = hi
  BY <1>1 DEF Low
<1>3. isotp_fill_ff(n)[0] = FF + hi /\ isotp_fill_ff(n)[1] = n % 256
  BY <1>2 DEF isotp_fill_ff
<1>4. Type(isotp_fill_ff(n)) = FF /\ Low(isotp_fill_ff(n)[0]) = hi
  BY <1>1, <1>3 DEF Type, Low, FF
<1>5. (hi * 256) + (n % 256) = n % 4096
  BY <1>1
<1> HIDE DEF hi
<1> QED
  BY <1>3, <1>4, <1>5 DEF isotp_get_ff_dl

(* The length of a CAN FD single frame is read back, and that of a classic  *)
(* one as well (isotp.c:303-308).                                          *)
THEOREM FdSingleFrameRead ==
  /\ \A n \in 1..62 : /\ Type(fd_fill_sf(n)) = SF
                      /\ fd_get_sf_dl(fd_fill_sf(n)) = n
  /\ \A n \in 1..7 : fd_get_sf_dl(isotp_fill_sf(n)) = n
<1>1. \A n \in 1..62 : /\ Type(fd_fill_sf(n)) = SF
                       /\ fd_get_sf_dl(fd_fill_sf(n)) = n
  BY DEF Type, fd_fill_sf, fd_get_sf_dl, Low, SF
<1>2. \A n \in 1..7 : fd_get_sf_dl(isotp_fill_sf(n)) = n
  BY DEF isotp_fill_sf, fd_get_sf_dl, isotp_get_sf_dl, Low, SF
<1> QED
  BY <1>1, <1>2

(* Of the length in a CAN FD first frame the receiver keeps the lowest byte *)
(* (isotp.c:324-330): a message of 256 bytes or more is never received as   *)
(* long as it is.                                                          *)
THEOREM FdLengthCut ==
  \A n \in Nat : /\ Type(fd_fill_ff(n)) = FF
                    /\ fd_get_ff_dl(fd_fill_ff(n)) = n % 256
BY DEF Type, fd_fill_ff, fd_get_ff_dl, FF

(* A CAN FD single frame is as long as its payload, padded, without the two *)
(* bytes in front of it (isotp.c:365): the payloads that fill their length  *)
(* but for one byte or none are cut on the wire.                           *)
THEOREM FdSingleFrameCut ==
  \A n \in 1..62 :
    FdSingleFrameRoom(n) < n
      <=> n \in {7, 8, 11, 12, 15, 16, 19, 20, 23, 24, 31, 32, 47, 48}
BY DEF FdSingleFrameRoom, get_padding_length, FD_SF_DATA_OFFSET

(* First and consecutive frames of CAN FD take no more than is left, and    *)
(* each takes something: the sender comes to the end of every message       *)
(* (isotp.c:394, 436).                                                     *)
THEOREM FdFramesProgress ==
  /\ \A n \in Nat : n > 62 => FdFirstFrameTaken(n) \in 1..(n - 1)
  /\ \A n \in Nat : n > 0 => FdConsecutiveFrameTaken(n) \in 1..n
<1>1. ASSUME NEW n \in Nat, n > 62
      PROVE  FdFirstFrameTaken(n) \in 1..(n - 1)
  <2>1. get_padding_length(n) = 64
    BY <1>1 DEF get_padding_length
  <2> QED
    BY <1>1, <2>1 DEF FdFirstFrameTaken, FD_FF_DATA_OFFSET
<1>2. ASSUME NEW n \in Nat, n > 0
      PROVE  FdConsecutiveFrameTaken(n) \in 1..n
  <2>1. get_padding_length(n) \in 8..64
    BY DEF get_padding_length
  <2> QED
    BY <1>2, <2>1 DEF FdConsecutiveFrameTaken
<1> QED
  BY <1>1, <1>2

(* The code of a length stands for the least length a CAN FD frame can have *)
(* that is not below it, and the code of that is itself (length.c).         *)
THEOREM LengthCodeLeast ==
  /\ \A n \in 0..64 :
       LET fits == can_fd_dlc2len(can_fd_len2dlc(n)) IN
       /\ fits >= n
       /\ \A dlc \in 0..15 : can_fd_dlc2len(dlc) >= n => can_fd_dlc2len(dlc) >= fits
  /\ \A dlc \in 0..15 : can_fd_len2dlc(can_fd_dlc2len(dlc)) = dlc
<1>1. \A dlc \in 0..15 : can_fd_dlc2len(dlc) = dlc_to_length(dlc)
  BY DEF can_fd_dlc2len, Low
<1>2. \A n \in 0..64 : can_fd_len2dlc(n) \in 0..15
  BY DEF can_fd_len2dlc
<1>3. \A n \in 0..64 : dlc_to_length(can_fd_len2dlc(n)) >= n
  BY DEF can_fd_len2dlc, dlc_to_length
<1>4. ASSUME NEW n \in 0..64, NEW dlc \in 0..15, dlc_to_length(dlc) >= n
      PROVE  dlc_to_length(dlc) >= dlc_to_length(can_fd_len2dlc(n))
  <2> DEFINE code == can_fd_len2dlc(n)
  <2>1. dlc_to_length(dlc) \in (0..8) \cup {12, 16, 20, 24, 32, 48, 64}
    BY DEF dlc_to_length
  <2>2. CASE n \in 0..8
    <3>1. code = n
      BY <2>2 DEF can_fd_len2dlc
    <3>2. dlc_to_length(n) = n
      BY <2>2 DEF dlc_to_length
    <3> QED
      BY <1>4, <3>1, <3>2, Zenon
  <2>3. CASE n \in 9..12
    <3>1. code = 9
      BY <2>3 DEF can_fd_len2dlc
    <3>2. dlc_to_length(9) = 12
      BY DEF dlc_to_length
    <3>3. dlc_to_length(code) = 12
      BY <3>1, <3>2, Zenon
    <3> HIDE DEF code
    <3>4. dlc_to_length(dlc) >= 12
      BY <1>4, <2>1, <2>3
    <3> QED
      BY <3>1, <3>2, <3>4, Zenon DEF code
  <2>4. CASE n \in 13..16
    <3>1. code = 10
      BY <2>4 DEF can_fd_len2dlc
    <3>2. dlc_to_length(10) = 16
      BY DEF dlc_to_length
    <3>3. dlc_to_length(code) = 16
      BY <3>1, <3>2, Zenon
    <3> HIDE DEF code
    <3>4. dlc_to_length(dlc) >= 16
      BY <1>4, <2>1, <2>4
    <3> QED
      BY <3>1, <3>2, <3>4, Zenon DEF code
  <2>5. CASE n \in 17..20
    <3>1. code = 11
      BY <2>5 DEF can_fd_len2dlc
    <3>2. dlc_to_length(11) = 20
      BY DEF dlc_to_length
    <3>3. dlc_to_length(code) = 20
      BY <3>1, <3>2, Zenon
    <3> HIDE DEF code
    <3>4. dlc_to_length(dlc) >= 20
      BY <1>4, <2>1, <2>5
    <3> QED
      BY <3>1, <3>2, <3>4, Zenon DEF code
  <2>6. CASE n \in 21..24
    <3>1. code = 12
      BY <2>6 DEF can_fd_len2dlc
    <3>2. dlc_to_length(12) = 24
      BY DEF dlc_to_length
    <3>3. dlc_to_length(code) = 24
      BY <3>1, <3>2, Zenon
    <3> HIDE DEF code
    <3>4. dlc_to_length(dlc) >= 24
      BY <1>4, <2>1, <2>6
    <3> QED
      BY <3>1, <3>2, <3>4, Zenon DEF code
  <2>7. CASE n \in 25..32
    <3>1. code = 13
      BY <2>7 DEF can_fd_len2dlc
    <3>2. dlc_to_length(13) = 32
      BY DEF dlc_to_length
    <3>3. dlc_to_length(code) = 32
      BY <3>1, <3>2, Zenon
    <3> HIDE DEF code
    <3>4. dlc_to_length(dlc) >= 32
      BY <1>4, <2>1, <2>7
    <3> QED
      BY <3>1, <3>2, <3>4, Zenon DEF code
  <2>8. CASE n \in 33..48
    <3>1. code = 14
      BY <2>8 DEF can_fd_len2dlc
    <3>2. dlc_to_length(14) = 48
      BY DEF dlc_to_length
    <3>3. dlc_to_length(code) = 48
      BY <3>1, <3>2, Zenon
    <3> HIDE DEF code
    <3>4. dlc_to_length(dlc) >= 48
      BY <1>4, <2>1, <2>8
    <3> QED
      BY <3>1, <3>2, <3>4, Zenon DEF code
  <2>9. CASE n \in 49..64
    <3>1. code = 15
      BY <2>9 DEF can_fd_len2dlc
    <3>2. dlc_to_length(15) = 64
      BY DEF dlc_to_length
    <3>3. dlc_to_length(code) = 64
      BY <3>1, <3>2, Zenon
    <3> HIDE DEF code
    <3>4. dlc_to_length(dlc) >= 64
      BY <1>4, <2>1, <2>9
    <3> QED
      BY <3>1, <3>2, <3>4, Zenon DEF code
  <2> QED
    BY <2>2, <2>3, <2>4, <2>5, <2>6, <2>7, <2>8, <2>9
<1>5. \A dlc \in 0..15 : can_fd_len2dlc(dlc_to_length(dlc)) = dlc
  BY DEF can_fd_len2dlc, dlc_to_length
<1> QED
  BY <1>1, <1>2, <1>3, <1>4, <1>5

(* isotp.c pads to the lengths of length.c from eight bytes on.            *)
THEOREM PaddingIsALength ==
  \A n \in 8..64 : get_padding_length(n) = can_fd_dlc2len(can_fd_len2dlc(n))
<1> SUFFICES ASSUME NEW n \in 8..64
             PROVE  get_padding_length(n) = can_fd_dlc2len(can_fd_len2dlc(n))
  OBVIOUS
<1>1. can_fd_dlc2len(can_fd_len2dlc(n)) = dlc_to_length(can_fd_len2dlc(n))
  <2>1. can_fd_len2dlc(n) \in 0..15
    BY DEF can_fd_len2dlc
  <2> QED
    BY <2>1 DEF can_fd_dlc2len, Low
<1>2. /\ n = 8 => can_fd_len2dlc(n) = 8
      /\ n \in 9..12 => can_fd_len2dlc(n) = 9
      /\ n \in 13..16 => can_fd_len2dlc(n) = 10
      /\ n \in 17..20 => can_fd_len2dlc(n) = 11
      /\ n \in 21..24 => can_fd_len2dlc(n) = 12
      /\ n \in 25..32 => can_fd_len2dlc(n) = 13
      /\ n \in 33..48 => can_fd_len2dlc(n) = 14
      /\ n \in 49..64 => can_fd_len2dlc(n) = 15
  BY DEF can_fd_len2dlc
<1>3. /\ n = 8 => get_padding_length(n) = 8
      /\ n \in 9..12 => get_padding_length(n) = 12
      /\ n \in 13..16 => get_padding_length(n) = 16
      /\ n \in 17..20 => get_padding_length(n) = 20
      /\ n \in 21..24 => get_padding_length(n) = 24
      /\ n \in 25..32 => get_padding_length(n) = 32
      /\ n \in 33..48 => get_padding_length(n) = 48
      /\ n \in 49..64 => get_padding_length(n) = 64
  BY DEF get_padding_length
<1>4. /\ dlc_to_length(8) = 8 /\ dlc_to_length(9) = 12 /\ dlc_to_length(10) = 16
      /\ dlc_to_length(11) = 20 /\ dlc_to_length(12) = 24 /\ dlc_to_length(13) = 32
      /\ dlc_to_length(14) = 48 /\ dlc_to_length(15) = 64
  BY DEF dlc_to_length
<1> QED
  BY <1>1, <1>2, <1>3, <1>4
=============================================================================
