---------------------------- MODULE IsoTpProofs ----------------------------
(***************************************************************************)
(* What holds of IsoTp for every value of its constants.                   *)
(***************************************************************************)
EXTENDS IsoTpNode, Lemmas

(* The timeouts and frames of each flow, by its state.  An expired timeout  *)
(* of a flow whose interface is gone is not replaced.                      *)
OutputCounts ==
  /\ IF output_flow.state \in Transmitting
     THEN /\ timeouts["isotp_out_flow_output"] + Len(tx["output"]) <= 1
          /\ attached => timeouts["isotp_out_flow_output"] + Len(tx["output"]) = 1
     ELSE timeouts["isotp_out_flow_output"] = 0 /\ Len(tx["output"]) = 0
  /\ IF output_flow.state = "WAIT_FC"
     THEN timeouts["isotp_output_error_handler"] = 1
     ELSE timeouts["isotp_output_error_handler"] = 0

InputCounts ==
  /\ IF input_flow.state = "TX_FC"
     THEN /\ timeouts["isotp_in_flow_output"] + Len(tx["input"]) <= 1
          /\ attached => timeouts["isotp_in_flow_output"] + Len(tx["input"]) = 1
     ELSE timeouts["isotp_in_flow_output"] = 0 /\ Len(tx["input"]) = 0
  /\ IF input_flow.state = "WAIT_CF"
     THEN timeouts["isotp_input_error_handler"] = 1
     ELSE timeouts["isotp_input_error_handler"] = 0

(* What the sender has left to send, by state.                             *)
Remaining ==
  /\ IF output_flow.state = "IDLE"
     THEN Len(output_flow.buffer) = 0
     ELSE /\ Len(output_flow.buffer) = 1
          /\ output_flow.remaining_data <= Message.length
  /\ output_flow.state = "TX_SF" =>
       /\ Message.length <= SfData
       /\ output_flow.remaining_data
            = IF Len(tx["output"]) = 0 THEN Message.length ELSE 0
  /\ output_flow.state = "TX_FF" =>
       /\ Message.length > SfData
       /\ output_flow.remaining_data
            = IF Len(tx["output"]) = 0 THEN Message.length
                                       ELSE Message.length - FfData
  /\ output_flow.state = "TX_CF" /\ Len(tx["output"]) = 0 =>
       output_flow.remaining_data > 0
  /\ output_flow.state = "WAIT_FC" => output_flow.remaining_data > 0

(* Every byte of the message is left, in the driver or confirmed.          *)
Accounted ==
  /\ output_flow.state # "IDLE" =>
       unacked = output_flow.remaining_data
                   + IF Len(tx["output"]) = 0 THEN 0 ELSE Carried(Head(tx["output"]))
  /\ Len(tx["output"]) # 0 => Carried(Head(tx["output"])) > 0

(* The sender's half of TypeOK.                                            *)
SenderType ==
  /\ output_flow \in OutputFlow
  /\ timeouts \in [Handler -> Nat]
  /\ tx \in [Flow -> Seq(Frame)]
  /\ attached \in BOOLEAN
  /\ outcome \in {"none", "pending", "sent", "error", "reported twice"}
  /\ unacked \in DataLength

SenderInv ==
  /\ SenderType
  /\ OutputCounts
  /\ Remaining
  /\ Accounted
  /\ ReportedOnce
  /\ SentMeansTransmitted
-----------------------------------------------------------------------------
(* Timeouts: with a free slot lwcan_timeout adds one.                       *)
LEMMA ArmedAdds ==
  ASSUME NEW t \in [Handler -> Nat], NEW h \in Handler, Pending(t) < 2
  PROVE  /\ Armed(t, h) = [t EXCEPT ![h] = t[h] + 1]
         /\ Armed(t, h) \in [Handler -> Nat]
  BY IsoTpAssumption DEF Armed, Pending, Handler

LEMMA DisarmedTakes ==
  ASSUME NEW t \in [Handler -> Nat], NEW h \in Handler, t[h] > 0
  PROVE  /\ Disarmed(t, h) = [t EXCEPT ![h] = t[h] - 1]
         /\ Disarmed(t, h) \in [Handler -> Nat]
  BY DEF Disarmed

LEMMA DisarmedType ==
  ASSUME NEW t \in [Handler -> Nat], NEW h \in Handler
  PROVE  Disarmed(t, h) \in [Handler -> Nat]
  BY DEF Disarmed

(* Sequences.                                                              *)
LEMMA TailOfOne ==
  ASSUME NEW S, NEW s \in Seq(S), Len(s) = 1
  PROVE  /\ s # <<>>
         /\ Head(s) \in S
         /\ Tail(s) \in Seq(S)
         /\ Len(Tail(s)) = 0
  OBVIOUS

LEMMA OneOnEmpty ==
  ASSUME NEW S, NEW s \in Seq(S), Len(s) = 0, NEW e \in S
  PROVE  /\ <<e>> \o s \in Seq(S)
         /\ Len(<<e>> \o s) = 1
         /\ Head(<<e>> \o s) = e
         /\ Append(s, e) \in Seq(S)
         /\ Len(Append(s, e)) = 1
         /\ Head(Append(s, e)) = e
  OBVIOUS

LEMMA HeadRemovedOfOne ==
  ASSUME NEW S, NEW s \in Seq(S), Len(s) = 1
  PROVE  /\ HeadRemoved(s) \in Seq(S)
         /\ Len(HeadRemoved(s)) = 0
  BY TailOfOne DEF HeadRemoved
-----------------------------------------------------------------------------
(* The types, unfolded.                                                    *)
Counted(t) ==
  /\ t["isotp_out_flow_output"] \in Nat
  /\ t["isotp_output_error_handler"] \in Nat
  /\ t["isotp_in_flow_output"] \in Nat
  /\ t["isotp_input_error_handler"] \in Nat

LEMMA TimeoutTypes ==
  ASSUME NEW t \in [Handler -> Nat]
  PROVE  Counted(t)
  BY DEF Handler, Counted

LEMMA LengthIsNat ==
  ASSUME NEW n, n \in DataLength
  PROVE  n \in Nat
  BY DEF DataLength, FF_DL_MAX

LEMMA SenderTypes ==
  ASSUME SenderType
  PROVE  /\ output_flow \in OutputFlow
         /\ timeouts \in [Handler -> Nat]
         /\ Counted(timeouts)
         /\ tx["output"] \in Seq(Frame) /\ Len(tx["output"]) \in Nat
         /\ tx["input"] \in Seq(Frame) /\ Len(tx["input"]) \in Nat
         /\ output_flow.state \in OutputState
         /\ output_flow.buffer \in Seq(Outgoing)
         /\ output_flow.remaining_data \in DataLength
         /\ output_flow.cf_sn \in SerialNumber
         /\ output_flow.bs \in Byte
         /\ output_flow.n_wft \in Byte
         /\ unacked \in DataLength
         /\ output_flow.remaining_data \in Nat
         /\ unacked \in Nat
<1>1. output_flow \in OutputFlow
  BY DEF SenderType
<1>2. timeouts \in [Handler -> Nat]
  BY DEF SenderType
<1>3. Counted(timeouts)
  BY <1>2, TimeoutTypes
<1>4. tx \in [Flow -> Seq(Frame)]
  BY DEF SenderType
<1>5. tx["output"] \in Seq(Frame) /\ tx["input"] \in Seq(Frame)
  BY <1>4 DEF Flow
<1>6. Len(tx["output"]) \in Nat /\ Len(tx["input"]) \in Nat
  BY <1>5
<1>7. unacked \in DataLength
  BY DEF SenderType
<1>8. output_flow.remaining_data \in DataLength
  BY <1>1 DEF OutputFlow
<1>9. output_flow.remaining_data \in Nat /\ unacked \in Nat
  BY <1>7, <1>8, LengthIsNat
<1>10. QED
  BY <1>1, <1>2, <1>3, <1>5, <1>6, <1>7, <1>9 DEF OutputFlow

(* A flow has at most one timeout pending.                                 *)
LEMMA AtMostOneEach ==
  ASSUME SenderType, OutputCounts, InputCounts
  PROVE  /\ timeouts["isotp_out_flow_output"] + timeouts["isotp_output_error_handler"] <= 1
         /\ timeouts["isotp_in_flow_output"] + timeouts["isotp_input_error_handler"] <= 1
<1>1. /\ Counted(timeouts)
      /\ Len(tx["output"]) \in Nat
      /\ Len(tx["input"]) \in Nat
  BY SenderTypes
<1>2. timeouts["isotp_out_flow_output"] + timeouts["isotp_output_error_handler"] <= 1
  BY <1>1 DEF OutputCounts, Transmitting, Counted
<1>3. timeouts["isotp_in_flow_output"] + timeouts["isotp_input_error_handler"] <= 1
  BY <1>1 DEF InputCounts, Counted
<1>4. QED
  BY <1>2, <1>3

LEMMA SendKeeps ==
  ASSUME SenderInv, InputCounts, NEW m \in Outgoing, isotp_send(m)
  PROVE  SenderInv'
<1>0. /\ output_flow \in OutputFlow
      /\ timeouts \in [Handler -> Nat]
      /\ Counted(timeouts)
      /\ Len(tx["output"]) \in Nat
  BY SenderTypes DEF SenderInv
<1>1. /\ Len(tx["output"]) = 0
      /\ timeouts["isotp_out_flow_output"] = 0
      /\ timeouts["isotp_output_error_handler"] = 0
      /\ Len(output_flow.buffer) = 0
  BY DEF SenderInv, OutputCounts, Remaining, isotp_send, Transmitting
<1>2. Pending(timeouts) < 2
  BY <1>0, <1>1, AtMostOneEach DEF Pending, SenderInv, Counted
<1>3. /\ timeouts' = [timeouts EXCEPT !["isotp_out_flow_output"] = timeouts["isotp_out_flow_output"] + 1]
      /\ timeouts' \in [Handler -> Nat]
  BY <1>0, <1>2, ArmedAdds DEF isotp_send, Handler
<1>4. /\ timeouts'["isotp_out_flow_output"] = 1
      /\ timeouts'["isotp_output_error_handler"] = 0
  BY <1>0, <1>1, <1>3 DEF Handler
<1>5. m \in Messages /\ m.length \in 1..FF_DL_MAX
  BY IsoTpAssumption
<1>6. /\ <<m>> \o output_flow.buffer \in Seq(Outgoing)
      /\ Len(<<m>> \o output_flow.buffer) = 1
      /\ Head(<<m>> \o output_flow.buffer) = m
  BY <1>0, <1>1, OneOnEmpty DEF OutputFlow
<1>7. /\ output_flow'.state = (IF m.length > SfData THEN "TX_FF" ELSE "TX_SF")
      /\ output_flow'.buffer = <<m>> \o output_flow.buffer
      /\ output_flow'.remaining_data = m.length
  BY <1>0 DEF isotp_send, OutputFlow
<1>8. output_flow' \in OutputFlow
  <2>1. (IF m.length > SfData THEN "TX_FF" ELSE "TX_SF") \in OutputState
    BY DEF OutputState, Transmitting
  <2>2. (IF m.length > SfData THEN 1 ELSE output_flow.cf_sn) \in SerialNumber
    <3>1. 1 \in SerialNumber
      BY DEF SerialNumber, CF_SN_MASK
    <3>2. QED
      BY <1>0, <3>1 DEF OutputFlow
  <2>3. (IF m.length > SfData THEN ISOTP_N_WFT ELSE output_flow.n_wft) \in Byte
    BY <1>0, IsoTpAssumption DEF OutputFlow
  <2>4. m.length \in DataLength
    BY <1>5 DEF DataLength
  <2>5. QED
    BY <1>0, <1>6, <2>1, <2>2, <2>3, <2>4 DEF isotp_send, OutputFlow
<1>9. SenderType'
  <2>1. m.length \in DataLength
    BY <1>5 DEF DataLength
  <2>2. QED
    BY <1>3, <1>8, <2>1 DEF isotp_send, SenderInv, SenderType
<1>10. OutputCounts'
  BY <1>1, <1>4, <1>7 DEF isotp_send, OutputCounts, Transmitting
<1>11. Remaining'
  BY <1>1, <1>5, <1>6, <1>7 DEF isotp_send, Remaining, Message, SfData
<1>12. Accounted'
  BY <1>1, <1>5, <1>7 DEF isotp_send, Accounted
<1>13. ReportedOnce' /\ SentMeansTransmitted'
  BY <1>7 DEF isotp_send, ReportedOnce, SentMeansTransmitted
<1>14. QED
  BY <1>9, <1>10, <1>11, <1>12, <1>13 DEF SenderInv

LEMMA OneOfTwo ==
  ASSUME NEW n \in Nat, NEW k \in Nat, k > 0, n + k <= 1
  PROVE  n = 0 /\ k = 1
  OBVIOUS

(* Taking some of what remains.                                            *)
LEMMA TakenFrom ==
  ASSUME NEW n \in 0..FF_DL_MAX, NEW k \in 1..n
  PROVE  /\ n - k \in DataLength
         /\ n - k \in 0..n
         /\ n > 0
  BY DEF FF_DL_MAX, DataLength

(* FF_DL of a message that is not sent in a single frame.                   *)
LEMMA FirstFrameLength ==
  ASSUME NEW n \in 1..FF_DL_MAX, n > SfData
  PROVE  /\ n % (FF_DL_MAX + 1) = n
         /\ n \in (SfData + 1)..FF_DL_MAX
         /\ FfData \in 1..n
         /\ n > FfData
  BY DEF FF_DL_MAX, SfData, FfData

LEMMA SingleFrameLength ==
  ASSUME NEW n \in 1..SfData
  PROVE  n \in 1..FF_DL_MAX /\ n \in DataLength /\ n \in Nat
<1>1. n \in 1..7
  BY DEF SfData
<1>2. n \in 1..4095 /\ n \in 0..4095 /\ n \in Nat
  BY <1>1
<1>3. QED
  BY <1>2 DEF FF_DL_MAX, DataLength

LEMMA AnnouncedLength ==
  ASSUME NEW n \in (SfData + 1)..FF_DL_MAX
  PROVE  /\ n \in 1..FF_DL_MAX
         /\ n - FfData \in DataLength
         /\ n - FfData > 0
         /\ FfData \in Nat
<1>1. n \in 8..4095
  BY DEF FF_DL_MAX, SfData
<1>2. n \in 1..FF_DL_MAX
  BY <1>1 DEF FF_DL_MAX
<1>3. n - FfData \in DataLength
  BY <1>1 DEF FF_DL_MAX, FfData, DataLength
<1>4. n - FfData > 0 /\ FfData \in Nat
  BY <1>1 DEF FfData
<1>5. QED
  BY <1>2, <1>3, <1>4

LEMMA LeastPositive ==
  ASSUME NEW n \in 0..FF_DL_MAX, n > 0
  PROVE  Least(CfData, n) \in 1..n /\ Least(CfData, n) \in Nat
  BY DEF Least, CfData, FF_DL_MAX

(* The frame the sender builds, and what it carries.                       *)
LEMMA OutputFrameBuilt ==
  ASSUME SenderInv, output_flow.state \in Transmitting, Len(tx["output"]) = 0
  PROVE  /\ OutputFrame \in Frame
         /\ Carried(OutputFrame) = OutputTaken
         /\ OutputTaken \in 1..output_flow.remaining_data
         /\ output_flow.state = "TX_SF" => OutputTaken = output_flow.remaining_data
         /\ output_flow.state = "TX_FF" =>
              /\ OutputTaken = FfData
              /\ output_flow.remaining_data > FfData
<1>1. /\ output_flow.buffer \in Seq(Outgoing)
      /\ output_flow.remaining_data \in 0..FF_DL_MAX
      /\ output_flow.cf_sn \in SerialNumber
  BY SenderTypes DEF SenderInv, DataLength
<1>2. Len(output_flow.buffer) = 1
  BY DEF SenderInv, Remaining, Transmitting
<1>3. /\ Message \in Messages
      /\ Message.length \in 1..FF_DL_MAX
  BY <1>1, <1>2, TailOfOne, IsoTpAssumption DEF Message
<1>4. output_flow.remaining_data <= Message.length
  BY DEF SenderInv, Remaining, Transmitting
<1>5. CASE output_flow.state = "TX_SF"
  <2>1. /\ output_flow.remaining_data = Message.length
        /\ Message.length <= SfData
    BY <1>5 DEF SenderInv, Remaining
  <2>2. OutputFrame = [type |-> "SF", dl |-> output_flow.remaining_data,
                       data |-> [msg |-> Message, off |-> 0]]
    BY <1>5 DEF OutputFrame
  <2>3. OutputTaken = output_flow.remaining_data
    BY <1>5 DEF OutputTaken
  <2>4. Carried(OutputFrame) = output_flow.remaining_data
    BY <2>2 DEF Carried
  <2>5. output_flow.remaining_data \in 1..SfData
    BY <1>3, <2>1 DEF SfData
  <2>6. [msg |-> Message, off |-> 0] \in Segment
    BY <1>3 DEF Segment
  <2>7. OutputFrame \in Frame
    BY <2>2, <2>5, <2>6 DEF Frame
  <2>8. QED
    BY <1>5, <2>3, <2>4, <2>5, <2>7
<1>6. CASE output_flow.state = "TX_FF"
  <2>1. /\ output_flow.remaining_data = Message.length
        /\ Message.length > SfData
    BY <1>6 DEF SenderInv, Remaining
  <2>2. /\ output_flow.remaining_data % (FF_DL_MAX + 1) = output_flow.remaining_data
        /\ output_flow.remaining_data \in (SfData + 1)..FF_DL_MAX
        /\ FfData \in 1..output_flow.remaining_data
        /\ output_flow.remaining_data > FfData
    BY <1>3, <2>1, FirstFrameLength
  <2>3. OutputFrame = [type |-> "FF", dl |-> output_flow.remaining_data,
                       data |-> [msg |-> Message, off |-> 0]]
    BY <1>6, <2>2 DEF OutputFrame
  <2>4. OutputTaken = FfData
    BY <1>6 DEF OutputTaken
  <2>5. Carried(OutputFrame) = FfData
    BY <2>3 DEF Carried
  <2>6. [msg |-> Message, off |-> 0] \in Segment
    BY <1>3 DEF Segment
  <2>7. OutputFrame \in Frame
    BY <2>2, <2>3, <2>6 DEF Frame
  <2>8. QED
    BY <1>6, <2>2, <2>4, <2>5, <2>7
<1>7. CASE output_flow.state = "TX_CF"
  <2>1. output_flow.remaining_data > 0
    BY <1>7 DEF SenderInv, Remaining
  <2>2. OutputFrame = [type |-> "CF", sn |-> output_flow.cf_sn,
                       data |-> [msg |-> Message,
                                 off |-> Message.length - output_flow.remaining_data]]
    BY <1>7 DEF OutputFrame
  <2>3. OutputTaken = Least(CfData, output_flow.remaining_data)
    BY <1>7 DEF OutputTaken
  <2>4. Message.length - (Message.length - output_flow.remaining_data)
          = output_flow.remaining_data
    BY <1>1, <1>3
  <2>5. Carried(OutputFrame) = Least(CfData, output_flow.remaining_data)
    BY <2>2, <2>4 DEF Carried
  <2>6. Message.length - output_flow.remaining_data \in Nat
    BY <1>1, <1>3, <1>4
  <2>7. [msg |-> Message, off |-> Message.length - output_flow.remaining_data] \in Segment
    BY <1>3, <2>6 DEF Segment
  <2>8. OutputFrame \in Frame
    BY <1>1, <2>2, <2>7 DEF Frame
  <2>9. Least(CfData, output_flow.remaining_data) \in 1..output_flow.remaining_data
    BY <1>1, <2>1 DEF Least, CfData
  <2>10. QED
    BY <1>7, <2>3, <2>5, <2>8, <2>9
<1>8. QED
  BY <1>5, <1>6, <1>7 DEF Transmitting

(* isotp_out_flow_output finds the sender transmitting, and no other        *)
(* timeout or frame of the sender.                                         *)
LEMMA OutputTimeoutMeansTransmitting ==
  ASSUME SenderInv, timeouts["isotp_out_flow_output"] > 0
  PROVE  /\ output_flow.state \in Transmitting
         /\ timeouts["isotp_out_flow_output"] = 1
         /\ Len(tx["output"]) = 0
<1>1. Counted(timeouts) /\ Len(tx["output"]) \in Nat
  BY SenderTypes DEF SenderInv
<1>2. QED
  BY <1>1 DEF SenderInv, OutputCounts, Counted

LEMMA OutputAcceptedKeeps ==
  ASSUME SenderInv, isotp_out_flow_output, output_accepted
  PROVE  SenderInv'
<1>1. /\ output_flow \in OutputFlow
      /\ timeouts \in [Handler -> Nat]
      /\ tx \in [Flow -> Seq(Frame)]
      /\ tx["output"] \in Seq(Frame)
      /\ output_flow.remaining_data \in 0..FF_DL_MAX
      /\ unacked \in DataLength
  BY SenderTypes DEF SenderInv, SenderType, DataLength
<1>2. /\ output_flow.state \in Transmitting
      /\ timeouts["isotp_out_flow_output"] = 1
      /\ Len(tx["output"]) = 0
  BY OutputTimeoutMeansTransmitting DEF isotp_out_flow_output
<1>3. /\ OutputFrame \in Frame
      /\ Carried(OutputFrame) = OutputTaken
      /\ OutputTaken \in 1..output_flow.remaining_data
      /\ output_flow.state = "TX_SF" => OutputTaken = output_flow.remaining_data
      /\ output_flow.state = "TX_FF" => OutputTaken = FfData
  BY <1>2, OutputFrameBuilt
<1>4. /\ timeouts' = [timeouts EXCEPT !["isotp_out_flow_output"] = 0]
      /\ timeouts' \in [Handler -> Nat]
  <2>1. "isotp_out_flow_output" \in Handler
    BY DEF Handler
  <2>2. timeouts' = Disarmed(timeouts, "isotp_out_flow_output")
    BY DEF isotp_out_flow_output
  <2>3. QED
    BY <1>1, <1>2, <2>1, <2>2, DisarmedTakes
<1>5. /\ timeouts'["isotp_out_flow_output"] = 0
      /\ timeouts'["isotp_output_error_handler"] = timeouts["isotp_output_error_handler"]
  BY <1>1, <1>4 DEF Handler
<1>6. /\ Append(tx["output"], OutputFrame) \in Seq(Frame)
      /\ Len(Append(tx["output"], OutputFrame)) = 1
      /\ Head(Append(tx["output"], OutputFrame)) = OutputFrame
  BY <1>1, <1>2, <1>3, OneOnEmpty
<1>7. /\ tx' \in [Flow -> Seq(Frame)]
      /\ tx'["output"] = Append(tx["output"], OutputFrame)
  BY <1>1, <1>6 DEF output_accepted, Flow
<1>8. output_flow.remaining_data - OutputTaken \in 0..output_flow.remaining_data
  BY <1>1, <1>3, TakenFrom
<1>9. output_flow.remaining_data - OutputTaken \in DataLength
  BY <1>1, <1>3, TakenFrom
<1>10. /\ output_flow' \in OutputFlow
       /\ output_flow'.state = output_flow.state
       /\ output_flow'.buffer = output_flow.buffer
       /\ output_flow'.remaining_data = output_flow.remaining_data - OutputTaken
  BY <1>1, <1>9 DEF output_accepted, OutputFlow
<1>11. Message' = Message
  BY <1>10 DEF Message
<1>12. SenderType'
  BY <1>4, <1>7, <1>10 DEF output_accepted, SenderInv, SenderType
<1>13. OutputCounts'
  BY <1>2, <1>5, <1>6, <1>7, <1>10 DEF output_accepted, SenderInv, OutputCounts, Transmitting
<1>14. Len(tx'["output"]) = 1 /\ Head(tx'["output"]) = OutputFrame
  BY <1>6, <1>7
<1>15. Remaining'
  <2>1. /\ Len(output_flow.buffer) = 1
        /\ output_flow.remaining_data <= Message.length
    BY <1>2 DEF SenderInv, Remaining, Transmitting
  <2>2. Message.length \in Int
    BY <1>1, <2>1, TailOfOne, IsoTpAssumption DEF Message, OutputFlow
  <2>3. output_flow'.remaining_data <= Message.length
    BY <1>1, <1>8, <1>10, <2>1, <2>2
  <2>4. output_flow.state = "TX_SF" =>
          Message.length <= SfData /\ output_flow'.remaining_data = 0
    BY <1>1, <1>3, <1>10 DEF SenderInv, Remaining
  <2>5. output_flow.state = "TX_FF" =>
          /\ Message.length > SfData
          /\ output_flow'.remaining_data = Message.length - FfData
    BY <1>2, <1>3, <1>10 DEF SenderInv, Remaining
  <2>6. QED
    BY <1>2, <1>10, <1>11, <1>14, <2>1, <2>3, <2>4, <2>5 DEF Remaining, Transmitting
<1>16. Accounted'
  <2>1. unacked = output_flow.remaining_data
    BY <1>1, <1>2 DEF SenderInv, Accounted, Transmitting
  <2>2. Carried(OutputFrame) \in 1..output_flow.remaining_data
    BY <1>3
  <2>3. unacked' = (output_flow.remaining_data - OutputTaken) + Carried(OutputFrame)
    BY <1>1, <1>3, <2>1, <2>2 DEF output_accepted
  <2>4. QED
    BY <1>1, <1>10, <1>14, <2>2, <2>3 DEF Accounted
<1>17. ReportedOnce' /\ SentMeansTransmitted'
  BY <1>10 DEF output_accepted, SenderInv, ReportedOnce, SentMeansTransmitted
<1>18. QED
  BY <1>12, <1>13, <1>15, <1>16, <1>17 DEF SenderInv

(* A step that ends the message with its one report, leaving nothing behind.*)
LEMMA EndKeeps ==
  ASSUME SenderInv, output_flow.state # "IDLE",
         NEW verdict \in {"sent", "error"}, Report(verdict),
         output_flow' \in OutputFlow,
         output_flow'.state = "IDLE",
         Len(output_flow'.buffer) = 0,
         timeouts' \in [Handler -> Nat],
         timeouts'["isotp_out_flow_output"] = 0,
         timeouts'["isotp_output_error_handler"] = 0,
         tx' \in [Flow -> Seq(Frame)],
         Len(tx'["output"]) = 0,
         UNCHANGED attached,
         unacked' \in DataLength,
         IF verdict = "sent" THEN unacked' = 0 ELSE unacked' > 0
  PROVE  SenderInv'
<1>1. outcome' = verdict
  BY DEF Report, SenderInv, ReportedOnce
<1>2. SenderType'
  BY <1>1 DEF SenderInv, SenderType
<1>3. OutputCounts'
  BY DEF OutputCounts, Transmitting
<1>4. Remaining'
  BY DEF Remaining
<1>5. Accounted'
  BY DEF Accounted
<1>6. ReportedOnce' /\ SentMeansTransmitted'
  BY <1>1 DEF ReportedOnce, SentMeansTransmitted
<1>7. QED
  BY <1>2, <1>3, <1>4, <1>5, <1>6 DEF SenderInv

(* The buffer of the message goes with it.                                 *)
LEMMA MessageRemoved ==
  ASSUME SenderInv, output_flow.state # "IDLE", NEW n \in DataLength,
         \/ output_flow' = [output_flow EXCEPT !.state = "IDLE",
                                               !.buffer = HeadRemoved(@)]
         \/ output_flow' = [output_flow EXCEPT !.state = "IDLE",
                                               !.buffer = HeadRemoved(@),
                                               !.remaining_data = n]
  PROVE  /\ output_flow' \in OutputFlow
         /\ output_flow'.state = "IDLE"
         /\ Len(output_flow'.buffer) = 0
<1>1. output_flow \in OutputFlow /\ output_flow.buffer \in Seq(Outgoing)
  BY SenderTypes DEF SenderInv
<1>2. Len(output_flow.buffer) = 1
  BY DEF SenderInv, Remaining
<1>3. /\ HeadRemoved(output_flow.buffer) \in Seq(Outgoing)
      /\ Len(HeadRemoved(output_flow.buffer)) = 0
  BY <1>1, <1>2, HeadRemovedOfOne
<1>4. "IDLE" \in OutputState
  BY DEF OutputState
<1>5. CASE output_flow' = [output_flow EXCEPT !.state = "IDLE",
                                              !.buffer = HeadRemoved(@)]
  BY <1>1, <1>3, <1>4, <1>5 DEF OutputFlow
<1>6. CASE output_flow' = [output_flow EXCEPT !.state = "IDLE",
                                              !.buffer = HeadRemoved(@),
                                              !.remaining_data = n]
  BY <1>1, <1>3, <1>4, <1>6 DEF OutputFlow
<1>7. QED
  BY <1>5, <1>6

LEMMA OutputRefusedKeeps ==
  ASSUME SenderInv, isotp_out_flow_output, output_refused
  PROVE  SenderInv'
<1>1. /\ timeouts \in [Handler -> Nat]
      /\ Counted(timeouts)
      /\ tx \in [Flow -> Seq(Frame)]
      /\ output_flow.remaining_data \in 0..FF_DL_MAX
      /\ unacked \in DataLength
  BY SenderTypes DEF SenderInv, SenderType, DataLength
<1>2. /\ output_flow.state \in Transmitting
      /\ timeouts["isotp_out_flow_output"] = 1
      /\ Len(tx["output"]) = 0
  BY OutputTimeoutMeansTransmitting DEF isotp_out_flow_output
<1>3. OutputTaken \in 1..output_flow.remaining_data
  BY <1>2, OutputFrameBuilt
<1>4. output_flow.remaining_data - OutputTaken \in DataLength
  BY <1>1, <1>3, TakenFrom
<1>5. output_flow.state # "IDLE" /\ output_flow.state # "WAIT_FC"
  BY <1>2 DEF Transmitting
<1>6. /\ output_flow' \in OutputFlow
      /\ output_flow'.state = "IDLE"
      /\ Len(output_flow'.buffer) = 0
  <2>1. output_flow' = [output_flow EXCEPT !.state = "IDLE", !.buffer = HeadRemoved(@),
                          !.remaining_data = output_flow.remaining_data - OutputTaken]
    BY DEF output_refused
  <2>2. QED
    BY <1>4, <1>5, <2>1, MessageRemoved
<1>7. /\ timeouts' = [timeouts EXCEPT !["isotp_out_flow_output"] = 0]
      /\ timeouts' \in [Handler -> Nat]
  BY <1>1, <1>2, DisarmedTakes DEF isotp_out_flow_output, Handler
<1>8. /\ timeouts'["isotp_out_flow_output"] = 0
      /\ timeouts'["isotp_output_error_handler"] = 0
  BY <1>1, <1>5, <1>7 DEF Handler, SenderInv, OutputCounts
<1>9. unacked > 0
  BY <1>1, <1>2, <1>3, <1>5 DEF SenderInv, Accounted, DataLength
<1>10. QED
  BY <1>1, <1>2, <1>5, <1>6, <1>7, <1>8, <1>9, EndKeeps DEF output_refused

LEMMA OutputTimeoutKeeps ==
  ASSUME SenderInv, isotp_out_flow_output
  PROVE  SenderInv'
<1>1. CASE attached
  BY <1>1, OutputTimeoutMeansTransmitting, OutputAcceptedKeeps, OutputRefusedKeeps
  DEF isotp_out_flow_output
<1>2. CASE ~attached
  <2>1. /\ timeouts \in [Handler -> Nat]
        /\ timeouts["isotp_out_flow_output"] = 1
        /\ output_flow.state \in Transmitting
        /\ Len(tx["output"]) = 0
    BY OutputTimeoutMeansTransmitting DEF isotp_out_flow_output, SenderInv, SenderType
  <2>2. UNCHANGED <<output_flow, tx, attached, outcome, unacked>>
    BY <1>2 DEF isotp_out_flow_output
  <2>3. /\ timeouts' = [timeouts EXCEPT !["isotp_out_flow_output"] = 0]
        /\ timeouts' \in [Handler -> Nat]
    BY <2>1, DisarmedTakes DEF isotp_out_flow_output, Handler
  <2>4. /\ timeouts'["isotp_out_flow_output"] = 0
        /\ timeouts'["isotp_output_error_handler"] = timeouts["isotp_output_error_handler"]
    BY <2>1, <2>3 DEF Handler
  <2>5. SenderType'
    BY <2>2, <2>3 DEF SenderInv, SenderType
  <2>6. OutputCounts'
    BY <1>2, <2>1, <2>2, <2>4 DEF SenderInv, OutputCounts
  <2>7. Remaining' /\ Accounted' /\ ReportedOnce' /\ SentMeansTransmitted'
    BY <2>2 DEF SenderInv, Remaining, Accounted, ReportedOnce, SentMeansTransmitted, Message
  <2>8. QED
    BY <2>5, <2>6, <2>7 DEF SenderInv
<1>3. QED
  BY <1>1, <1>2

(* isotp_sent finds the sender transmitting the one frame of its flow.      *)
LEMMA OutputConfirmed ==
  ASSUME SenderInv, Confirm("output")
  PROVE  /\ output_flow.state \in Transmitting
         /\ timeouts["isotp_out_flow_output"] = 0
         /\ timeouts["isotp_output_error_handler"] = 0
         /\ tx' \in [Flow -> Seq(Frame)]
         /\ Len(tx'["output"]) = 0
         /\ tx'["input"] = tx["input"]
         /\ Len(tx["output"]) = 1
         /\ unacked - Carried(Head(tx["output"])) = output_flow.remaining_data
         /\ unacked > 0
<1>1. /\ Counted(timeouts)
      /\ tx \in [Flow -> Seq(Frame)]
      /\ tx["output"] \in Seq(Frame)
      /\ Len(tx["output"]) \in Nat
      /\ output_flow.remaining_data \in 0..FF_DL_MAX
      /\ unacked \in 0..FF_DL_MAX
  BY SenderTypes DEF SenderInv, SenderType, DataLength
<1>2. Len(tx["output"]) > 0
  BY <1>1 DEF Confirm
<1>3. /\ output_flow.state \in Transmitting
      /\ timeouts["isotp_out_flow_output"] = 0
      /\ Len(tx["output"]) = 1
  <2>1. output_flow.state \in Transmitting
    BY <1>2 DEF SenderInv, OutputCounts
  <2>2. timeouts["isotp_out_flow_output"] + Len(tx["output"]) <= 1
    BY <2>1 DEF SenderInv, OutputCounts
  <2>3. timeouts["isotp_out_flow_output"] \in Nat
    BY <1>1 DEF Counted
  <2>4. Len(tx["output"]) \in Nat /\ Len(tx["output"]) > 0
    BY <1>1, <1>2
  <2>5. QED
    BY <2>1, <2>2, <2>3, <2>4, OneOfTwo
<1>4. timeouts["isotp_output_error_handler"] = 0
  BY <1>3 DEF SenderInv, OutputCounts, Transmitting
<1>5. /\ Tail(tx["output"]) \in Seq(Frame)
      /\ Len(Tail(tx["output"])) = 0
  BY <1>1, <1>3, TailOfOne
<1>6. /\ tx' \in [Flow -> Seq(Frame)]
      /\ tx'["output"] = Tail(tx["output"])
      /\ tx'["input"] = tx["input"]
  BY <1>1, <1>5 DEF Confirm, Flow
<1>7. /\ unacked = output_flow.remaining_data + Carried(Head(tx["output"]))
      /\ Carried(Head(tx["output"])) > 0
  BY <1>3 DEF SenderInv, Accounted, Transmitting
<1>8. Carried(Head(tx["output"])) \in Int
  <2>1. Head(tx["output"]) \in Frame
    BY <1>1, <1>3, TailOfOne
  <2>2. \A f \in Frame : Carried(f) \in Int
    <3>1. ASSUME NEW f \in [type : {"SF"}, dl : 1..SfData, data : Segment]
          PROVE  Carried(f) \in Int
      BY <3>1 DEF Carried
    <3>2. ASSUME NEW f \in [type : {"FF"}, dl : (SfData + 1)..FF_DL_MAX, data : Segment]
          PROVE  Carried(f) \in Int
      BY <3>2 DEF Carried, FfData
    <3>3. ASSUME NEW f \in [type : {"CF"}, sn : SerialNumber, data : Segment]
          PROVE  Carried(f) \in Int
      <4>1. f.data.msg \in Messages /\ f.data.off \in Nat /\ f.type = "CF"
        BY <3>3 DEF Segment
      <4>2. f.data.msg.length \in Int
        BY <4>1, IsoTpAssumption
      <4>3. QED
        BY <4>1, <4>2 DEF Carried, Least, CfData
    <3>4. ASSUME NEW f \in [type : {"FC"}, fs : FlowStatus, bs : Byte]
          PROVE  Carried(f) \in Int
      BY <3>4 DEF Carried
    <3>5. QED
      BY <3>1, <3>2, <3>3, <3>4 DEF Frame
  <2>3. QED
    BY <2>1, <2>2
<1>9. /\ unacked - Carried(Head(tx["output"])) = output_flow.remaining_data
      /\ unacked > 0
  BY <1>1, <1>7, <1>8
<1>10. QED
  BY <1>3, <1>4, <1>5, <1>6, <1>9

LEMMA MessageSentKeeps ==
  ASSUME SenderInv, Acked, MessageSent, output_flow.remaining_data = 0
  PROVE  SenderInv'
<1>1. Confirm("output")
  BY DEF Acked
<1>2. /\ output_flow.state \in Transmitting
      /\ tx' \in [Flow -> Seq(Frame)]
      /\ Len(tx'["output"]) = 0
      /\ unacked' = 0
  BY <1>1, OutputConfirmed DEF Acked
<1>3. /\ UNCHANGED <<timeouts, attached>>
      /\ Report("sent")
  BY DEF MessageSent, Acked
<1>4. /\ timeouts' \in [Handler -> Nat]
      /\ timeouts'["isotp_out_flow_output"] = 0
      /\ timeouts'["isotp_output_error_handler"] = 0
  BY <1>1, <1>3, OutputConfirmed DEF SenderInv, SenderType
<1>5. output_flow.state # "IDLE"
  BY <1>2 DEF Transmitting
<1>6. 0 \in DataLength
  BY DEF DataLength, FF_DL_MAX
<1>7. /\ output_flow' \in OutputFlow
      /\ output_flow'.state = "IDLE"
      /\ Len(output_flow'.buffer) = 0
  BY <1>5, <1>6, MessageRemoved DEF MessageSent
<1>8. QED
  BY <1>2, <1>3, <1>4, <1>5, <1>6, <1>7, EndKeeps

(* What is given up is not complete, however the step is called.           *)
LEMMA MessageLostKeeps ==
  ASSUME SenderInv, MessageLost, output_flow.state # "IDLE",
         timeouts' \in [Handler -> Nat],
         timeouts'["isotp_out_flow_output"] = 0,
         timeouts'["isotp_output_error_handler"] = 0,
         tx' \in [Flow -> Seq(Frame)],
         Len(tx'["output"]) = 0,
         unacked > 0
  PROVE  SenderInv'
<1>1. UNCHANGED <<attached, unacked>> /\ Report("error")
  BY DEF MessageLost
<1>2. 0 \in DataLength /\ unacked \in DataLength
  <2>1. unacked \in DataLength
    BY SenderTypes DEF SenderInv
  <2>2. QED
    BY <2>1 DEF DataLength, FF_DL_MAX
<1>3. /\ output_flow' \in OutputFlow
      /\ output_flow'.state = "IDLE"
      /\ Len(output_flow'.buffer) = 0
  BY <1>2, MessageRemoved DEF MessageLost
<1>4. QED
  BY <1>1, <1>2, <1>3, EndKeeps

LEMMA SentErrorKeeps ==
  ASSUME SenderInv, isotp_sent_error_output
  PROVE  SenderInv'
<1>1. Confirm("output") /\ MessageLost /\ UNCHANGED timeouts
  BY DEF isotp_sent_error_output
<1>2. /\ output_flow.state # "IDLE"
      /\ timeouts["isotp_out_flow_output"] = 0
      /\ timeouts["isotp_output_error_handler"] = 0
      /\ tx' \in [Flow -> Seq(Frame)]
      /\ Len(tx'["output"]) = 0
      /\ unacked > 0
  BY <1>1, OutputConfirmed DEF Transmitting
<1>3. timeouts' \in [Handler -> Nat]
  BY <1>1 DEF SenderInv, SenderType
<1>4. QED
  BY <1>1, <1>2, <1>3, MessageLostKeeps

(* A timeout armed for a sender that has none.                             *)
LEMMA OutputArmed ==
  ASSUME NEW t \in [Handler -> Nat],
         t["isotp_out_flow_output"] = 0, t["isotp_output_error_handler"] = 0,
         t["isotp_in_flow_output"] + t["isotp_input_error_handler"] <= 1
  PROVE  /\ \A h \in {"isotp_out_flow_output", "isotp_output_error_handler"} :
              Armed(t, h) \in [Handler -> Nat]
         /\ Armed(t, "isotp_out_flow_output")["isotp_out_flow_output"] = 1
         /\ Armed(t, "isotp_out_flow_output")["isotp_output_error_handler"] = 0
         /\ Armed(t, "isotp_output_error_handler")["isotp_out_flow_output"] = 0
         /\ Armed(t, "isotp_output_error_handler")["isotp_output_error_handler"] = 1
<1>1. Counted(t)
  BY TimeoutTypes
<1>2. Pending(t) < 2
  BY <1>1 DEF Pending, Counted
<1>3. /\ "isotp_out_flow_output" \in Handler
      /\ "isotp_output_error_handler" \in Handler
  BY DEF Handler
<1>4. /\ Armed(t, "isotp_out_flow_output")
           = [t EXCEPT !["isotp_out_flow_output"] = t["isotp_out_flow_output"] + 1]
      /\ Armed(t, "isotp_out_flow_output") \in [Handler -> Nat]
  BY <1>2, <1>3, ArmedAdds
<1>5. /\ Armed(t, "isotp_output_error_handler")
           = [t EXCEPT !["isotp_output_error_handler"] = t["isotp_output_error_handler"] + 1]
      /\ Armed(t, "isotp_output_error_handler") \in [Handler -> Nat]
  BY <1>2, <1>3, ArmedAdds
<1>6. QED
  BY <1>3, <1>4, <1>5

(* A step after which the same message goes on, with no frame in the driver.*)
LEMMA GoOnKeeps ==
  ASSUME SenderInv,
         output_flow.state # "IDLE",
         output_flow.remaining_data > 0,
         output_flow' \in OutputFlow,
         output_flow'.buffer = output_flow.buffer,
         output_flow'.remaining_data = output_flow.remaining_data,
         \/ /\ output_flow'.state = "TX_CF"
            /\ timeouts'["isotp_out_flow_output"] = 1
            /\ timeouts'["isotp_output_error_handler"] = 0
         \/ /\ output_flow'.state = "WAIT_FC"
            /\ timeouts'["isotp_out_flow_output"] = 0
            /\ timeouts'["isotp_output_error_handler"] = 1,
         timeouts' \in [Handler -> Nat],
         tx' \in [Flow -> Seq(Frame)],
         Len(tx'["output"]) = 0,
         UNCHANGED <<attached, outcome>>,
         unacked' = output_flow.remaining_data
  PROVE  SenderInv'
<1>1. output_flow.remaining_data \in DataLength
  BY SenderTypes DEF SenderInv
<1>2. output_flow.remaining_data \in Nat
  BY SenderTypes DEF SenderInv
<1>3. SenderType'
  <2>1. attached \in BOOLEAN /\ outcome \in {"none", "pending", "sent", "error", "reported twice"}
    BY DEF SenderInv, SenderType
  <2>2. QED
    BY <1>1, <2>1 DEF SenderType
<1>4. OutputCounts'
  <2>1. CASE /\ output_flow'.state = "TX_CF"
             /\ timeouts'["isotp_out_flow_output"] = 1
             /\ timeouts'["isotp_output_error_handler"] = 0
    <3>1. timeouts'["isotp_out_flow_output"] + Len(tx'["output"]) = 1
      BY <2>1
    <3>2. QED
      BY <2>1, <3>1 DEF OutputCounts, Transmitting
  <2>2. CASE /\ output_flow'.state = "WAIT_FC"
             /\ timeouts'["isotp_out_flow_output"] = 0
             /\ timeouts'["isotp_output_error_handler"] = 1
    BY <2>2 DEF OutputCounts, Transmitting
  <2>3. QED
    BY <2>1, <2>2
<1>5. Message' = Message
  BY DEF Message
<1>6. /\ Len(output_flow.buffer) = 1
      /\ output_flow.remaining_data <= Message.length
  BY DEF SenderInv, Remaining
<1>7. Remaining'
  BY <1>5, <1>6 DEF Remaining
<1>8. Accounted'
  BY <1>2 DEF Accounted
<1>9. ReportedOnce' /\ SentMeansTransmitted'
  BY DEF SenderInv, ReportedOnce, SentMeansTransmitted
<1>10. QED
  BY <1>3, <1>4, <1>7, <1>8, <1>9 DEF SenderInv

LEMMA SentFfKeeps ==
  ASSUME SenderInv, InputCounts, sent_ff
  PROVE  SenderInv'
<1>1. /\ output_flow.state = "TX_FF"
      /\ Confirm("output")
      /\ output_flow' = [output_flow EXCEPT !.state = "WAIT_FC"]
      /\ timeouts' = Armed(timeouts, "isotp_output_error_handler")
      /\ UNCHANGED <<attached, outcome>>
      /\ unacked' = unacked - Carried(Head(tx["output"]))
  BY DEF sent_ff, Acked, AwaitFlowControl
<1>2. /\ output_flow \in OutputFlow
      /\ output_flow.buffer \in Seq(Outgoing)
      /\ timeouts \in [Handler -> Nat]
      /\ timeouts["isotp_in_flow_output"] + timeouts["isotp_input_error_handler"] <= 1
  BY SenderTypes, AtMostOneEach DEF SenderInv
<1>3. output_flow.remaining_data > 0
  <2>1. /\ Message.length > SfData
        /\ output_flow.remaining_data = Message.length - FfData
        /\ Len(output_flow.buffer) = 1
    BY <1>1, OutputConfirmed DEF SenderInv, Remaining
  <2>2. Message.length \in Int
    BY <1>2, <2>1, TailOfOne, IsoTpAssumption DEF Message
  <2>3. QED
    BY <2>1, <2>2 DEF SfData, FfData
<1>4. /\ output_flow' \in OutputFlow
      /\ output_flow'.state = "WAIT_FC"
      /\ output_flow'.buffer = output_flow.buffer
      /\ output_flow'.remaining_data = output_flow.remaining_data
  <2>1. "WAIT_FC" \in OutputState
    BY DEF OutputState
  <2>2. QED
    BY <1>1, <1>2, <2>1 DEF OutputFlow
<1>5. /\ timeouts' \in [Handler -> Nat]
      /\ timeouts'["isotp_out_flow_output"] = 0
      /\ timeouts'["isotp_output_error_handler"] = 1
  BY <1>1, <1>2, OutputConfirmed, OutputArmed
<1>6. QED
  BY <1>1, <1>3, <1>4, <1>5, OutputConfirmed, GoOnKeeps

LEMMA SentCfKeeps ==
  ASSUME SenderInv, InputCounts, sent_cf
  PROVE  SenderInv'
<1>1. /\ output_flow.state = "TX_CF"
      /\ output_flow.remaining_data # 0
      /\ Confirm("output")
      /\ UNCHANGED attached
      /\ unacked' = unacked - Carried(Head(tx["output"]))
  BY DEF sent_cf, Acked
<1>2. /\ output_flow \in OutputFlow
      /\ output_flow.cf_sn \in SerialNumber
      /\ output_flow.remaining_data \in Nat
      /\ timeouts \in [Handler -> Nat]
      /\ timeouts["isotp_in_flow_output"] + timeouts["isotp_input_error_handler"] <= 1
  BY SenderTypes, AtMostOneEach DEF SenderInv
<1>3. output_flow.remaining_data > 0
  BY <1>1, <1>2
<1>4. NextSn(output_flow.cf_sn) \in SerialNumber /\ "WAIT_FC" \in OutputState
  BY <1>2 DEF NextSn, SerialNumber, CF_SN_MASK, OutputState
<1>5. CASE BlockGoesOn(output_flow.bs, output_flow.cf_sn)
  <2>1. /\ output_flow' = [output_flow EXCEPT !.cf_sn = NextSn(@)]
        /\ timeouts' = Armed(timeouts, "isotp_out_flow_output")
        /\ UNCHANGED outcome
    BY <1>5 DEF sent_cf
  <2>2. /\ output_flow' \in OutputFlow
        /\ output_flow'.state = "TX_CF"
        /\ output_flow'.buffer = output_flow.buffer
        /\ output_flow'.remaining_data = output_flow.remaining_data
    BY <1>1, <1>2, <1>4, <2>1 DEF OutputFlow
  <2>3. /\ timeouts' \in [Handler -> Nat]
        /\ timeouts'["isotp_out_flow_output"] = 1
        /\ timeouts'["isotp_output_error_handler"] = 0
    BY <1>1, <1>2, <2>1, OutputConfirmed, OutputArmed
  <2>4. QED
    BY <1>1, <1>3, <2>1, <2>2, <2>3, OutputConfirmed, GoOnKeeps
<1>6. CASE ~BlockGoesOn(output_flow.bs, output_flow.cf_sn)
  <2>1. /\ output_flow' = [output_flow EXCEPT !.cf_sn = NextSn(@), !.state = "WAIT_FC"]
        /\ timeouts' = Armed(timeouts, "isotp_output_error_handler")
        /\ UNCHANGED outcome
    BY <1>6 DEF sent_cf, AwaitFlowControl
  <2>2. /\ output_flow' \in OutputFlow
        /\ output_flow'.state = "WAIT_FC"
        /\ output_flow'.buffer = output_flow.buffer
        /\ output_flow'.remaining_data = output_flow.remaining_data
    BY <1>2, <1>4, <2>1 DEF OutputFlow
  <2>3. /\ timeouts' \in [Handler -> Nat]
        /\ timeouts'["isotp_out_flow_output"] = 0
        /\ timeouts'["isotp_output_error_handler"] = 1
    BY <1>1, <1>2, <2>1, OutputConfirmed, OutputArmed
  <2>4. QED
    BY <1>1, <1>3, <2>1, <2>2, <2>3, OutputConfirmed, GoOnKeeps
<1>7. QED
  BY <1>5, <1>6

(* A single frame, or the last consecutive one.                            *)
LEMMA SentLastKeeps ==
  ASSUME SenderInv, sent_sf \/ sent_last_cf
  PROVE  SenderInv'
<1>1. Acked /\ MessageSent
  BY DEF sent_sf, sent_last_cf
<1>2. output_flow.remaining_data = 0
  <2>1. CASE sent_sf
    <3>1. Len(tx["output"]) = 1
      BY <1>1, OutputConfirmed DEF Acked
    <3>2. QED
      BY <2>1, <3>1 DEF sent_sf, SenderInv, Remaining
  <2>2. CASE sent_last_cf
    BY <2>2 DEF sent_last_cf
  <2>3. QED
    BY <2>1, <2>2
<1>3. QED
  BY <1>1, <1>2, MessageSentKeeps

(* While N_Bs is pending the sender waits, and only N_Bs is pending for it. *)
LEMMA Waiting ==
  ASSUME SenderInv, output_flow.state = "WAIT_FC"
  PROVE  /\ timeouts["isotp_output_error_handler"] = 1
         /\ timeouts["isotp_out_flow_output"] = 0
         /\ Len(tx["output"]) = 0
         /\ output_flow.remaining_data > 0
         /\ unacked = output_flow.remaining_data
         /\ LET quiet == Disarmed(timeouts, "isotp_output_error_handler") IN
            /\ quiet \in [Handler -> Nat]
            /\ quiet["isotp_out_flow_output"] = 0
            /\ quiet["isotp_output_error_handler"] = 0
            /\ quiet["isotp_in_flow_output"] = timeouts["isotp_in_flow_output"]
            /\ quiet["isotp_input_error_handler"] = timeouts["isotp_input_error_handler"]
<1>1. /\ timeouts \in [Handler -> Nat]
      /\ output_flow.remaining_data \in Nat
  BY SenderTypes DEF SenderInv
<1>2. /\ timeouts["isotp_output_error_handler"] = 1
      /\ timeouts["isotp_out_flow_output"] = 0
      /\ Len(tx["output"]) = 0
  BY DEF SenderInv, OutputCounts, Transmitting
<1>3. output_flow.remaining_data > 0
  BY DEF SenderInv, Remaining
<1>4. unacked = output_flow.remaining_data
  BY <1>1, <1>2 DEF SenderInv, Accounted
<1>5. "isotp_output_error_handler" \in Handler
  BY DEF Handler
<1>6. /\ Disarmed(timeouts, "isotp_output_error_handler")
           = [timeouts EXCEPT !["isotp_output_error_handler"] = 0]
      /\ Disarmed(timeouts, "isotp_output_error_handler") \in [Handler -> Nat]
  BY <1>1, <1>2, <1>5, DisarmedTakes
<1>7. QED
  BY <1>1, <1>2, <1>3, <1>4, <1>6 DEF Handler

LEMMA OutputErrorKeeps ==
  ASSUME SenderInv, isotp_output_error_handler
  PROVE  SenderInv'
<1>1. /\ timeouts["isotp_output_error_handler"] > 0
      /\ timeouts' = Disarmed(timeouts, "isotp_output_error_handler")
      /\ MessageLost
      /\ UNCHANGED tx
  BY DEF isotp_output_error_handler
<1>2. output_flow.state = "WAIT_FC"
  BY <1>1 DEF SenderInv, OutputCounts
<1>3. output_flow.state # "IDLE" /\ unacked > 0
  BY <1>2, Waiting
<1>4. /\ timeouts' \in [Handler -> Nat]
      /\ timeouts'["isotp_out_flow_output"] = 0
      /\ timeouts'["isotp_output_error_handler"] = 0
  BY <1>1, <1>2, Waiting
<1>5. tx' \in [Flow -> Seq(Frame)] /\ Len(tx'["output"]) = 0
  BY <1>1, <1>2, Waiting DEF SenderInv, SenderType
<1>6. QED
  BY <1>1, <1>3, <1>4, <1>5, MessageLostKeeps

LEMMA ReceivedFcKeeps ==
  ASSUME SenderInv, InputCounts, NEW frame \in Frame, received_fc(frame)
  PROVE  SenderInv'
<1> DEFINE quiet == Disarmed(timeouts, "isotp_output_error_handler")
<1>1. /\ output_flow.state = "WAIT_FC"
      /\ frame.type = "FC"
      /\ UNCHANGED tx
  BY DEF received_fc
<1>2. /\ output_flow \in OutputFlow
      /\ output_flow.n_wft \in Byte
      /\ tx' \in [Flow -> Seq(Frame)]
      /\ timeouts["isotp_in_flow_output"] + timeouts["isotp_input_error_handler"] <= 1
  BY <1>1, SenderTypes, AtMostOneEach DEF SenderInv, SenderType
<1>3. /\ Len(tx'["output"]) = 0
      /\ output_flow.remaining_data > 0
      /\ unacked = output_flow.remaining_data
      /\ quiet \in [Handler -> Nat]
      /\ quiet["isotp_out_flow_output"] = 0
      /\ quiet["isotp_output_error_handler"] = 0
      /\ quiet["isotp_in_flow_output"] + quiet["isotp_input_error_handler"] <= 1
  BY <1>1, <1>2, Waiting
<1>4. CASE /\ output_flow.n_wft # 0
           /\ output_flow' = [output_flow EXCEPT !.n_wft = @ - 1]
           /\ timeouts' = Armed(quiet, "isotp_output_error_handler")
           /\ UNCHANGED <<attached, outcome, unacked>>
  <2>1. output_flow.n_wft - 1 \in Byte
    BY <1>2, <1>4 DEF Byte
  <2>2. /\ output_flow' \in OutputFlow
        /\ output_flow'.state = "WAIT_FC"
        /\ output_flow'.buffer = output_flow.buffer
        /\ output_flow'.remaining_data = output_flow.remaining_data
    BY <1>1, <1>2, <1>4, <2>1 DEF OutputFlow
  <2>3. /\ timeouts' \in [Handler -> Nat]
        /\ timeouts'["isotp_out_flow_output"] = 0
        /\ timeouts'["isotp_output_error_handler"] = 1
    BY <1>3, <1>4, OutputArmed
  <2>4. QED
    BY <1>1, <1>2, <1>3, <1>4, <2>2, <2>3, GoOnKeeps
<1>5. CASE timeouts' = quiet /\ MessageLost
  BY <1>1, <1>2, <1>3, <1>5, MessageLostKeeps
<1>6. CASE /\ frame.fs = "READY"
           /\ output_flow' = [output_flow EXCEPT !.state = "TX_CF", !.bs = frame.bs]
           /\ timeouts' = Armed(quiet, "isotp_out_flow_output")
           /\ UNCHANGED <<attached, outcome, unacked>>
  <2>1. frame.bs \in Byte /\ "TX_CF" \in OutputState
    BY <1>1 DEF Frame, OutputState, Transmitting
  <2>2. /\ output_flow' \in OutputFlow
        /\ output_flow'.state = "TX_CF"
        /\ output_flow'.buffer = output_flow.buffer
        /\ output_flow'.remaining_data = output_flow.remaining_data
    BY <1>1, <1>2, <1>6, <2>1 DEF OutputFlow
  <2>3. /\ timeouts' \in [Handler -> Nat]
        /\ timeouts'["isotp_out_flow_output"] = 1
        /\ timeouts'["isotp_output_error_handler"] = 0
    BY <1>3, <1>6, OutputArmed
  <2>4. QED
    BY <1>1, <1>2, <1>3, <1>6, <2>2, <2>3, GoOnKeeps
<1>7. QED
  BY <1>4, <1>5, <1>6 DEF received_fc

(* A step of the receiver or of the application that leaves the sender be.  *)
LEMMA SenderUntouched ==
  ASSUME SenderInv,
         UNCHANGED <<output_flow, outcome, unacked>>,
         timeouts' \in [Handler -> Nat],
         timeouts'["isotp_out_flow_output"] = timeouts["isotp_out_flow_output"],
         timeouts'["isotp_output_error_handler"] = timeouts["isotp_output_error_handler"],
         tx' \in [Flow -> Seq(Frame)],
         tx'["output"] = tx["output"],
         attached' \in BOOLEAN,
         attached' => attached
  PROVE  SenderInv'
<1>1. SenderType'
  BY DEF SenderInv, SenderType
<1>2. OutputCounts'
  BY DEF SenderInv, OutputCounts
<1>3. Remaining' /\ Accounted' /\ ReportedOnce' /\ SentMeansTransmitted'
  BY DEF SenderInv, Remaining, Accounted, ReportedOnce, SentMeansTransmitted, Message
<1>4. QED
  BY <1>1, <1>2, <1>3 DEF SenderInv
-----------------------------------------------------------------------------
(* The receiver.  A buffer the application holds is never freed under it:   *)
(* either the driver accepts every flow control frame or the application   *)
(* returns buffers from the callback (see RefusalFreesABuffer).            *)
ReferencesKept == ~Holding \/ "input" \notin FailingFlows

Distinct(buffers) ==
  \A i, j \in DOMAIN buffers : buffers[i].id = buffers[j].id => i = j

Owned ==
  /\ Distinct(input_flow.buffer)
  /\ BuffersOwned
  /\ Receiving => input_flow.buffer # <<>> /\ input_flow.remaining_data > 0
  /\ ~Holding => held = {}

(* The receiver's half of TypeOK.                                          *)
ReceiverType ==
  /\ input_flow \in InputFlow
  /\ held \subseteq BufferId

ReceiverInv ==
  /\ ReceiverType
  /\ InputCounts
  /\ Owned

(* Lists of buffers.                                                       *)
LEMMA Pushed ==
  ASSUME NEW s \in Seq(Buffer), Distinct(s), NEW e \in Buffer, e.id \notin Ids(s)
  PROVE  /\ <<e>> \o s \in Seq(Buffer)
         /\ Distinct(<<e>> \o s)
         /\ Ids(<<e>> \o s) = {e.id} \cup Ids(s)
         /\ <<e>> \o s # <<>>
         /\ Head(<<e>> \o s) = e
         /\ HeadRemoved(<<e>> \o s) = s
<1> DEFINE p == <<e>> \o s
<1>1. /\ p \in Seq(Buffer)
      /\ Len(p) = Len(s) + 1
      /\ p[1] = e
      /\ \A i \in 1..Len(s) : p[i + 1] = s[i]
  OBVIOUS
<1>2. \A i \in 1..Len(p) : i = 1 \/ (i - 1 \in 1..Len(s) /\ p[i] = s[i - 1])
  BY <1>1
<1>3. Distinct(p)
  <2>1. ASSUME NEW i \in 1..Len(p), NEW j \in 1..Len(p), p[i].id = p[j].id
        PROVE  i = j
    <3>1. CASE i = 1 /\ j = 1
      BY <3>1
    <3>2. CASE i = 1 /\ j # 1
      BY <1>1, <1>2, <2>1, <3>2 DEF Ids
    <3>3. CASE i # 1 /\ j = 1
      BY <1>1, <1>2, <2>1, <3>3 DEF Ids
    <3>4. CASE i # 1 /\ j # 1
      BY <1>1, <1>2, <2>1, <3>4 DEF Distinct
    <3>5. QED
      BY <3>1, <3>2, <3>3, <3>4
  <2>2. QED
    BY <1>1, <2>1 DEF Distinct
<1>4. Ids(p) = {e.id} \cup Ids(s)
  <2>1. Ids(p) \subseteq {e.id} \cup Ids(s)
    BY <1>1, <1>2 DEF Ids
  <2>2. e.id \in Ids(p)
    BY <1>1 DEF Ids
  <2>3. Ids(s) \subseteq Ids(p)
    <3>1. ASSUME NEW i \in 1..Len(s)
          PROVE  s[i].id \in Ids(p)
      <4>1. i + 1 \in DOMAIN p /\ p[i + 1].id = s[i].id
        BY <1>1
      <4>2. QED
        BY <4>1 DEF Ids
    <3>2. QED
      BY <3>1 DEF Ids
  <2>4. QED
    BY <2>1, <2>2, <2>3
<1>5. Tail(p) = s /\ Head(p) = e /\ p # <<>>
  BY <1>1
<1>6. QED
  BY <1>1, <1>3, <1>4, <1>5 DEF HeadRemoved

LEMMA Popped ==
  ASSUME NEW s \in Seq(Buffer), Distinct(s)
  PROVE  /\ HeadRemoved(s) \in Seq(Buffer)
         /\ Distinct(HeadRemoved(s))
         /\ s # <<>> =>
              /\ Head(s) \in Buffer
              /\ HeadRemoved(s) = Tail(s)
              /\ Ids(s) = {Head(s).id} \cup Ids(Tail(s))
              /\ Head(s).id \notin Ids(Tail(s))
<1>1. CASE s = <<>>
  BY <1>1 DEF HeadRemoved, Distinct
<1>2. CASE s # <<>>
  <2> DEFINE t == Tail(s)
  <2>1. /\ HeadRemoved(s) = t
        /\ t \in Seq(Buffer)
        /\ Head(s) = s[1]
        /\ Head(s) \in Buffer
        /\ Len(s) = Len(t) + 1
        /\ Len(t) \in Nat
        /\ \A i \in 1..Len(t) : t[i] = s[i + 1]
    BY <1>2 DEF HeadRemoved
  <2>2. \A i \in 1..Len(t) : i + 1 \in 1..Len(s) /\ i + 1 # 1
    BY <2>1
  <2>3. Distinct(t)
    BY <2>1, <2>2 DEF Distinct
  <2>4. Ids(s) \subseteq {Head(s).id} \cup Ids(t)
    <3>1. ASSUME NEW i \in 1..Len(s), i # 1
          PROVE  s[i].id \in Ids(t)
      <4>1. i - 1 \in DOMAIN t /\ s[i].id = t[i - 1].id
        BY <2>1, <3>1
      <4>2. QED
        BY <4>1 DEF Ids
    <3>2. ASSUME NEW i \in 1..Len(s)
          PROVE  s[i].id \in {Head(s).id} \cup Ids(t)
      BY <2>1, <3>1
    <3>3. QED
      BY <3>2 DEF Ids
  <2>5. {Head(s).id} \cup Ids(t) \subseteq Ids(s)
    <3>1. 1 \in DOMAIN s
      BY <2>1
    <3>2. QED
      BY <2>1, <2>2, <3>1 DEF Ids
  <2>6. Head(s).id \notin Ids(t)
    <3>1. 1 \in DOMAIN s
      BY <2>1
    <3>2. QED
      BY <2>1, <2>2, <3>1 DEF Ids, Distinct
  <2>7. QED
    BY <2>1, <2>3, <2>4, <2>5, <2>6
<1>3. QED
  BY <1>1, <1>2

LEMMA HeadReplaced ==
  ASSUME NEW s \in Seq(Buffer), Distinct(s), s # <<>>,
         NEW e \in Buffer, e.id = Head(s).id
  PROVE  LET p == <<e>> \o Tail(s) IN
         /\ p \in Seq(Buffer)
         /\ Distinct(p)
         /\ Ids(p) = Ids(s)
         /\ p # <<>>
         /\ Head(p) = e
         /\ HeadRemoved(p) = Tail(s)
<1>1. /\ Tail(s) \in Seq(Buffer)
      /\ Distinct(Tail(s))
      /\ Ids(s) = {e.id} \cup Ids(Tail(s))
      /\ e.id \notin Ids(Tail(s))
  BY Popped
<1>2. QED
  BY <1>1, Pushed

LEMMA UnlinkedOne ==
  ASSUME NEW s \in Seq(Buffer), Distinct(s), NEW b \in Ids(s)
  PROVE  LET u == Unlinked(s, CHOOSE i \in DOMAIN s : s[i].id = b) IN
         /\ u \in Seq(Buffer)
         /\ Distinct(u)
         /\ Ids(u) = Ids(s) \ {b}
         /\ s # <<>> /\ Head(s).id # b =>
              /\ u # <<>>
              /\ Head(u) = Head(s)
              /\ Ids(Tail(u)) = Ids(Tail(s)) \ {b}
<1> DEFINE k == CHOOSE i \in DOMAIN s : s[i].id = b
           u == Unlinked(s, k)
<1>1. k \in 1..Len(s) /\ s[k].id = b
  BY DEF Ids
<1> HIDE DEF k
<1>2. Len(s) \in Nat /\ Len(s) > 0 /\ Len(s) - 1 \in Nat
  BY <1>1
<1>3. /\ u \in Seq(Buffer)
      /\ Len(u) = Len(s) - 1
      /\ \A i \in 1..(Len(s) - 1) : u[i] = IF i < k THEN s[i] ELSE s[i + 1]
  <2>1. u = [j \in 1..(Len(s) - 1) |-> IF j < k THEN s[j] ELSE s[j + 1]]
    BY DEF Unlinked
  <2>2. \A j \in 1..(Len(s) - 1) : (IF j < k THEN s[j] ELSE s[j + 1]) \in Buffer
    BY <1>1, <1>2
  <2>3. QED
    BY <1>2, <2>1, <2>2
<1>4. Distinct(u)
  <2>1. ASSUME NEW i \in 1..(Len(s) - 1), NEW j \in 1..(Len(s) - 1), u[i].id = u[j].id
        PROVE  i = j
    <3> DEFINE m(n) == IF n < k THEN n ELSE n + 1
    <3>1. m(i) \in DOMAIN s /\ m(j) \in DOMAIN s /\ u[i] = s[m(i)] /\ u[j] = s[m(j)]
      BY <1>1, <1>2, <1>3
    <3>2. m(i) = m(j)
      BY <2>1, <3>1 DEF Distinct
    <3>3. QED
      BY <1>1, <1>2, <3>2
  <2>2. DOMAIN u = 1..(Len(s) - 1)
    BY <1>3
  <2>3. QED
    BY <2>1, <2>2 DEF Distinct
<1>5. Ids(u) = Ids(s) \ {b}
  <2>1. ASSUME NEW i \in 1..(Len(s) - 1)
        PROVE  u[i].id \in Ids(s) \ {b}
    <3>1. CASE i < k
      <4>1. i \in DOMAIN s /\ u[i] = s[i] /\ i # k
        BY <1>1, <1>2, <1>3, <3>1
      <4>2. QED
        BY <1>1, <4>1 DEF Ids, Distinct
    <3>2. CASE ~(i < k)
      <4>1. i + 1 \in DOMAIN s /\ u[i] = s[i + 1] /\ i + 1 # k
        BY <1>1, <1>2, <1>3, <3>2
      <4>2. QED
        BY <1>1, <4>1 DEF Ids, Distinct
    <3>3. QED
      BY <3>1, <3>2
  <2>2. ASSUME NEW i \in 1..Len(s), s[i].id # b
        PROVE  s[i].id \in Ids(u)
    <3>1. CASE i < k
      <4>1. i \in DOMAIN u /\ u[i] = s[i]
        BY <1>1, <1>2, <1>3, <3>1
      <4>2. QED
        BY <4>1 DEF Ids
    <3>2. CASE ~(i < k)
      <4>1. i - 1 \in DOMAIN u /\ u[i - 1] = s[i]
        BY <1>1, <1>2, <1>3, <2>2, <3>2
      <4>2. QED
        BY <4>1 DEF Ids
    <3>3. QED
      BY <3>1, <3>2
  <2>3. DOMAIN u = 1..(Len(s) - 1) /\ DOMAIN s = 1..Len(s)
    BY <1>3
  <2>4. Ids(u) \subseteq Ids(s) \ {b}
    BY <2>1, <2>3 DEF Ids
  <2>5. Ids(s) \ {b} \subseteq Ids(u)
    <3>1. Ids(s) = {s[i].id : i \in 1..Len(s)}
      BY <2>3 DEF Ids
    <3>2. QED
      BY <2>2, <3>1
  <2>6. QED
    BY <2>4, <2>5
<1>6. ASSUME s # <<>>, Head(s).id # b
      PROVE  /\ u # <<>>
             /\ Head(u) = Head(s)
             /\ Ids(Tail(u)) = Ids(Tail(s)) \ {b}
  <2>1. Head(s) = s[1] /\ k > 1
    BY <1>1, <1>2, <1>6
  <2>2. u # <<>> /\ Head(u) = u[1] /\ u[1] = s[1]
    BY <1>1, <1>2, <1>3, <2>1
  <2>3. /\ Ids(s) = {Head(s).id} \cup Ids(Tail(s))
        /\ Head(s).id \notin Ids(Tail(s))
    BY <1>6, Popped
  <2>4. /\ Ids(u) = {Head(u).id} \cup Ids(Tail(u))
        /\ Head(u).id \notin Ids(Tail(u))
    BY <1>3, <1>4, <2>2, Popped
  <2>5. QED
    BY <1>5, <1>6, <2>1, <2>2, <2>3, <2>4
<1>7. QED
  BY <1>3, <1>4, <1>5, <1>6 DEF k

(* What a frame brings.                                                    *)
LEMMA FrameFields ==
  ASSUME NEW frame \in Frame
  PROVE  /\ frame.type = "SF" => frame.dl \in 1..SfData /\ frame.data \in Segment
         /\ frame.type = "FF" => frame.dl \in (SfData + 1)..FF_DL_MAX /\ frame.data \in Segment
         /\ frame.type = "CF" => frame.sn \in SerialNumber /\ frame.data \in Segment
  BY DEF Frame

LEMMA NewBufferMade ==
  ASSUME NEW b \in BufferId, NEW n \in 1..FF_DL_MAX, NEW at \in Int, NEW len \in Nat,
         NEW data \in Segment
  PROVE  LET e == NewBuffer(b, n, [at |-> at, len |-> len, data |-> data]) IN
         e \in Buffer /\ e.id = b
<1>1. [at |-> at, len |-> len, data |-> data] \in Chunk
  BY DEF Chunk
<1>2. <<[at |-> at, len |-> len, data |-> data]>> \in Seq(Chunk)
  BY <1>1
<1>3. QED
  BY <1>2 DEF NewBuffer, Buffer

LEMMA ReceiverTypes ==
  ASSUME ReceiverType
  PROVE  /\ input_flow \in InputFlow
         /\ input_flow.state \in InputState
         /\ input_flow.buffer \in Seq(Buffer)
         /\ input_flow.remaining_data \in DataLength
         /\ input_flow.remaining_data \in Nat
         /\ input_flow.cf_sn \in SerialNumber
         /\ input_flow.fs \in FlowStatus
         /\ input_flow.bs \in Byte
<1>1. input_flow \in InputFlow
  BY DEF ReceiverType
<1>2. input_flow.remaining_data \in DataLength
  BY <1>1 DEF InputFlow
<1>3. QED
  BY <1>1, <1>2, LengthIsNat DEF InputFlow

(* A timeout armed for a receiver that has none.                           *)
LEMMA InputArmed ==
  ASSUME NEW t \in [Handler -> Nat],
         t["isotp_in_flow_output"] = 0, t["isotp_input_error_handler"] = 0,
         t["isotp_out_flow_output"] + t["isotp_output_error_handler"] <= 1
  PROVE  /\ \A h \in {"isotp_in_flow_output", "isotp_input_error_handler"} :
              Armed(t, h) \in [Handler -> Nat]
         /\ Armed(t, "isotp_in_flow_output")["isotp_in_flow_output"] = 1
         /\ Armed(t, "isotp_in_flow_output")["isotp_input_error_handler"] = 0
         /\ Armed(t, "isotp_input_error_handler")["isotp_in_flow_output"] = 0
         /\ Armed(t, "isotp_input_error_handler")["isotp_input_error_handler"] = 1
<1>1. Counted(t)
  BY TimeoutTypes
<1>2. Pending(t) < 2
  BY <1>1 DEF Pending, Counted
<1>3. /\ "isotp_in_flow_output" \in Handler
      /\ "isotp_input_error_handler" \in Handler
  BY DEF Handler
<1>4. /\ Armed(t, "isotp_in_flow_output")
           = [t EXCEPT !["isotp_in_flow_output"] = t["isotp_in_flow_output"] + 1]
      /\ Armed(t, "isotp_in_flow_output") \in [Handler -> Nat]
  BY <1>2, <1>3, ArmedAdds
<1>5. /\ Armed(t, "isotp_input_error_handler")
           = [t EXCEPT !["isotp_input_error_handler"] = t["isotp_input_error_handler"] + 1]
      /\ Armed(t, "isotp_input_error_handler") \in [Handler -> Nat]
  BY <1>2, <1>3, ArmedAdds
<1>6. QED
  BY <1>3, <1>4, <1>5

(* Arming or disarming one timeout leaves the others as they are.          *)
LEMMA OthersKept ==
  ASSUME NEW t \in [Handler -> Nat], NEW h \in Handler, NEW g \in Handler, g # h
  PROVE  /\ Armed(t, h)[g] = t[g]
         /\ Armed(t, h) \in [Handler -> Nat]
         /\ Disarmed(t, h)[g] = t[g]
         /\ Disarmed(t, h) \in [Handler -> Nat]
<1>1. Armed(t, h)[g] = t[g] /\ Disarmed(t, h)[g] = t[g]
  BY DEF Armed, Disarmed
<1>2. Armed(t, h) \in [Handler -> Nat]
  BY DEF Armed
<1>3. QED
  BY <1>1, <1>2, DisarmedType

(* The input-side twin of SenderUntouched.                                 *)
LEMMA ReceiverUntouched ==
  ASSUME ReceiverInv,
         UNCHANGED <<input_flow, held>>,
         timeouts'["isotp_in_flow_output"] = timeouts["isotp_in_flow_output"],
         timeouts'["isotp_input_error_handler"] = timeouts["isotp_input_error_handler"],
         tx'["input"] = tx["input"],
         attached' => attached
  PROVE  ReceiverInv'
<1>1. ReceiverType' /\ InputCounts'
  BY DEF ReceiverInv, ReceiverType, InputCounts
<1>2. Owned'
  BY DEF ReceiverInv, Owned, BuffersOwned, Receiving, Distinct
<1>3. QED
  BY <1>1, <1>2 DEF ReceiverInv

(* The message of the head buffer is handed to the application.            *)
LEMMA DeliverKeeps ==
  ASSUME ReceiverInv,
         NEW flow \in InputFlow, flow.state = "IDLE",
         NEW buffers \in Seq(Buffer), Distinct(buffers), buffers # <<>>,
         held = Ids(HeadRemoved(buffers)),
         Deliver(flow, buffers)
  PROVE  /\ ReceiverType'
         /\ Owned'
         /\ input_flow'.state = "IDLE"
<1>1. /\ HeadRemoved(buffers) \in Seq(Buffer)
      /\ Distinct(HeadRemoved(buffers))
      /\ Head(buffers) \in Buffer
      /\ Ids(buffers) = {Head(buffers).id} \cup Ids(HeadRemoved(buffers))
  BY Popped
<1>2. Head(buffers).id \in BufferId
  BY <1>1 DEF Buffer
<1>3. held \subseteq BufferId /\ (~Holding => held = {})
  BY DEF ReceiverInv, ReceiverType, Owned
<1>4. CASE /\ Holding
           /\ input_flow' = [flow EXCEPT !.buffer = buffers]
           /\ held' = held \cup {Head(buffers).id}
  <2>1. /\ input_flow' \in InputFlow
        /\ input_flow'.state = "IDLE"
        /\ input_flow'.buffer = buffers
    BY <1>4 DEF InputFlow
  <2>2. held' = Ids(buffers)
    BY <1>1, <1>4
  <2>3. QED
    BY <1>2, <1>3, <1>4, <2>1, <2>2 DEF ReceiverType, Owned, BuffersOwned, Receiving
<1>5. CASE /\ input_flow' = [flow EXCEPT !.buffer = HeadRemoved(buffers)]
           /\ UNCHANGED held
  <2>1. /\ input_flow' \in InputFlow
        /\ input_flow'.state = "IDLE"
        /\ input_flow'.buffer = HeadRemoved(buffers)
    BY <1>1, <1>5 DEF InputFlow
  <2>2. QED
    BY <1>1, <1>3, <1>5, <2>1 DEF ReceiverType, Owned, BuffersOwned, Receiving
<1>6. QED
  BY <1>4, <1>5 DEF Deliver

LEMMA ReceivedSfKeeps ==
  ASSUME ReceiverInv, NEW frame \in Frame, received_sf(frame)
  PROVE  ReceiverInv'
<1>1. /\ input_flow.state = "IDLE"
      /\ frame.type = "SF"
      /\ UNCHANGED <<timeouts, tx, attached>>
  BY DEF received_sf
<1>2. PICK b \in FreeBuffers :
        Deliver([input_flow EXCEPT !.remaining_data = frame.dl],
                <<NewBuffer(b, frame.dl,
                            [at |-> 0, len |-> frame.dl, data |-> frame.data])>>
                  \o input_flow.buffer)
  BY DEF received_sf
<1> DEFINE e == NewBuffer(b, frame.dl, [at |-> 0, len |-> frame.dl, data |-> frame.data])
           flow == [input_flow EXCEPT !.remaining_data = frame.dl]
<1>3. /\ frame.dl \in 1..FF_DL_MAX
      /\ frame.dl \in DataLength
      /\ frame.dl \in Nat
      /\ frame.data \in Segment
  BY <1>1, FrameFields, SingleFrameLength
<1>4. b \in BufferId /\ b \notin Ids(input_flow.buffer)
  BY DEF FreeBuffers
<1>5. e \in Buffer /\ e.id = b
  BY <1>3, <1>4, NewBufferMade
<1>6. /\ input_flow \in InputFlow
      /\ input_flow.buffer \in Seq(Buffer)
      /\ Distinct(input_flow.buffer)
      /\ held = Ids(input_flow.buffer)
  BY <1>1, ReceiverTypes DEF ReceiverInv, Owned, BuffersOwned, Receiving
<1> HIDE DEF e
<1>7. /\ <<e>> \o input_flow.buffer \in Seq(Buffer)
      /\ Distinct(<<e>> \o input_flow.buffer)
      /\ <<e>> \o input_flow.buffer # <<>>
      /\ HeadRemoved(<<e>> \o input_flow.buffer) = input_flow.buffer
  BY <1>4, <1>5, <1>6, Pushed
<1>8. flow \in InputFlow /\ flow.state = "IDLE"
  BY <1>1, <1>3, <1>6 DEF InputFlow
<1>9. Deliver(flow, <<e>> \o input_flow.buffer)
  BY <1>2 DEF e
<1> HIDE DEF flow
<1>10. ReceiverType' /\ Owned' /\ input_flow'.state = "IDLE"
  BY <1>6, <1>7, <1>8, <1>9, DeliverKeeps
<1>11. InputCounts'
  BY <1>1, <1>10 DEF ReceiverInv, InputCounts
<1>12. QED
  BY <1>10, <1>11 DEF ReceiverInv

(* While a receiver is idle nothing of it is pending.                      *)
LEMMA IdleReceiver ==
  ASSUME ReceiverInv, input_flow.state = "IDLE"
  PROVE  /\ timeouts["isotp_in_flow_output"] = 0
         /\ timeouts["isotp_input_error_handler"] = 0
         /\ Len(tx["input"]) = 0
         /\ held = Ids(input_flow.buffer)
  BY DEF ReceiverInv, InputCounts, Owned, BuffersOwned, Receiving

LEMMA ReceivedFfKeeps ==
  ASSUME SenderInv, ReceiverInv, NEW frame \in Frame, received_ff(frame)
  PROVE  ReceiverInv'
<1>1. /\ input_flow.state = "IDLE"
      /\ frame.type = "FF"
      /\ timeouts' = Armed(timeouts, "isotp_in_flow_output")
      /\ UNCHANGED <<tx, held, attached>>
  BY DEF received_ff
<1>2. /\ timeouts \in [Handler -> Nat]
      /\ timeouts["isotp_out_flow_output"] + timeouts["isotp_output_error_handler"] <= 1
  BY SenderTypes, AtMostOneEach DEF SenderInv, ReceiverInv
<1>3. /\ timeouts'["isotp_in_flow_output"] = 1
      /\ timeouts'["isotp_input_error_handler"] = 0
      /\ Len(tx'["input"]) = 0
      /\ held = Ids(input_flow.buffer)
  BY <1>1, <1>2, IdleReceiver, InputArmed
<1>4. /\ input_flow \in InputFlow
      /\ input_flow.buffer \in Seq(Buffer)
      /\ Distinct(input_flow.buffer)
      /\ held \subseteq BufferId
      /\ ~Holding => held = {}
  BY ReceiverTypes DEF ReceiverInv, ReceiverType, Owned
<1>5. /\ "TX_FC" \in InputState
      /\ "OVERFLOW" \in FlowStatus
      /\ "READY" \in FlowStatus
      /\ 1 \in SerialNumber
      /\ ISOTP_RECEIVE_BS \in Byte
  BY IsoTpAssumption DEF InputState, FlowStatus, SerialNumber, CF_SN_MASK
<1>6. ReceiverType' /\ Owned' /\ input_flow'.state = "TX_FC"
  <2>1. CASE FreeBuffers = {}
    <3>1. input_flow' = [input_flow EXCEPT
            !.fs = "OVERFLOW", !.bs = ISOTP_RECEIVE_BS, !.state = "TX_FC"]
      BY <2>1 DEF received_ff
    <3>2. /\ input_flow' \in InputFlow
          /\ input_flow'.state = "TX_FC"
          /\ input_flow'.fs = "OVERFLOW"
          /\ input_flow'.buffer = input_flow.buffer
      BY <1>4, <1>5, <3>1 DEF InputFlow
    <3>3. QED
      BY <1>1, <1>3, <1>4, <3>2 DEF ReceiverType, Owned, BuffersOwned, Receiving
  <2>2. CASE FreeBuffers # {}
    <3>1. PICK b \in FreeBuffers :
            input_flow' =
              [state |-> "TX_FC",
               buffer |-> <<NewBuffer(b, frame.dl,
                              [at |-> 0, len |-> FfData, data |-> frame.data])>>
                            \o input_flow.buffer,
               remaining_data |-> frame.dl - FfData,
               cf_sn |-> 1, fs |-> "READY", bs |-> ISOTP_RECEIVE_BS]
      BY <2>2 DEF received_ff
    <3> DEFINE e == NewBuffer(b, frame.dl, [at |-> 0, len |-> FfData, data |-> frame.data])
    <3>2. /\ frame.dl \in 1..FF_DL_MAX
          /\ frame.data \in Segment
          /\ frame.dl - FfData \in DataLength
          /\ frame.dl - FfData > 0
          /\ FfData \in Nat
      <4>1. frame.dl \in (SfData + 1)..FF_DL_MAX /\ frame.data \in Segment
        BY <1>1, FrameFields
      <4>2. QED
        BY <4>1, AnnouncedLength
    <3>3. b \in BufferId /\ b \notin Ids(input_flow.buffer)
      BY DEF FreeBuffers
    <3>4. e \in Buffer /\ e.id = b
      BY <3>2, <3>3, NewBufferMade
    <3> HIDE DEF e
    <3>5. /\ <<e>> \o input_flow.buffer \in Seq(Buffer)
          /\ Distinct(<<e>> \o input_flow.buffer)
          /\ <<e>> \o input_flow.buffer # <<>>
          /\ HeadRemoved(<<e>> \o input_flow.buffer) = input_flow.buffer
      BY <1>4, <3>3, <3>4, Pushed
    <3>6. input_flow' = [state |-> "TX_FC", buffer |-> <<e>> \o input_flow.buffer,
                         remaining_data |-> frame.dl - FfData,
                         cf_sn |-> 1, fs |-> "READY", bs |-> ISOTP_RECEIVE_BS]
      BY <3>1 DEF e
    <3>7. /\ input_flow' \in InputFlow
          /\ input_flow'.state = "TX_FC"
          /\ input_flow'.fs = "READY"
          /\ input_flow'.buffer = <<e>> \o input_flow.buffer
          /\ input_flow'.remaining_data = frame.dl - FfData
      BY <1>5, <3>2, <3>5, <3>6 DEF InputFlow
    <3>8. QED
      BY <1>1, <1>3, <1>4, <3>2, <3>5, <3>7
      DEF ReceiverType, Owned, BuffersOwned, Receiving
  <2>3. QED
    BY <2>1, <2>2
<1>7. InputCounts'
  BY <1>3, <1>6 DEF InputCounts
<1>8. QED
  BY <1>6, <1>7 DEF ReceiverInv

(* N_Cr is disarmed when a consecutive frame comes.                        *)
LEMMA AwaitingCf ==
  ASSUME SenderInv, ReceiverInv, input_flow.state = "WAIT_CF"
  PROVE  /\ Quiet \in [Handler -> Nat]
         /\ Quiet["isotp_in_flow_output"] = 0
         /\ Quiet["isotp_input_error_handler"] = 0
         /\ Quiet["isotp_out_flow_output"] + Quiet["isotp_output_error_handler"] <= 1
         /\ Len(tx["input"]) = 0
<1>1. /\ timeouts \in [Handler -> Nat]
      /\ timeouts["isotp_out_flow_output"] + timeouts["isotp_output_error_handler"] <= 1
  BY SenderTypes, AtMostOneEach DEF SenderInv, ReceiverInv
<1>2. /\ timeouts["isotp_input_error_handler"] = 1
      /\ timeouts["isotp_in_flow_output"] = 0
      /\ Len(tx["input"]) = 0
  BY DEF ReceiverInv, InputCounts
<1>3. "isotp_input_error_handler" \in Handler
  BY DEF Handler
<1>4. /\ Quiet = [timeouts EXCEPT !["isotp_input_error_handler"] = 0]
      /\ Quiet \in [Handler -> Nat]
  BY <1>1, <1>2, <1>3, DisarmedTakes DEF Quiet
<1>5. QED
  BY <1>1, <1>2, <1>4 DEF Handler

(* The buffer of a reception that ends is freed, and nothing else is.       *)
LEMMA HeadFreed ==
  ASSUME ReceiverInv, Receiving \/ ~Holding,
         NEW flow \in InputFlow,
         flow.state = "IDLE" \/ (flow.state = "TX_FC" /\ flow.fs = "OVERFLOW"),
         flow.buffer = HeadRemoved(input_flow.buffer),
         input_flow' = flow,
         UNCHANGED held
  PROVE  ReceiverType' /\ Owned'
<1>1. /\ input_flow.buffer \in Seq(Buffer)
      /\ Distinct(input_flow.buffer)
      /\ held \subseteq BufferId
      /\ ~Holding => held = {}
  BY ReceiverTypes DEF ReceiverInv, ReceiverType, Owned
<1>2. /\ HeadRemoved(input_flow.buffer) \in Seq(Buffer)
      /\ Distinct(HeadRemoved(input_flow.buffer))
  BY <1>1, Popped
<1>3. held = Ids(HeadRemoved(input_flow.buffer))
  <2>1. CASE Receiving
    BY <2>1 DEF ReceiverInv, Owned, BuffersOwned
  <2>2. CASE ~Receiving /\ ~Holding
    <3>1. Ids(input_flow.buffer) = {}
      BY <1>1, <2>2 DEF ReceiverInv, Owned, BuffersOwned
    <3>2. input_flow.buffer = <<>>
      BY <1>1, <3>1, Popped
    <3>3. HeadRemoved(input_flow.buffer) = input_flow.buffer
      BY <3>2 DEF HeadRemoved
    <3>4. QED
      BY <1>1, <2>2, <3>1, <3>3
  <2>3. QED
    BY <2>1, <2>2
<1>4. QED
  BY <1>1, <1>2, <1>3 DEF ReceiverType, Owned, BuffersOwned, Receiving

LEMMA WrongCfKeeps ==
  ASSUME SenderInv, ReceiverInv, NEW frame, received_wrong_cf(frame)
  PROVE  ReceiverInv'
<1>1. /\ input_flow.state = "WAIT_CF"
      /\ input_flow' = [input_flow EXCEPT !.state = "TX_FC", !.fs = "OVERFLOW",
                                          !.buffer = HeadRemoved(@)]
      /\ timeouts' = Armed(Quiet, "isotp_in_flow_output")
      /\ UNCHANGED <<tx, held, attached>>
  BY DEF received_wrong_cf
<1>2. /\ timeouts'["isotp_in_flow_output"] = 1
      /\ timeouts'["isotp_input_error_handler"] = 0
      /\ Len(tx'["input"]) = 0
  BY <1>1, AwaitingCf, InputArmed
<1>3. /\ input_flow \in InputFlow
      /\ HeadRemoved(input_flow.buffer) \in Seq(Buffer)
  BY ReceiverTypes, Popped DEF ReceiverInv, Owned
<1>4. /\ input_flow' \in InputFlow
      /\ input_flow'.state = "TX_FC"
      /\ input_flow'.fs = "OVERFLOW"
      /\ input_flow'.buffer = HeadRemoved(input_flow.buffer)
  <2>1. "TX_FC" \in InputState /\ "OVERFLOW" \in FlowStatus
    BY DEF InputState, FlowStatus
  <2>2. QED
    BY <1>1, <1>3, <2>1 DEF InputFlow
<1>5. Receiving
  BY <1>1 DEF Receiving
<1>6. ReceiverType' /\ Owned'
  BY <1>1, <1>4, <1>5, HeadFreed
<1>7. InputCounts'
  BY <1>2, <1>4 DEF InputCounts
<1>8. QED
  BY <1>6, <1>7 DEF ReceiverInv

(* The frame's bytes join the head buffer, which stays the receiver's.     *)
LEMMA StoredInHead ==
  ASSUME ReceiverInv, Receiving, NEW data \in Segment
  PROVE  /\ Stored(data) \in Seq(Buffer)
         /\ Distinct(Stored(data))
         /\ Stored(data) # <<>>
         /\ held = Ids(HeadRemoved(Stored(data)))
         /\ StoredLength \in 1..input_flow.remaining_data
         /\ input_flow.remaining_data - StoredLength \in DataLength
<1> DEFINE s == input_flow.buffer
           chunk == [at |-> Head(s).length - input_flow.remaining_data,
                     len |-> StoredLength, data |-> data]
           e == [Head(s) EXCEPT !.payload = Append(@, chunk)]
<1>1. /\ s \in Seq(Buffer)
      /\ Distinct(s)
      /\ s # <<>>
      /\ held = Ids(HeadRemoved(s))
      /\ input_flow.remaining_data > 0
      /\ input_flow.remaining_data \in 0..FF_DL_MAX
  BY ReceiverTypes DEF ReceiverInv, Owned, BuffersOwned, DataLength
<1>2. Head(s) \in Buffer /\ HeadRemoved(s) = Tail(s)
  BY <1>1, Popped
<1>3. StoredLength \in 1..input_flow.remaining_data /\ StoredLength \in Nat
  BY <1>1, LeastPositive DEF StoredLength
<1>4. chunk \in Chunk
  <2>1. Head(s).length - input_flow.remaining_data \in Int
    BY <1>1, <1>2 DEF Buffer
  <2>2. QED
    BY <1>3, <2>1 DEF Chunk
<1>5. e \in Buffer /\ e.id = Head(s).id
  <2> HIDE DEF chunk, s
  <2>1. Append(Head(s).payload, chunk) \in Seq(Chunk)
    BY <1>2, <1>4 DEF Buffer
  <2>2. QED
    BY <1>2, <2>1 DEF Buffer
<1>6. Stored(data) = <<e>> \o Tail(s)
  BY DEF Stored
<1> HIDE DEF e, s
<1>7. /\ Stored(data) \in Seq(Buffer)
      /\ Distinct(Stored(data))
      /\ Stored(data) # <<>>
      /\ HeadRemoved(Stored(data)) = Tail(s)
  BY <1>1, <1>5, <1>6, HeadReplaced
<1>8. input_flow.remaining_data - StoredLength \in DataLength
  BY <1>1, <1>3, TakenFrom
<1>9. QED
  BY <1>1, <1>2, <1>3, <1>7, <1>8

LEMMA LastCfKeeps ==
  ASSUME SenderInv, ReceiverInv, NEW frame \in Frame, received_last_cf(frame)
  PROVE  ReceiverInv'
<1> DEFINE flow == [input_flow EXCEPT !.state = "IDLE", !.remaining_data = 0]
<1>1. /\ input_flow.state = "WAIT_CF"
      /\ frame.type = "CF"
      /\ Deliver(flow, Stored(frame.data))
      /\ timeouts' = Quiet
      /\ UNCHANGED <<tx, attached>>
  BY DEF received_last_cf, CfMatches
<1>2. Receiving /\ frame.data \in Segment
  BY <1>1, FrameFields DEF Receiving
<1>3. flow \in InputFlow /\ flow.state = "IDLE"
  <2>1. input_flow \in InputFlow
    BY DEF ReceiverInv, ReceiverType
  <2>2. "IDLE" \in InputState /\ 0 \in DataLength
    BY DEF InputState, DataLength, FF_DL_MAX
  <2>3. QED
    BY <2>1, <2>2 DEF InputFlow
<1> HIDE DEF flow
<1>4. ReceiverType' /\ Owned' /\ input_flow'.state = "IDLE"
  BY <1>1, <1>2, <1>3, StoredInHead, DeliverKeeps
<1>5. InputCounts'
  BY <1>1, <1>4, AwaitingCf DEF InputCounts
<1>6. QED
  BY <1>4, <1>5 DEF ReceiverInv

LEMMA CfKeeps ==
  ASSUME SenderInv, ReceiverInv, NEW frame \in Frame, received_cf(frame)
  PROVE  ReceiverInv'
<1> DEFINE goesOn == BlockGoesOn(input_flow.bs, input_flow.cf_sn)
<1>1. /\ input_flow.state = "WAIT_CF"
      /\ frame.type = "CF"
      /\ input_flow.remaining_data # StoredLength
      /\ input_flow' = [input_flow EXCEPT
           !.buffer = Stored(frame.data),
           !.remaining_data = @ - StoredLength,
           !.cf_sn = NextSn(@),
           !.fs = IF goesOn THEN @ ELSE "READY",
           !.state = IF goesOn THEN "WAIT_CF" ELSE "TX_FC"]
      /\ timeouts' = Armed(Quiet, IF goesOn THEN "isotp_input_error_handler"
                                            ELSE "isotp_in_flow_output")
      /\ UNCHANGED <<tx, held, attached>>
  BY DEF received_cf, CfMatches
<1>2. Receiving /\ frame.data \in Segment
  BY <1>1, FrameFields DEF Receiving
<1>3. /\ Stored(frame.data) \in Seq(Buffer)
      /\ Distinct(Stored(frame.data))
      /\ Stored(frame.data) # <<>>
      /\ held = Ids(HeadRemoved(Stored(frame.data)))
      /\ StoredLength \in 1..input_flow.remaining_data
      /\ input_flow.remaining_data - StoredLength \in DataLength
  BY <1>2, StoredInHead
<1>4. /\ input_flow \in InputFlow
      /\ input_flow.remaining_data \in Nat
      /\ input_flow.cf_sn \in SerialNumber
      /\ input_flow.fs \in FlowStatus
      /\ held \subseteq BufferId
      /\ ~Holding => held = {}
  BY ReceiverTypes DEF ReceiverInv, ReceiverType, Owned
<1>5. input_flow.remaining_data - StoredLength > 0
  BY <1>1, <1>3, <1>4
<1>6. /\ NextSn(input_flow.cf_sn) \in SerialNumber
      /\ (IF goesOn THEN input_flow.fs ELSE "READY") \in FlowStatus
      /\ (IF goesOn THEN "WAIT_CF" ELSE "TX_FC") \in InputState
  BY <1>4 DEF NextSn, SerialNumber, CF_SN_MASK, FlowStatus, InputState
<1>7. /\ input_flow' \in InputFlow
      /\ input_flow'.state = (IF goesOn THEN "WAIT_CF" ELSE "TX_FC")
      /\ input_flow'.fs = (IF goesOn THEN input_flow.fs ELSE "READY")
      /\ input_flow'.buffer = Stored(frame.data)
      /\ input_flow'.remaining_data = input_flow.remaining_data - StoredLength
  <2> DEFINE state == IF goesOn THEN "WAIT_CF" ELSE "TX_FC"
             fs    == IF goesOn THEN input_flow.fs ELSE "READY"
             left  == input_flow.remaining_data - StoredLength
             sn    == NextSn(input_flow.cf_sn)
             bufs  == Stored(frame.data)
  <2>1. /\ state \in InputState /\ fs \in FlowStatus /\ left \in DataLength
        /\ sn \in SerialNumber /\ bufs \in Seq(Buffer)
    BY <1>3, <1>6
  <2>2. input_flow' = [input_flow EXCEPT !.buffer = bufs, !.remaining_data = left,
                                         !.cf_sn = sn, !.fs = fs, !.state = state]
    BY <1>1
  <2> HIDE DEF state, fs, left, sn, bufs
  <2>3. /\ input_flow' \in InputFlow
        /\ input_flow'.state = state
        /\ input_flow'.fs = fs
        /\ input_flow'.buffer = bufs
        /\ input_flow'.remaining_data = left
    BY <1>4, <2>1, <2>2 DEF InputFlow
  <2>4. QED
    BY <2>3 DEF state, fs, left, bufs
<1>8. Receiving'
  BY <1>7 DEF Receiving
<1>9. ReceiverType' /\ Owned'
  BY <1>1, <1>3, <1>4, <1>5, <1>7, <1>8 DEF ReceiverType, Owned, BuffersOwned
<1>10. InputCounts'
  <2>1. CASE goesOn
    <3>1. /\ timeouts'["isotp_in_flow_output"] = 0
          /\ timeouts'["isotp_input_error_handler"] = 1
          /\ Len(tx'["input"]) = 0
          /\ input_flow'.state = "WAIT_CF"
      BY <1>1, <1>7, <2>1, AwaitingCf, InputArmed
    <3>2. QED
      BY <3>1 DEF InputCounts
  <2>2. CASE ~goesOn
    <3>1. /\ timeouts'["isotp_in_flow_output"] = 1
          /\ timeouts'["isotp_input_error_handler"] = 0
          /\ Len(tx'["input"]) = 0
          /\ input_flow'.state = "TX_FC"
      BY <1>1, <1>7, <2>2, AwaitingCf, InputArmed
    <3>2. QED
      BY <3>1 DEF InputCounts
  <2>3. QED
    BY <2>1, <2>2
<1>11. QED
  BY <1>9, <1>10 DEF ReceiverInv

(* isotp_in_flow_output finds the receiver in TX_FC and no frame of it.     *)
LEMMA InputTimeout ==
  ASSUME SenderInv, ReceiverInv, isotp_in_flow_output
  PROVE  /\ input_flow.state = "TX_FC"
         /\ Len(tx["input"]) = 0
         /\ timeouts' \in [Handler -> Nat]
         /\ timeouts'["isotp_in_flow_output"] = 0
         /\ timeouts'["isotp_input_error_handler"] = 0
<1>1. /\ timeouts["isotp_in_flow_output"] > 0
      /\ timeouts' = Disarmed(timeouts, "isotp_in_flow_output")
  BY DEF isotp_in_flow_output
<1>2. timeouts \in [Handler -> Nat] /\ Counted(timeouts) /\ Len(tx["input"]) \in Nat
  BY SenderTypes DEF SenderInv
<1>3. /\ input_flow.state = "TX_FC"
      /\ timeouts["isotp_in_flow_output"] = 1
      /\ Len(tx["input"]) = 0
  BY <1>1, <1>2 DEF ReceiverInv, InputCounts, Counted
<1>4. timeouts["isotp_input_error_handler"] = 0
  BY <1>3 DEF ReceiverInv, InputCounts
<1>5. "isotp_in_flow_output" \in Handler
  BY DEF Handler
<1>6. /\ timeouts' = [timeouts EXCEPT !["isotp_in_flow_output"] = 0]
      /\ timeouts' \in [Handler -> Nat]
  BY <1>1, <1>2, <1>3, <1>5, DisarmedTakes
<1>7. QED
  BY <1>2, <1>3, <1>4, <1>6 DEF Handler

LEMMA ReceptionLostKeeps ==
  ASSUME ReceiverInv, Receiving \/ ~Holding, ReceptionLost,
         timeouts'["isotp_in_flow_output"] = 0,
         timeouts'["isotp_input_error_handler"] = 0,
         Len(tx'["input"]) = 0
  PROVE  ReceiverInv'
<1>1. /\ input_flow' = [input_flow EXCEPT !.state = "IDLE", !.buffer = HeadRemoved(@)]
      /\ UNCHANGED held
  BY DEF ReceptionLost
<1>2. /\ input_flow \in InputFlow
      /\ HeadRemoved(input_flow.buffer) \in Seq(Buffer)
  BY ReceiverTypes, Popped DEF ReceiverInv, Owned
<1>3. /\ input_flow' \in InputFlow
      /\ input_flow'.state = "IDLE"
      /\ input_flow'.buffer = HeadRemoved(input_flow.buffer)
  <2>1. "IDLE" \in InputState
    BY DEF InputState
  <2>2. QED
    BY <1>1, <1>2, <2>1 DEF InputFlow
<1>4. ReceiverType' /\ Owned'
  BY <1>1, <1>3, HeadFreed
<1>5. InputCounts'
  BY <1>3 DEF InputCounts
<1>6. QED
  BY <1>4, <1>5 DEF ReceiverInv

LEMMA InputTimeoutKeeps ==
  ASSUME ReferencesKept, SenderInv, ReceiverInv, isotp_in_flow_output
  PROVE  ReceiverInv' /\ tx' \in [Flow -> Seq(Frame)] /\ tx'["output"] = tx["output"]
<1>1. /\ input_flow.state = "TX_FC"
      /\ Len(tx["input"]) = 0
      /\ timeouts'["isotp_in_flow_output"] = 0
      /\ timeouts'["isotp_input_error_handler"] = 0
  BY InputTimeout
<1>2. tx \in [Flow -> Seq(Frame)] /\ tx["input"] \in Seq(Frame)
  BY SenderTypes DEF SenderInv, SenderType
<1>3. CASE attached /\ flow_control_accepted
  <2>1. /\ tx' = [tx EXCEPT !["input"] = Append(@, FlowControl)]
        /\ UNCHANGED <<input_flow, held, attached>>
    BY <1>3 DEF flow_control_accepted
  <2>2. FlowControl \in Frame
    <3>1. input_flow.fs \in FlowStatus /\ input_flow.bs \in Byte
      BY ReceiverTypes DEF ReceiverInv
    <3>2. QED
      BY <3>1 DEF FlowControl, Frame
  <2>3. /\ Append(tx["input"], FlowControl) \in Seq(Frame)
        /\ Len(Append(tx["input"], FlowControl)) = 1
    BY <1>1, <1>2, <2>2, OneOnEmpty
  <2>4. /\ tx' \in [Flow -> Seq(Frame)]
        /\ tx'["output"] = tx["output"]
        /\ Len(tx'["input"]) = 1
    BY <1>2, <2>1, <2>3 DEF Flow
  <2>5. InputCounts'
    BY <1>1, <2>1, <2>4 DEF InputCounts
  <2>6. ReceiverType' /\ Owned'
    BY <2>1 DEF ReceiverInv, ReceiverType, Owned, BuffersOwned, Receiving, Distinct
  <2>7. QED
    BY <2>4, <2>5, <2>6 DEF ReceiverInv
<1>4. CASE attached /\ flow_control_refused
  <2>1. /\ ReceptionLost
        /\ UNCHANGED tx
        /\ ~Holding
    BY <1>4 DEF flow_control_refused, ReferencesKept
  <2>2. QED
    BY <1>1, <1>2, <2>1, ReceptionLostKeeps
<1>5. CASE ~attached
  <2>1. UNCHANGED <<input_flow, held, attached, tx>>
    BY <1>5 DEF isotp_in_flow_output
  <2>2. InputCounts'
    BY <1>1, <1>5, <2>1 DEF InputCounts
  <2>3. ReceiverType' /\ Owned'
    BY <2>1 DEF ReceiverInv, ReceiverType, Owned, BuffersOwned, Receiving, Distinct
  <2>4. QED
    BY <1>2, <2>1, <2>2, <2>3 DEF ReceiverInv
<1>6. QED
  BY <1>1, <1>3, <1>4, <1>5 DEF isotp_in_flow_output

(* isotp_sent finds the receiver in TX_FC.                                 *)
LEMMA InputConfirmed ==
  ASSUME SenderInv, ReceiverInv, Confirm("input")
  PROVE  /\ input_flow.state = "TX_FC"
         /\ timeouts["isotp_in_flow_output"] = 0
         /\ timeouts["isotp_input_error_handler"] = 0
         /\ tx' \in [Flow -> Seq(Frame)]
         /\ Len(tx'["input"]) = 0
         /\ tx'["output"] = tx["output"]
<1>1. /\ Counted(timeouts)
      /\ tx \in [Flow -> Seq(Frame)]
      /\ tx["input"] \in Seq(Frame)
      /\ Len(tx["input"]) \in Nat
  BY SenderTypes DEF SenderInv, SenderType
<1>2. Len(tx["input"]) > 0
  BY <1>1 DEF Confirm
<1>3. input_flow.state = "TX_FC"
  BY <1>2 DEF ReceiverInv, InputCounts
<1>4. timeouts["isotp_in_flow_output"] = 0 /\ Len(tx["input"]) = 1
  <2>1. timeouts["isotp_in_flow_output"] + Len(tx["input"]) <= 1
    BY <1>3 DEF ReceiverInv, InputCounts
  <2>2. timeouts["isotp_in_flow_output"] \in Nat
    BY <1>1 DEF Counted
  <2>3. QED
    BY <1>1, <1>2, <2>1, <2>2, OneOfTwo
<1>5. timeouts["isotp_input_error_handler"] = 0
  BY <1>3 DEF ReceiverInv, InputCounts
<1>6. /\ Tail(tx["input"]) \in Seq(Frame)
      /\ Len(Tail(tx["input"])) = 0
  BY <1>1, <1>4, TailOfOne
<1>7. /\ tx' \in [Flow -> Seq(Frame)]
      /\ tx'["input"] = Tail(tx["input"])
      /\ tx'["output"] = tx["output"]
  BY <1>1, <1>6 DEF Confirm, Flow
<1>8. QED
  BY <1>3, <1>4, <1>5, <1>6, <1>7

LEMMA SentFcKeeps ==
  ASSUME SenderInv, ReceiverInv, sent_fc
  PROVE  ReceiverInv'
<1>1. /\ Confirm("input")
      /\ UNCHANGED <<held, attached>>
  BY DEF sent_fc
<1>2. /\ input_flow \in InputFlow
      /\ timeouts \in [Handler -> Nat]
      /\ timeouts["isotp_out_flow_output"] + timeouts["isotp_output_error_handler"] <= 1
  BY SenderTypes, AtMostOneEach DEF SenderInv, ReceiverInv, ReceiverType
<1>3. "IDLE" \in InputState /\ "WAIT_CF" \in InputState
  BY DEF InputState
<1>4. CASE input_flow.fs # "READY"
  <2>1. input_flow' = [input_flow EXCEPT !.state = "IDLE"] /\ UNCHANGED timeouts
    BY <1>4 DEF sent_fc
  <2>2. /\ input_flow' \in InputFlow
        /\ input_flow'.state = "IDLE"
        /\ input_flow'.buffer = input_flow.buffer
    BY <1>2, <1>3, <2>1 DEF InputFlow
  <2>3. InputCounts'
    BY <1>1, <2>1, <2>2, InputConfirmed DEF InputCounts
  <2>4. ReceiverType' /\ Owned'
    BY <1>1, <1>4, <2>2, InputConfirmed
    DEF ReceiverInv, ReceiverType, Owned, BuffersOwned, Receiving
  <2>5. QED
    BY <2>3, <2>4 DEF ReceiverInv
<1>5. CASE input_flow.fs = "READY"
  <2>1. /\ input_flow' = [input_flow EXCEPT !.state = "WAIT_CF"]
        /\ timeouts' = Armed(timeouts, "isotp_input_error_handler")
    BY <1>5 DEF sent_fc
  <2>2. /\ input_flow' \in InputFlow
        /\ input_flow'.state = "WAIT_CF"
        /\ input_flow'.buffer = input_flow.buffer
        /\ input_flow'.remaining_data = input_flow.remaining_data
    BY <1>2, <1>3, <2>1 DEF InputFlow
  <2>3. InputCounts'
    BY <1>1, <1>2, <2>1, <2>2, InputConfirmed, InputArmed DEF InputCounts
  <2>4. ReceiverType' /\ Owned'
    BY <1>1, <1>5, <2>2, InputConfirmed
    DEF ReceiverInv, ReceiverType, Owned, BuffersOwned, Receiving
  <2>5. QED
    BY <2>3, <2>4 DEF ReceiverInv
<1>6. QED
  BY <1>4, <1>5

LEMMA SentErrorInputKeeps ==
  ASSUME ReferencesKept, SenderInv, ReceiverInv, isotp_sent_error_input
  PROVE  ReceiverInv'
<1>1. /\ Confirm("input")
      /\ ReceptionLost
      /\ UNCHANGED timeouts
      /\ ~Holding
  BY DEF isotp_sent_error_input, ReferencesKept
<1>2. QED
  BY <1>1, InputConfirmed, ReceptionLostKeeps

LEMMA InputErrorKeeps ==
  ASSUME SenderInv, ReceiverInv, isotp_input_error_handler
  PROVE  ReceiverInv'
<1>1. /\ timeouts["isotp_input_error_handler"] > 0
      /\ timeouts' = Quiet
      /\ ReceptionLost
      /\ UNCHANGED tx
  BY DEF isotp_input_error_handler, Quiet
<1>2. input_flow.state = "WAIT_CF"
  BY <1>1 DEF ReceiverInv, InputCounts
<1>3. Receiving
  BY <1>2 DEF Receiving
<1>4. QED
  BY <1>1, <1>2, <1>3, AwaitingCf, ReceptionLostKeeps

LEMMA ReturnedKeeps ==
  ASSUME ReceiverInv, NEW b \in BufferId, isotp_received(b)
  PROVE  ReceiverInv'
<1> DEFINE s == input_flow.buffer
           u == Unlinked(s, CHOOSE i \in DOMAIN s : s[i].id = b)
<1>1. /\ b \in held
      /\ held' = held \ {b}
      /\ input_flow' = [input_flow EXCEPT !.buffer = IF b \in Ids(s) THEN u ELSE s]
      /\ UNCHANGED <<timeouts, tx, attached>>
  BY DEF isotp_received
<1>2. /\ s \in Seq(Buffer)
      /\ Distinct(s)
      /\ held = IF Receiving THEN Ids(HeadRemoved(s)) ELSE Ids(s)
      /\ Receiving => s # <<>> /\ input_flow.remaining_data > 0
      /\ held \subseteq BufferId
      /\ ~Holding => held = {}
      /\ input_flow \in InputFlow
  BY ReceiverTypes DEF ReceiverInv, ReceiverType, Owned, BuffersOwned
<1> HIDE DEF s, u
<1>3. b \in Ids(s) /\ (Receiving => Head(s).id # b /\ HeadRemoved(s) = Tail(s))
  <2>1. CASE Receiving
    <3>1. s # <<>> /\ b \in Ids(HeadRemoved(s))
      BY <1>1, <1>2, <2>1
    <3>2. /\ HeadRemoved(s) = Tail(s)
          /\ Ids(s) = {Head(s).id} \cup Ids(Tail(s))
          /\ Head(s).id \notin Ids(Tail(s))
      BY <1>2, <3>1, Popped
    <3>3. QED
      BY <3>1, <3>2
  <2>2. CASE ~Receiving
    BY <1>1, <1>2, <2>2
  <2>3. QED
    BY <2>1, <2>2
<1>4. /\ u \in Seq(Buffer)
      /\ Distinct(u)
      /\ Ids(u) = Ids(s) \ {b}
      /\ Receiving => u # <<>> /\ Ids(Tail(u)) = Ids(Tail(s)) \ {b}
  BY <1>2, <1>3, UnlinkedOne DEF u
<1>5. /\ input_flow' \in InputFlow
      /\ input_flow'.buffer = u
      /\ input_flow'.state = input_flow.state
      /\ input_flow'.fs = input_flow.fs
      /\ input_flow'.remaining_data = input_flow.remaining_data
  BY <1>1, <1>2, <1>3, <1>4 DEF InputFlow
<1>6. Receiving' <=> Receiving
  BY <1>5 DEF Receiving
<1>7. held' = IF Receiving THEN Ids(HeadRemoved(u)) ELSE Ids(u)
  BY <1>1, <1>2, <1>3, <1>4 DEF HeadRemoved
<1>8. ReceiverType' /\ Owned'
  BY <1>1, <1>2, <1>4, <1>5, <1>6, <1>7 DEF ReceiverType, Owned, BuffersOwned
<1>9. InputCounts'
  BY <1>1, <1>5 DEF ReceiverInv, InputCounts
<1>10. QED
  BY <1>8, <1>9 DEF ReceiverInv
-----------------------------------------------------------------------------
(* The inductive invariant: both halves, for each needs the other's count   *)
(* of timeouts to know that lwcan_timeout finds a slot.                    *)
Inv == SenderInv /\ ReceiverInv

LEMMA InitInv == Init => Inv
<1> SUFFICES ASSUME Init PROVE Inv
  OBVIOUS
<1>1. /\ "IDLE" \in OutputState /\ "IDLE" \in InputState
      /\ 0 \in DataLength /\ 0 \in SerialNumber /\ 0 \in Byte
      /\ "READY" \in FlowStatus
  BY DEF OutputState, InputState, DataLength, FF_DL_MAX, SerialNumber, CF_SN_MASK,
         Byte, FlowStatus
<1>2. /\ output_flow \in OutputFlow
      /\ output_flow.state = "IDLE"
      /\ output_flow.buffer = <<>>
  BY <1>1 DEF Init, OutputFlow
<1>3. /\ input_flow \in InputFlow
      /\ input_flow.state = "IDLE"
      /\ input_flow.buffer = <<>>
  BY <1>1 DEF Init, InputFlow
<1>4. /\ timeouts \in [Handler -> Nat]
      /\ tx \in [Flow -> Seq(Frame)]
      /\ \A h \in Handler : timeouts[h] = 0
      /\ tx["output"] = <<>> /\ tx["input"] = <<>>
  BY DEF Init, Flow
<1>5. SenderType
  BY <1>1, <1>2, <1>4 DEF Init, SenderType
<1>6. OutputCounts /\ InputCounts
  BY <1>2, <1>3, <1>4 DEF OutputCounts, InputCounts, Handler, Transmitting
<1>7. Remaining /\ Accounted
  BY <1>2, <1>4 DEF Remaining, Accounted
<1>8. ReportedOnce /\ SentMeansTransmitted
  BY <1>2 DEF Init, ReportedOnce, SentMeansTransmitted
<1>9. ReceiverType
  BY <1>3 DEF Init, ReceiverType
<1>10. Owned
  BY <1>3 DEF Init, Owned, Distinct, BuffersOwned, Receiving, Ids
<1>11. QED
  BY <1>5, <1>6, <1>7, <1>8, <1>9, <1>10 DEF Inv, SenderInv, ReceiverInv

(* What a step of the sender leaves alone.                                 *)
LEMMA SenderStepsLeaveReceiver ==
  ASSUME Inv,
         \/ \E m \in Outgoing : isotp_send(m)
         \/ isotp_out_flow_output
         \/ isotp_output_error_handler
         \/ sent_sf \/ sent_ff \/ sent_cf \/ sent_last_cf
         \/ isotp_sent_error_output
         \/ \E frame \in Frame : received_fc(frame)
  PROVE  ReceiverInv'
<1>1. /\ timeouts \in [Handler -> Nat]
      /\ tx \in [Flow -> Seq(Frame)]
  BY DEF Inv, SenderInv, SenderType
<1>2. /\ "isotp_out_flow_output" \in Handler
      /\ "isotp_output_error_handler" \in Handler
      /\ "isotp_in_flow_output" \in Handler
      /\ "isotp_input_error_handler" \in Handler
  BY DEF Handler
<1> DEFINE Kept(t) == /\ t["isotp_in_flow_output"] = timeouts["isotp_in_flow_output"]
                      /\ t["isotp_input_error_handler"]
                           = timeouts["isotp_input_error_handler"]
<1>3. ASSUME NEW h \in {"isotp_out_flow_output", "isotp_output_error_handler"}
      PROVE  Kept(Armed(timeouts, h)) /\ Kept(Disarmed(timeouts, h))
  <2>1. /\ h \in Handler
        /\ h # "isotp_in_flow_output"
        /\ h # "isotp_input_error_handler"
    BY <1>2
  <2>2. /\ Armed(timeouts, h)["isotp_in_flow_output"] = timeouts["isotp_in_flow_output"]
        /\ Disarmed(timeouts, h)["isotp_in_flow_output"] = timeouts["isotp_in_flow_output"]
    BY <1>1, <1>2, <2>1, OthersKept
  <2>3. /\ Armed(timeouts, h)["isotp_input_error_handler"]
             = timeouts["isotp_input_error_handler"]
        /\ Disarmed(timeouts, h)["isotp_input_error_handler"]
             = timeouts["isotp_input_error_handler"]
    BY <1>1, <1>2, <2>1, OthersKept
  <2>4. QED
    BY <2>2, <2>3
<1>4. ASSUME NEW h \in {"isotp_out_flow_output", "isotp_output_error_handler"}
      PROVE  Kept(Armed(Disarmed(timeouts, "isotp_output_error_handler"), h))
  <2>1. Disarmed(timeouts, "isotp_output_error_handler") \in [Handler -> Nat]
    BY <1>1, <1>2, DisarmedType
  <2>2. Kept(Disarmed(timeouts, "isotp_output_error_handler"))
    BY <1>3
  <2>3. /\ Armed(Disarmed(timeouts, "isotp_output_error_handler"), h)["isotp_in_flow_output"]
             = Disarmed(timeouts, "isotp_output_error_handler")["isotp_in_flow_output"]
        /\ Armed(Disarmed(timeouts, "isotp_output_error_handler"), h)["isotp_input_error_handler"]
             = Disarmed(timeouts, "isotp_output_error_handler")["isotp_input_error_handler"]
    BY <1>2, <2>1, OthersKept
  <2>4. QED
    BY <2>2, <2>3
<1>5. /\ Kept(timeouts')
      /\ tx'["input"] = tx["input"]
      /\ UNCHANGED <<input_flow, held, attached>>
  <2>1. CASE \E m \in Outgoing : isotp_send(m)
    BY <1>3, <2>1 DEF isotp_send
  <2>2. CASE isotp_out_flow_output
    BY <1>1, <1>3, <2>2
    DEF isotp_out_flow_output, output_accepted, output_refused, Flow
  <2>3. CASE isotp_output_error_handler
    BY <1>3, <2>3 DEF isotp_output_error_handler, MessageLost
  <2>4. CASE sent_sf \/ sent_ff \/ sent_cf \/ sent_last_cf
    <3>1. /\ Confirm("output")
          /\ UNCHANGED <<input_flow, held, attached>>
      BY <2>4 DEF sent_sf, sent_ff, sent_cf, sent_last_cf, Acked
    <3>2. tx'["input"] = tx["input"]
      BY <3>1, OutputConfirmed DEF Inv
    <3>3. Kept(timeouts')
      BY <1>3, <2>4
      DEF sent_sf, sent_ff, sent_cf, sent_last_cf, MessageSent, AwaitFlowControl
    <3>4. QED
      BY <3>1, <3>2, <3>3
  <2>5. CASE isotp_sent_error_output
    BY <2>5, OutputConfirmed DEF isotp_sent_error_output, MessageLost, Inv
  <2>6. CASE \E frame \in Frame : received_fc(frame)
    <3> DEFINE quiet == Disarmed(timeouts, "isotp_output_error_handler")
    <3>1. /\ UNCHANGED <<tx, input_flow, held, attached>>
          /\ \/ timeouts' = quiet
             \/ timeouts' = Armed(quiet, "isotp_out_flow_output")
             \/ timeouts' = Armed(quiet, "isotp_output_error_handler")
      BY <2>6 DEF received_fc, MessageLost
    <3>2. QED
      BY <1>3, <1>4, <3>1
  <2>7. QED
    BY <2>1, <2>2, <2>3, <2>4, <2>5, <2>6
<1>6. QED
  BY <1>5, ReceiverUntouched DEF Inv

(* A step of the receiver leaves the sender alone.                         *)
LEMMA ReceiverStepsLeaveSender ==
  ASSUME ReferencesKept, Inv,
         \/ \E frame \in Frame :
               \/ received_sf(frame) \/ received_ff(frame)
               \/ received_wrong_cf(frame) \/ received_last_cf(frame)
               \/ received_cf(frame)
         \/ isotp_in_flow_output
         \/ isotp_input_error_handler
         \/ sent_fc
         \/ isotp_sent_error_input
         \/ \E b \in BufferId : isotp_received(b)
         \/ canif_remove
  PROVE  SenderInv'
<1>1. /\ timeouts \in [Handler -> Nat]
      /\ tx \in [Flow -> Seq(Frame)]
      /\ attached \in BOOLEAN
  BY DEF Inv, SenderInv, SenderType
<1>2. /\ "isotp_out_flow_output" \in Handler
      /\ "isotp_output_error_handler" \in Handler
      /\ "isotp_in_flow_output" \in Handler
      /\ "isotp_input_error_handler" \in Handler
  BY DEF Handler
<1> DEFINE Kept(t) ==
             /\ t \in [Handler -> Nat]
             /\ t["isotp_out_flow_output"] = timeouts["isotp_out_flow_output"]
             /\ t["isotp_output_error_handler"] = timeouts["isotp_output_error_handler"]
<1>3. ASSUME NEW t, Kept(t),
             NEW h \in {"isotp_in_flow_output", "isotp_input_error_handler"}
      PROVE  Kept(Armed(t, h)) /\ Kept(Disarmed(t, h))
  <2>1. /\ t \in [Handler -> Nat]
        /\ h \in Handler
        /\ h # "isotp_out_flow_output"
        /\ h # "isotp_output_error_handler"
    BY <1>2, <1>3
  <2>2. /\ Armed(t, h)["isotp_out_flow_output"] = t["isotp_out_flow_output"]
        /\ Disarmed(t, h)["isotp_out_flow_output"] = t["isotp_out_flow_output"]
        /\ Armed(t, h) \in [Handler -> Nat]
        /\ Disarmed(t, h) \in [Handler -> Nat]
    BY <1>2, <2>1, OthersKept
  <2>3. /\ Armed(t, h)["isotp_output_error_handler"] = t["isotp_output_error_handler"]
        /\ Disarmed(t, h)["isotp_output_error_handler"] = t["isotp_output_error_handler"]
    BY <1>2, <2>1, OthersKept
  <2>4. QED
    BY <1>3, <2>2, <2>3
<1>4. Kept(timeouts) /\ Kept(Quiet)
  BY <1>1, <1>3 DEF Quiet
<1> HIDE DEF Kept
<1>5. /\ Kept(timeouts')
      /\ tx' \in [Flow -> Seq(Frame)]
      /\ tx'["output"] = tx["output"]
      /\ UNCHANGED <<output_flow, outcome, unacked>>
      /\ attached' \in BOOLEAN
      /\ attached' => attached
  <2>1. ASSUME NEW frame \in Frame, received_sf(frame) \/ received_last_cf(frame)
        PROVE  /\ timeouts' = timeouts \/ timeouts' = Quiet
               /\ UNCHANGED <<tx, output_flow, outcome, unacked, attached>>
    BY <2>1 DEF received_sf, received_last_cf
  <2>2. ASSUME NEW frame \in Frame,
               received_ff(frame) \/ received_wrong_cf(frame) \/ received_cf(frame)
        PROVE  /\ \E h \in {"isotp_in_flow_output", "isotp_input_error_handler"} :
                    timeouts' = Armed(timeouts, h) \/ timeouts' = Armed(Quiet, h)
               /\ UNCHANGED <<tx, output_flow, outcome, unacked, attached>>
    BY <2>2 DEF received_ff, received_wrong_cf, received_cf
  <2>3. CASE isotp_in_flow_output
    <3>1. tx' \in [Flow -> Seq(Frame)] /\ tx'["output"] = tx["output"]
      BY <2>3, InputTimeoutKeeps DEF Inv
    <3>2. timeouts' = Disarmed(timeouts, "isotp_in_flow_output")
      BY <2>3 DEF isotp_in_flow_output
    <3>3. UNCHANGED <<output_flow, outcome, unacked, attached>>
      BY <2>3 DEF isotp_in_flow_output, flow_control_accepted, flow_control_refused,
                  ReceptionLost
    <3>4. QED
      BY <1>1, <1>3, <1>4, <3>1, <3>2, <3>3
  <2>4. CASE isotp_input_error_handler
    BY <1>1, <1>4, <2>4 DEF isotp_input_error_handler, ReceptionLost, Quiet
  <2>5. CASE sent_fc
    <3>1. /\ Confirm("input")
          /\ UNCHANGED <<output_flow, outcome, unacked, attached>>
          /\ \/ UNCHANGED timeouts
             \/ timeouts' = Armed(timeouts, "isotp_input_error_handler")
      BY <2>5 DEF sent_fc
    <3>2. tx' \in [Flow -> Seq(Frame)] /\ tx'["output"] = tx["output"]
      BY <3>1, InputConfirmed DEF Inv
    <3>3. Kept(timeouts')
      BY <1>3, <1>4, <3>1
    <3>4. QED
      BY <1>1, <3>1, <3>2, <3>3
  <2>6. CASE isotp_sent_error_input
    <3>1. /\ Confirm("input")
          /\ UNCHANGED <<timeouts, output_flow, outcome, unacked, attached>>
      BY <2>6 DEF isotp_sent_error_input, ReceptionLost
    <3>2. tx' \in [Flow -> Seq(Frame)] /\ tx'["output"] = tx["output"]
      BY <3>1, InputConfirmed DEF Inv
    <3>3. Kept(timeouts')
      BY <1>4, <3>1
    <3>4. QED
      BY <1>1, <3>1, <3>2, <3>3
  <2>7. CASE \E b \in BufferId : isotp_received(b)
    BY <1>1, <1>4, <2>7 DEF isotp_received
  <2>8. CASE canif_remove
    BY <1>1, <1>4, <2>8 DEF canif_remove
  <2>9. CASE \E frame \in Frame : received_sf(frame) \/ received_last_cf(frame)
    BY <1>1, <1>4, <2>1, <2>9
  <2>10. CASE \E frame \in Frame :
                received_ff(frame) \/ received_wrong_cf(frame) \/ received_cf(frame)
    <3>1. Kept(timeouts')
      BY <1>3, <1>4, <2>2, <2>10
    <3>2. QED
      BY <1>1, <2>2, <2>10, <3>1
  <2>11. QED
    BY <2>3, <2>4, <2>5, <2>6, <2>7, <2>8, <2>9, <2>10
<1>6. QED
  BY <1>5, SenderUntouched DEF Inv, Kept

(* isotp_input keeps it whatever frame comes.                              *)
LEMMA InputInv ==
  ASSUME ReferencesKept, Inv, NEW frame \in Frame, isotp_input(frame)
  PROVE  Inv'
<1>1. CASE received_sf(frame)
  BY <1>1, ReceivedSfKeeps, ReceiverStepsLeaveSender DEF Inv
<1>2. CASE received_ff(frame)
  BY <1>2, ReceivedFfKeeps, ReceiverStepsLeaveSender DEF Inv
<1>3. CASE received_cf(frame)
  BY <1>3, CfKeeps, ReceiverStepsLeaveSender DEF Inv
<1>4. CASE received_last_cf(frame)
  BY <1>4, LastCfKeeps, ReceiverStepsLeaveSender DEF Inv
<1>5. CASE received_wrong_cf(frame)
  BY <1>5, WrongCfKeeps, ReceiverStepsLeaveSender DEF Inv
<1>6. CASE received_fc(frame)
  BY <1>6, ReceivedFcKeeps, SenderStepsLeaveReceiver DEF Inv, ReceiverInv
<1>7. CASE isotp_input_dropped(frame)
  <2>1. UNCHANGED vars
    BY <1>7 DEF isotp_input_dropped
  <2>2. UNCHANGED <<output_flow, input_flow, timeouts, tx, held, attached, outcome, unacked>>
    BY <2>1 DEF vars
  <2>3. SenderInv'
    BY <2>2, SenderUntouched DEF Inv, SenderInv, SenderType
  <2>4. ReceiverInv'
    BY <2>2, ReceiverUntouched DEF Inv
  <2>5. QED
    BY <2>3, <2>4 DEF Inv
<1>8. QED
  BY <1>1, <1>2, <1>3, <1>4, <1>5, <1>6, <1>7 DEF isotp_input

LEMMA NextInv ==
  ASSUME ReferencesKept, Inv, [Next]_vars
  PROVE  Inv'
<1>1. ASSUME NEW m \in Outgoing, isotp_send(m)
      PROVE  Inv'
  BY <1>1, SendKeeps, SenderStepsLeaveReceiver DEF Inv, ReceiverInv
<1>2. ASSUME NEW b \in BufferId, isotp_received(b)
      PROVE  Inv'
  BY <1>2, ReturnedKeeps, ReceiverStepsLeaveSender DEF Inv
<1>3. CASE canif_remove
  <2>1. ReceiverInv'
    BY <1>3, ReceiverUntouched DEF Inv, canif_remove
  <2>2. QED
    BY <1>3, <2>1, ReceiverStepsLeaveSender DEF Inv
<1>4. ASSUME NEW frame \in PeerFrames, isotp_input(frame)
      PROVE  Inv'
  BY <1>4, InputInv, IsoTpAssumption
<1>5. CASE lwcan_timeouts_handler
  <2>1. CASE isotp_out_flow_output
    BY <2>1, OutputTimeoutKeeps, SenderStepsLeaveReceiver DEF Inv
  <2>2. CASE isotp_output_error_handler
    BY <2>2, OutputErrorKeeps, SenderStepsLeaveReceiver DEF Inv
  <2>3. CASE isotp_in_flow_output
    BY <2>3, InputTimeoutKeeps, ReceiverStepsLeaveSender DEF Inv
  <2>4. CASE isotp_input_error_handler
    BY <2>4, InputErrorKeeps, ReceiverStepsLeaveSender DEF Inv
  <2>5. QED
    BY <1>5, <2>1, <2>2, <2>3, <2>4 DEF lwcan_timeouts_handler
<1>6. CASE isotp_sent
  <2>1. CASE sent_sf \/ sent_last_cf
    BY <2>1, SentLastKeeps, SenderStepsLeaveReceiver DEF Inv
  <2>2. CASE sent_ff
    BY <2>2, SentFfKeeps, SenderStepsLeaveReceiver DEF Inv, ReceiverInv
  <2>3. CASE sent_cf
    BY <2>3, SentCfKeeps, SenderStepsLeaveReceiver DEF Inv, ReceiverInv
  <2>4. CASE isotp_sent_error_output
    BY <2>4, SentErrorKeeps, SenderStepsLeaveReceiver DEF Inv
  <2>5. CASE sent_fc
    BY <2>5, SentFcKeeps, ReceiverStepsLeaveSender DEF Inv
  <2>6. CASE isotp_sent_error_input
    BY <2>6, SentErrorInputKeeps, ReceiverStepsLeaveSender DEF Inv
  <2>7. QED
    BY <1>6, <2>1, <2>2, <2>3, <2>4, <2>5, <2>6 DEF isotp_sent
<1>7. CASE UNCHANGED vars
  <2>1. UNCHANGED <<output_flow, input_flow, timeouts, tx, held, attached, outcome, unacked>>
    BY <1>7 DEF vars
  <2>2. SenderInv'
    BY <2>1, SenderUntouched DEF Inv, SenderInv, SenderType
  <2>3. ReceiverInv'
    BY <2>1, ReceiverUntouched DEF Inv
  <2>4. QED
    BY <2>2, <2>3 DEF Inv
<1>8. QED
  BY <1>1, <1>2, <1>3, <1>4, <1>5, <1>6, <1>7 DEF Next, Application

(* The invariant holds in every execution of every connection that keeps    *)
(* its references.                                                         *)
THEOREM Invariance ==
  ASSUME ReferencesKept
  PROVE  Spec => []Inv
<1>1. Init => Inv
  BY InitInv
<1>2. Inv /\ [Next]_vars => Inv'
  BY NextInv
<1>3. QED
  BY <1>1, <1>2, PTL DEF Spec

(* Every variable keeps its type; no field of a frame leaves its bits.      *)
THEOREM TypeCorrect ==
  ASSUME ReferencesKept
  PROVE  Spec => []TypeOK
<1>1. Inv => TypeOK
  BY DEF Inv, SenderInv, SenderType, ReceiverInv, ReceiverType, TypeOK
<1>2. QED
  BY <1>1, Invariance, PTL

(* With two timeout slots per connection lwcan_timeout never drops one,     *)
(* whatever the peer sends and the driver refuses.                         *)
THEOREM TimersAlwaysFit ==
  ASSUME ReferencesKept
  PROVE  Spec => []TimersFit
<1>1. Inv => TimersFit
  <2> SUFFICES ASSUME Inv PROVE TimersFit
    OBVIOUS
  <2>1. Counted(timeouts)
    BY SenderTypes DEF Inv, SenderInv
  <2>2. QED
    BY <2>1, AtMostOneEach DEF Inv, SenderInv, ReceiverInv, TimersFit, Pending, Counted
<1>2. QED
  BY <1>1, Invariance, PTL

(* Each message is reported once, by pcb->sent or by pcb->error.            *)
THEOREM EachReportedOnce ==
  ASSUME ReferencesKept
  PROVE  Spec => []ReportedOnce
<1>1. Inv => ReportedOnce
  BY DEF Inv, SenderInv
<1>2. QED
  BY <1>1, Invariance, PTL

(* pcb->sent is called only for a message every byte of which the driver    *)
(* confirmed, for every length, block size and flow control of the peer.   *)
THEOREM SentIsTransmitted ==
  ASSUME ReferencesKept
  PROVE  Spec => []SentMeansTransmitted
<1>1. Inv => SentMeansTransmitted
  BY DEF Inv, SenderInv
<1>2. QED
  BY <1>1, Invariance, PTL

(* No receive buffer leaks and none is freed while the application has it.  *)
THEOREM EveryBufferOwned ==
  ASSUME ReferencesKept
  PROVE  Spec => []BuffersOwned
<1>1. Inv => BuffersOwned
  BY DEF Inv, ReceiverInv, Owned
<1>2. QED
  BY <1>1, Invariance, PTL

(* The sender's state says exactly which timeout or frame will take it on,  *)
(* and an idle sender has none.                                            *)
THEOREM SenderAlwaysDriven ==
  ASSUME ReferencesKept
  PROVE  Spec => []OutputDriven
<1>1. Inv => OutputDriven
  <2> SUFFICES ASSUME Inv PROVE OutputDriven
    OBVIOUS
  <2>1. Counted(timeouts) /\ Len(tx["output"]) \in Nat
    BY SenderTypes DEF Inv, SenderInv
  <2>2. Driven(timeouts["isotp_out_flow_output"] + Len(tx["output"]),
               output_flow.state \in Transmitting)
    BY <2>1 DEF Inv, SenderInv, OutputCounts, Driven, Counted
  <2>3. timeouts["isotp_output_error_handler"]
          = (IF output_flow.state = "WAIT_FC" THEN 1 ELSE 0)
    BY DEF Inv, SenderInv, OutputCounts
  <2>4. Len(output_flow.buffer) = (IF output_flow.state = "IDLE" THEN 0 ELSE 1)
    BY DEF Inv, SenderInv, Remaining
  <2>5. QED
    BY <2>2, <2>3, <2>4 DEF OutputDriven
<1>2. QED
  BY <1>1, Invariance, PTL

(* And so does the receiver's.                                             *)
THEOREM ReceiverAlwaysDriven ==
  ASSUME ReferencesKept
  PROVE  Spec => []InputDriven
<1>1. Inv => InputDriven
  <2> SUFFICES ASSUME Inv PROVE InputDriven
    OBVIOUS
  <2>1. Counted(timeouts) /\ Len(tx["input"]) \in Nat
    BY SenderTypes DEF Inv, SenderInv
  <2>2. Driven(timeouts["isotp_in_flow_output"] + Len(tx["input"]),
               input_flow.state = "TX_FC")
    BY <2>1 DEF Inv, ReceiverInv, InputCounts, Driven, Counted
  <2>3. timeouts["isotp_input_error_handler"]
          = (IF input_flow.state = "WAIT_CF" THEN 1 ELSE 0)
    BY DEF Inv, ReceiverInv, InputCounts
  <2>4. QED
    BY <2>2, <2>3 DEF InputDriven
<1>2. QED
  BY <1>1, Invariance, PTL
-----------------------------------------------------------------------------
(* What the receive buffers hold.                                          *)

Elements(s) == {s[i] : i \in DOMAIN s}

(* A buffer all of whose message has come, and one that left bytes miss.    *)
Whole(e) == e.payload # <<>> /\ Filled(e, e.length)

Growing(e, left) == e.payload # <<>> /\ Filled(e, e.length - left)

(* What makes HeldComplete inductive: the head of the list holds what was   *)
(* received of the message that comes in, up to where the next consecutive  *)
(* frame goes, and every other buffer all of its message.                  *)
Fills ==
  IF Receiving
  THEN /\ Growing(Head(input_flow.buffer), input_flow.remaining_data)
       /\ \A e \in Elements(Tail(input_flow.buffer)) : Whole(e)
  ELSE \A e \in Elements(input_flow.buffer) : Whole(e)

(* The step leaves every buffer that stays with the application as it is.   *)
HeldKept ==
  \A e \in Elements(input_flow.buffer) :
    e.id \in held \cap held' => e \in Elements(input_flow'.buffer)

(* The elements of a list that grows, or shrinks, at its head.              *)
LEMMA ElementsPushed ==
  ASSUME NEW s \in Seq(Buffer), NEW e \in Buffer
  PROVE  /\ Elements(<<e>> \o s) = {e} \cup Elements(s)
         /\ Head(<<e>> \o s) = e
         /\ Tail(<<e>> \o s) = s
<1> DEFINE p == <<e>> \o s
<1>1. /\ DOMAIN p = 1..(Len(s) + 1)
      /\ DOMAIN s = 1..Len(s)
      /\ Len(s) \in Nat
      /\ p[1] = e
      /\ \A i \in 1..Len(s) : p[i + 1] = s[i]
      /\ Head(p) = e
      /\ Tail(p) = s
  OBVIOUS
<1>2. \A i \in DOMAIN p : i = 1 \/ (i - 1 \in DOMAIN s /\ p[i] = s[i - 1])
  BY <1>1
<1>3. 1 \in DOMAIN p /\ \A i \in DOMAIN s : i + 1 \in DOMAIN p /\ p[i + 1] = s[i]
  BY <1>1
<1> HIDE DEF p
<1>4. Elements(p) \subseteq {e} \cup Elements(s)
  BY <1>1, <1>2 DEF Elements
<1>5. {e} \cup Elements(s) \subseteq Elements(p)
  BY <1>1, <1>3 DEF Elements
<1>6. QED
  BY <1>1, <1>4, <1>5 DEF p

LEMMA ElementsPopped ==
  ASSUME NEW s \in Seq(Buffer), s # <<>>
  PROVE  Elements(s) = {Head(s)} \cup Elements(Tail(s))
<1>1. Head(s) \in Buffer /\ Tail(s) \in Seq(Buffer) /\ s = <<Head(s)>> \o Tail(s)
  OBVIOUS
<1>2. QED
  BY <1>1, ElementsPushed

LEMMA ElementsTyped ==
  ASSUME NEW s \in Seq(Buffer)
  PROVE  /\ Elements(s) \subseteq Buffer
         /\ \A e \in Elements(s) : e.id \in Ids(s)
         /\ \A d, e \in Elements(s) : Distinct(s) /\ d.id = e.id => d = e
  BY DEF Elements, Ids, Distinct

(* A buffer taken out of the list leaves the others in it.                  *)
LEMMA ElementsUnlinked ==
  ASSUME NEW s \in Seq(Buffer), Distinct(s), NEW b \in Ids(s)
  PROVE  LET u == Unlinked(s, CHOOSE i \in DOMAIN s : s[i].id = b) IN
         Elements(u) = {e \in Elements(s) : e.id # b}
<1> DEFINE k == CHOOSE i \in DOMAIN s : s[i].id = b
           u == Unlinked(s, k)
<1>1. k \in 1..Len(s) /\ s[k].id = b /\ Len(s) \in Nat
  BY DEF Ids
<1> HIDE DEF k
<1>2. /\ DOMAIN u = 1..(Len(s) - 1)
      /\ DOMAIN s = 1..Len(s)
      /\ \A i \in 1..(Len(s) - 1) : u[i] = IF i < k THEN s[i] ELSE s[i + 1]
  BY DEF Unlinked
<1> HIDE DEF u
<1>3. ASSUME NEW i \in DOMAIN u
      PROVE  \E j \in DOMAIN s : j # k /\ u[i] = s[j]
  <2>1. CASE i < k
    <3>1. i \in DOMAIN s /\ i # k /\ u[i] = s[i]
      BY <1>1, <1>2, <2>1
    <3>2. QED
      BY <3>1
  <2>2. CASE ~(i < k)
    <3>1. i + 1 \in DOMAIN s /\ i + 1 # k /\ u[i] = s[i + 1]
      BY <1>1, <1>2, <2>2
    <3>2. QED
      BY <3>1
  <2>3. QED
    BY <2>1, <2>2
<1>4. ASSUME NEW j \in DOMAIN s, j # k
      PROVE  \E i \in DOMAIN u : u[i] = s[j]
  <2>1. CASE j < k
    <3>1. j \in DOMAIN u /\ u[j] = s[j]
      BY <1>1, <1>2, <2>1
    <3>2. QED
      BY <3>1
  <2>2. CASE ~(j < k)
    <3>1. j - 1 \in DOMAIN u /\ u[j - 1] = s[j]
      BY <1>1, <1>2, <1>4, <2>2
    <3>2. QED
      BY <3>1
  <2>3. QED
    BY <2>1, <2>2
<1>5. \A j \in DOMAIN s : s[j].id = b <=> j = k
  BY <1>1, <1>2 DEF Distinct
<1>6. Elements(u) \subseteq {e \in Elements(s) : e.id # b}
  BY <1>3, <1>5 DEF Elements
<1>7. {e \in Elements(s) : e.id # b} \subseteq Elements(u)
  BY <1>4, <1>5 DEF Elements
<1>8. QED
  BY <1>6, <1>7 DEF u, k

LEMMA LengthPositive ==
  ASSUME NEW n \in 1..FF_DL_MAX
  PROVE  n \in Nat
  BY DEF FF_DL_MAX

(* The first chunk of a buffer starts it, ...                               *)
LEMMA FirstChunk ==
  ASSUME NEW b \in BufferId, NEW length \in Nat, NEW len \in Nat, NEW data \in Segment
  PROVE  LET e == NewBuffer(b, length, [at |-> 0, len |-> len, data |-> data]) IN
         /\ e.payload # <<>>
         /\ Filled(e, len)
         /\ e.length = length
  BY DEF NewBuffer, Filled

(* ... and a chunk that goes where the last one ended leaves no gap.        *)
Longer(e, n, len, data) ==
  [e EXCEPT !.payload = Append(@, [at |-> n, len |-> len, data |-> data])]

LEMMA NextChunk ==
  ASSUME NEW e \in Buffer, NEW n \in Int, e.payload # <<>>, Filled(e, n),
         NEW len \in Nat, NEW data \in Segment
  PROVE  /\ Longer(e, n, len, data) \in Buffer
         /\ Longer(e, n, len, data).payload # <<>>
         /\ Filled(Longer(e, n, len, data), n + len)
         /\ Longer(e, n, len, data).length = e.length
<1> DEFINE c == [at |-> n, len |-> len, data |-> data]
           p == e.payload
           q == Append(p, c)
           f == Longer(e, n, len, data)
<1>1. p \in Seq(Chunk) /\ c \in Chunk /\ c.at = n /\ c.len = len
  BY DEF Buffer, Chunk
<1>2. f \in Buffer /\ f.payload = q /\ f.length = e.length
  <2>1. f = [e EXCEPT !.payload = q]
    BY DEF Longer
  <2> HIDE DEF f, c
  <2>2. q \in Seq(Chunk)
    BY <1>1
  <2> HIDE DEF q
  <2>3. QED
    BY <2>1, <2>2 DEF Buffer
<1>3. /\ Len(p) \in Nat /\ Len(p) > 0
      /\ \A i \in 1..Len(p) :
           p[i].at = IF i = 1 THEN 0 ELSE p[i - 1].at + p[i - 1].len
      /\ p[Len(p)].at + p[Len(p)].len = n
  <2>1. Len(p) \in Nat /\ Len(p) > 0 /\ DOMAIN p = 1..Len(p)
    BY <1>1
  <2>2. /\ \A i \in DOMAIN p :
             p[i].at = IF i = 1 THEN 0 ELSE p[i - 1].at + p[i - 1].len
        /\ p[Len(p)].at + p[Len(p)].len = n
    BY DEF Filled
  <2>3. QED
    BY <2>1, <2>2
<1> HIDE DEF c, p
<1>4. /\ q # <<>>
      /\ DOMAIN q = 1..(Len(p) + 1)
      /\ Len(q) = Len(p) + 1
      /\ \A i \in 1..Len(p) : q[i] = p[i]
      /\ q[Len(p) + 1] = c
  BY <1>1
<1> HIDE DEF q
<1>5. ASSUME NEW i \in 1..(Len(p) + 1)
      PROVE  q[i].at = IF i = 1 THEN 0 ELSE q[i - 1].at + q[i - 1].len
  <2>1. CASE i \in 1..Len(p)
    <3>1. q[i] = p[i] /\ (i # 1 => q[i - 1] = p[i - 1])
      BY <1>3, <1>4, <2>1
    <3>2. QED
      BY <1>3, <2>1, <3>1
  <2>2. CASE i = Len(p) + 1
    <3>1. q[i] = c /\ q[i - 1] = p[Len(p)] /\ i # 1
      BY <1>3, <1>4, <2>2
    <3>2. QED
      BY <1>1, <1>3, <3>1
  <2>3. QED
    BY <1>3, <2>1, <2>2
<1>6. Filled(f, n + len)
  <2>1. q[Len(q)].at + q[Len(q)].len = n + len
    BY <1>1, <1>4
  <2>2. QED
    BY <1>2, <1>4, <1>5, <2>1 DEF Filled
<1>7. QED
  BY <1>2, <1>4, <1>6 DEF f, q, p, c

(* The list as Owned has it: with a reception in progress it has a head,    *)
(* and the application holds the others.                                   *)
LEMMA ListOwned ==
  ASSUME ReceiverInv
  PROVE  /\ input_flow \in InputFlow
         /\ input_flow.buffer \in Seq(Buffer)
         /\ Distinct(input_flow.buffer)
         /\ Elements(input_flow.buffer) \subseteq Buffer
         /\ Receiving =>
              /\ input_flow.buffer # <<>>
              /\ Head(input_flow.buffer) \in Buffer
              /\ Tail(input_flow.buffer) \in Seq(Buffer)
              /\ HeadRemoved(input_flow.buffer) = Tail(input_flow.buffer)
              /\ Elements(input_flow.buffer)
                   = {Head(input_flow.buffer)} \cup Elements(Tail(input_flow.buffer))
              /\ Head(input_flow.buffer).id \notin held
         /\ ~Receiving => held = Ids(input_flow.buffer)
         /\ ~Holding => held = {}
<1> DEFINE s == input_flow.buffer
<1>1. /\ input_flow \in InputFlow
      /\ s \in Seq(Buffer)
      /\ Distinct(s)
      /\ ~Holding => held = {}
      /\ ~Receiving => held = Ids(s)
      /\ Receiving => s # <<>> /\ held = Ids(HeadRemoved(s))
  BY ReceiverTypes DEF ReceiverInv, Owned, BuffersOwned
<1> HIDE DEF s
<1>2. ASSUME s # <<>>
      PROVE  /\ Head(s) \in Buffer
             /\ Tail(s) \in Seq(Buffer)
             /\ HeadRemoved(s) = Tail(s)
             /\ Elements(s) = {Head(s)} \cup Elements(Tail(s))
             /\ Head(s).id \notin Ids(Tail(s))
  BY <1>1, <1>2, Popped, ElementsPopped
<1>3. QED
  BY <1>1, <1>2, ElementsTyped DEF s

(* Whatever leaves the list, its head and the application alone.            *)
LEMMA FillsUntouched ==
  ASSUME Fills, UNCHANGED input_flow
  PROVE  Fills' /\ HeldKept
  BY DEF Fills, HeldKept, Receiving

(* A whole message is handed to the application: held from now on, or       *)
(* given back by the callback.                                             *)
LEMMA FillsDelivered ==
  ASSUME NEW flow \in InputFlow, flow.state = "IDLE",
         NEW e \in Buffer, Whole(e), NEW rest \in Seq(Buffer),
         \A d \in Elements(rest) : Whole(d),
         \A d \in Elements(input_flow.buffer) : d.id \in held => d \in Elements(rest),
         Deliver(flow, <<e>> \o rest)
  PROVE  Fills' /\ HeldKept
<1>1. /\ Elements(<<e>> \o rest) = {e} \cup Elements(rest)
      /\ HeadRemoved(<<e>> \o rest) = rest
  <2>1. <<e>> \o rest # <<>>
    OBVIOUS
  <2>2. QED
    BY <2>1, ElementsPushed DEF HeadRemoved
<1>2. /\ input_flow'.state = "IDLE"
      /\ input_flow'.buffer \in {<<e>> \o rest, rest}
  BY <1>1 DEF Deliver, InputFlow
<1>3. /\ Elements(rest) \subseteq Elements(input_flow'.buffer)
      /\ Elements(input_flow'.buffer) \subseteq {e} \cup Elements(rest)
  BY <1>1, <1>2
<1>4. ~Receiving'
  BY <1>2 DEF Receiving
<1>5. QED
  BY <1>3, <1>4 DEF Fills, HeldKept

LEMMA SfFills ==
  ASSUME ReceiverInv, Fills, NEW frame \in Frame, received_sf(frame)
  PROVE  Fills' /\ HeldKept
<1>1. input_flow.state = "IDLE" /\ frame.type = "SF"
  BY DEF received_sf
<1>2. PICK b \in FreeBuffers :
        Deliver([input_flow EXCEPT !.remaining_data = frame.dl],
                <<NewBuffer(b, frame.dl,
                            [at |-> 0, len |-> frame.dl, data |-> frame.data])>>
                  \o input_flow.buffer)
  BY DEF received_sf
<1> DEFINE e == NewBuffer(b, frame.dl, [at |-> 0, len |-> frame.dl, data |-> frame.data])
           flow == [input_flow EXCEPT !.remaining_data = frame.dl]
<1>3. /\ frame.dl \in 1..FF_DL_MAX
      /\ frame.dl \in DataLength
      /\ frame.dl \in Nat
      /\ frame.data \in Segment
  BY <1>1, FrameFields, SingleFrameLength
<1>4. e \in Buffer
  BY <1>3, NewBufferMade DEF FreeBuffers
<1>5. Whole(e)
  <2>1. b \in BufferId
    BY DEF FreeBuffers
  <2>2. e.payload # <<>> /\ Filled(e, frame.dl) /\ e.length = frame.dl
    BY <1>3, <2>1, FirstChunk
  <2>3. QED
    BY <2>2 DEF Whole
<1>6. flow \in InputFlow /\ flow.state = "IDLE"
  BY <1>1, <1>3, ListOwned DEF InputFlow
<1>7. /\ ~Receiving
      /\ input_flow.buffer \in Seq(Buffer)
      /\ \A d \in Elements(input_flow.buffer) : Whole(d)
  BY <1>1, ListOwned DEF Fills, Receiving
<1>8. Deliver(flow, <<e>> \o input_flow.buffer)
  BY <1>2
<1> HIDE DEF e, flow
<1>9. QED
  BY <1>4, <1>5, <1>6, <1>7, <1>8, FillsDelivered

LEMMA FfFills ==
  ASSUME ReceiverInv, Fills, NEW frame \in Frame, received_ff(frame)
  PROVE  Fills' /\ HeldKept
<1>1. input_flow.state = "IDLE" /\ frame.type = "FF"
  BY DEF received_ff
<1>2. /\ ~Receiving
      /\ input_flow \in InputFlow
      /\ input_flow.buffer \in Seq(Buffer)
      /\ \A d \in Elements(input_flow.buffer) : Whole(d)
  BY <1>1, ListOwned DEF Fills, Receiving
<1>3. CASE FreeBuffers = {}
  <2>1. /\ input_flow'.state = "TX_FC"
        /\ input_flow'.fs = "OVERFLOW"
        /\ input_flow'.buffer = input_flow.buffer
    BY <1>2, <1>3 DEF received_ff, InputFlow
  <2>2. ~Receiving'
    BY <2>1 DEF Receiving
  <2>3. QED
    BY <1>2, <2>1, <2>2 DEF Fills, HeldKept
<1>4. CASE FreeBuffers # {}
  <2>1. PICK b \in FreeBuffers :
          input_flow' =
            [state |-> "TX_FC",
             buffer |-> <<NewBuffer(b, frame.dl,
                            [at |-> 0, len |-> FfData, data |-> frame.data])>>
                          \o input_flow.buffer,
             remaining_data |-> frame.dl - FfData,
             cf_sn |-> 1, fs |-> "READY", bs |-> ISOTP_RECEIVE_BS]
    BY <1>4 DEF received_ff
  <2> DEFINE e == NewBuffer(b, frame.dl, [at |-> 0, len |-> FfData, data |-> frame.data])
  <2>2. frame.dl \in 1..FF_DL_MAX /\ frame.dl \in Nat /\ frame.data \in Segment
    <3>1. frame.dl \in (SfData + 1)..FF_DL_MAX /\ frame.data \in Segment
      BY <1>1, FrameFields
    <3>2. frame.dl \in 1..FF_DL_MAX
      BY <3>1, AnnouncedLength
    <3>3. frame.dl \in Nat
      BY <3>2, LengthPositive
    <3>4. QED
      BY <3>1, <3>2, <3>3
  <2>3. FfData \in Nat
    BY DEF FfData
  <2>4. e \in Buffer
    BY <2>2, <2>3, NewBufferMade DEF FreeBuffers
  <2>5. Growing(e, frame.dl - FfData)
    <3>1. frame.dl - (frame.dl - FfData) = FfData
      BY <2>2, <2>3
    <3>2. b \in BufferId
      BY DEF FreeBuffers
    <3>3. e.payload # <<>> /\ Filled(e, FfData) /\ e.length = frame.dl
      BY <2>2, <2>3, <3>2, FirstChunk
    <3>4. QED
      BY <3>1, <3>3 DEF Growing
  <2>6. /\ input_flow'.state = "TX_FC"
        /\ input_flow'.fs = "READY"
        /\ input_flow'.buffer = <<e>> \o input_flow.buffer
        /\ input_flow'.remaining_data = frame.dl - FfData
    BY <2>1
  <2> HIDE DEF e
  <2>7. /\ Head(input_flow'.buffer) = e
        /\ Tail(input_flow'.buffer) = input_flow.buffer
        /\ Elements(input_flow'.buffer) = {e} \cup Elements(input_flow.buffer)
    BY <1>2, <2>4, <2>6, ElementsPushed
  <2>8. Receiving'
    BY <2>6 DEF Receiving
  <2>9. QED
    BY <1>2, <2>5, <2>6, <2>7, <2>8 DEF Fills, HeldKept
<1>5. QED
  BY <1>3, <1>4

(* The consecutive frame goes where the bytes already received end, into a  *)
(* buffer the application does not have.                                   *)
LEMMA StoredFills ==
  ASSUME ReceiverInv, Fills, Receiving, NEW data \in Segment
  PROVE  \E e \in Buffer :
           /\ Stored(data) = <<e>> \o Tail(input_flow.buffer)
           /\ Growing(e, input_flow.remaining_data - StoredLength)
<1> DEFINE s == input_flow.buffer
           left == input_flow.remaining_data
           n == Head(s).length - left
           e == Longer(Head(s), n, StoredLength, data)
<1>1. /\ Head(s) \in Buffer
      /\ Head(s).payload # <<>>
      /\ Filled(Head(s), n)
  BY ListOwned DEF Fills, Growing
<1>2. /\ StoredLength \in Nat
      /\ left \in Nat
      /\ Head(s).length \in Nat
      /\ n \in Int
  <2>1. left \in Nat
    BY ReceiverTypes DEF ReceiverInv
  <2>2. Head(s).length \in Nat
    BY <1>1, LengthIsNat DEF Buffer
  <2>3. StoredLength \in Nat
    BY <2>1, StoredInHead
  <2>4. QED
    BY <2>1, <2>2, <2>3
<1>3. Stored(data) = <<e>> \o Tail(s)
  BY DEF Stored, Longer
<1> HIDE DEF n
<1>4. /\ e \in Buffer
      /\ e.payload # <<>>
      /\ Filled(e, n + StoredLength)
      /\ e.length = Head(s).length
  BY <1>1, <1>2, NextChunk
<1>5. n + StoredLength = Head(s).length - (left - StoredLength)
  BY <1>2 DEF n
<1>6. Growing(e, left - StoredLength)
  BY <1>4, <1>5 DEF Growing
<1>7. QED
  BY <1>3, <1>4, <1>6

LEMMA CfFills ==
  ASSUME ReceiverInv, Fills, NEW frame \in Frame, received_cf(frame)
  PROVE  Fills' /\ HeldKept
<1> DEFINE s == input_flow.buffer
           goesOn == BlockGoesOn(input_flow.bs, input_flow.cf_sn)
<1>1. /\ input_flow.state = "WAIT_CF"
      /\ frame.type = "CF"
      /\ input_flow' = [input_flow EXCEPT
           !.buffer = Stored(frame.data),
           !.remaining_data = @ - StoredLength,
           !.cf_sn = NextSn(@),
           !.fs = IF goesOn THEN @ ELSE "READY",
           !.state = IF goesOn THEN "WAIT_CF" ELSE "TX_FC"]
  BY DEF received_cf, CfMatches
<1>2. Receiving /\ frame.data \in Segment
  BY <1>1, FrameFields DEF Receiving
<1>3. PICK e \in Buffer :
        /\ Stored(frame.data) = <<e>> \o Tail(s)
        /\ Growing(e, input_flow.remaining_data - StoredLength)
  BY <1>2, StoredFills
<1> HIDE DEF goesOn
<1>4. /\ input_flow'.buffer = <<e>> \o Tail(s)
      /\ input_flow'.remaining_data = input_flow.remaining_data - StoredLength
      /\ input_flow'.state = (IF goesOn THEN "WAIT_CF" ELSE "TX_FC")
      /\ input_flow'.fs = (IF goesOn THEN input_flow.fs ELSE "READY")
  BY <1>1, <1>3, ListOwned DEF InputFlow
<1>5. Receiving'
  BY <1>4 DEF Receiving
<1>6. /\ Tail(s) \in Seq(Buffer)
      /\ Elements(s) = {Head(s)} \cup Elements(Tail(s))
      /\ Head(s).id \notin held
      /\ \A d \in Elements(Tail(s)) : Whole(d)
  BY <1>2, ListOwned DEF Fills
<1>7. /\ Head(input_flow'.buffer) = e
      /\ Tail(input_flow'.buffer) = Tail(s)
      /\ Elements(input_flow'.buffer) = {e} \cup Elements(Tail(s))
  BY <1>4, <1>6, ElementsPushed
<1>8. QED
  BY <1>3, <1>4, <1>5, <1>6, <1>7 DEF Fills, HeldKept

LEMMA LastCfFills ==
  ASSUME ReceiverInv, Fills, NEW frame \in Frame, received_last_cf(frame)
  PROVE  Fills' /\ HeldKept
<1> DEFINE s == input_flow.buffer
           flow == [input_flow EXCEPT !.state = "IDLE", !.remaining_data = 0]
<1>1. /\ input_flow.state = "WAIT_CF"
      /\ frame.type = "CF"
      /\ input_flow.remaining_data = StoredLength
      /\ Deliver(flow, Stored(frame.data))
  BY DEF received_last_cf, CfMatches
<1>2. Receiving /\ frame.data \in Segment
  BY <1>1, FrameFields DEF Receiving
<1>3. PICK e \in Buffer :
        /\ Stored(frame.data) = <<e>> \o Tail(s)
        /\ Growing(e, input_flow.remaining_data - StoredLength)
  BY <1>2, StoredFills
<1>4. Whole(e)
  <2>1. input_flow.remaining_data \in Nat /\ e.length \in Nat
    BY ReceiverTypes, LengthIsNat DEF ReceiverInv, Buffer
  <2>2. e.length - (input_flow.remaining_data - StoredLength) = e.length
    BY <1>1, <2>1
  <2>3. QED
    BY <1>3, <2>2 DEF Growing, Whole
<1>5. flow \in InputFlow /\ flow.state = "IDLE"
  <2>1. "IDLE" \in InputState /\ 0 \in DataLength
    BY DEF InputState, DataLength, FF_DL_MAX
  <2>2. QED
    BY <2>1, ListOwned DEF InputFlow
<1>6. /\ Tail(s) \in Seq(Buffer)
      /\ Elements(s) = {Head(s)} \cup Elements(Tail(s))
      /\ Head(s).id \notin held
      /\ \A d \in Elements(Tail(s)) : Whole(d)
  BY <1>2, ListOwned DEF Fills
<1> HIDE DEF flow
<1>7. Deliver(flow, <<e>> \o Tail(s))
  BY <1>1, <1>3
<1>8. QED
  BY <1>4, <1>5, <1>6, <1>7, FillsDelivered

(* A reception given up takes only its own buffer off the list.             *)
LEMMA FreedFills ==
  ASSUME ReceiverInv, Fills, Receiving \/ ~Holding,
         input_flow'.state = "IDLE" \/ input_flow'.fs = "OVERFLOW",
         input_flow'.state # "WAIT_CF",
         input_flow'.buffer = HeadRemoved(input_flow.buffer)
  PROVE  Fills' /\ HeldKept
<1>1. ~Receiving'
  BY DEF Receiving
<1>2. CASE Receiving
  BY <1>1, <1>2, ListOwned DEF Fills, HeldKept
<1>3. CASE ~Receiving
  <2>1. held = {} /\ Ids(input_flow.buffer) = {} /\ input_flow.buffer \in Seq(Buffer)
    BY <1>3, ListOwned
  <2>2. input_flow.buffer = <<>>
    <3> DEFINE s == input_flow.buffer
    <3>1. s \in Seq(Buffer) /\ Distinct(s) /\ Ids(s) = {}
      BY <2>1, ListOwned
    <3> HIDE DEF s
    <3>2. s # <<>> => Head(s).id \in Ids(s)
      BY <3>1, Popped
    <3>3. QED
      BY <3>1, <3>2 DEF s
  <2>3. input_flow'.buffer = <<>>
    BY <2>2 DEF HeadRemoved
  <2>4. Elements(input_flow'.buffer) = {}
    BY <2>3 DEF Elements
  <2>5. QED
    BY <1>1, <2>1, <2>4 DEF Fills, HeldKept
<1>4. QED
  BY <1>2, <1>3

LEMMA LostFills ==
  ASSUME ReceiverInv, Fills, Receiving \/ ~Holding, ReceptionLost
  PROVE  Fills' /\ HeldKept
<1>1. /\ input_flow'.state = "IDLE"
      /\ input_flow'.buffer = HeadRemoved(input_flow.buffer)
  BY ListOwned DEF ReceptionLost, InputFlow
<1>2. QED
  BY <1>1, FreedFills

LEMMA WrongCfFills ==
  ASSUME ReceiverInv, Fills, NEW frame, received_wrong_cf(frame)
  PROVE  Fills' /\ HeldKept
<1>1. /\ input_flow'.state = "TX_FC"
      /\ input_flow'.fs = "OVERFLOW"
      /\ input_flow'.buffer = HeadRemoved(input_flow.buffer)
  BY ListOwned DEF received_wrong_cf, InputFlow
<1>2. Receiving
  BY DEF received_wrong_cf, Receiving
<1>3. QED
  BY <1>1, <1>2, FreedFills

LEMMA SentFcFills ==
  ASSUME ReceiverInv, Fills, sent_fc
  PROVE  Fills' /\ HeldKept
<1>1. /\ input_flow.state = "TX_FC"
      /\ input_flow'.state = (IF input_flow.fs # "READY" THEN "IDLE" ELSE "WAIT_CF")
      /\ input_flow'.buffer = input_flow.buffer
      /\ input_flow'.remaining_data = input_flow.remaining_data
  BY ListOwned DEF sent_fc, InputFlow
<1>2. Receiving' <=> Receiving
  BY <1>1 DEF Receiving
<1>3. QED
  BY <1>1, <1>2 DEF Fills, HeldKept

LEMMA ReturnedFills ==
  ASSUME ReceiverInv, Fills, NEW b \in BufferId, isotp_received(b)
  PROVE  Fills' /\ HeldKept
<1> DEFINE s == input_flow.buffer
           u == Unlinked(s, CHOOSE i \in DOMAIN s : s[i].id = b)
<1>1. /\ b \in held
      /\ held' = held \ {b}
      /\ input_flow' = [input_flow EXCEPT !.buffer = IF b \in Ids(s) THEN u ELSE s]
  BY DEF isotp_received
<1>2. /\ s \in Seq(Buffer)
      /\ Distinct(s)
      /\ Receiving =>
           /\ s # <<>>
           /\ Tail(s) \in Seq(Buffer)
           /\ Elements(s) = {Head(s)} \cup Elements(Tail(s))
           /\ Head(s).id \notin held
      /\ ~Receiving => held = Ids(s)
      /\ input_flow \in InputFlow
      /\ Receiving => held = Ids(Tail(s)) /\ Ids(s) = {Head(s).id} \cup Ids(Tail(s))
  <2>1. Receiving => held = Ids(Tail(s)) /\ Ids(s) = {Head(s).id} \cup Ids(Tail(s))
    BY ListOwned, Popped DEF ReceiverInv, Owned, BuffersOwned
  <2>2. QED
    BY <2>1, ListOwned
<1> HIDE DEF s, u
<1>3. b \in Ids(s)
  BY <1>1, <1>2
<1>4. /\ u \in Seq(Buffer)
      /\ Distinct(u)
      /\ Elements(u) = {e \in Elements(s) : e.id # b}
      /\ Receiving => u # <<>> /\ Head(u) = Head(s)
  BY <1>1, <1>2, <1>3, UnlinkedOne, ElementsUnlinked DEF u
<1>5. /\ input_flow'.buffer = u
      /\ input_flow'.state = input_flow.state
      /\ input_flow'.fs = input_flow.fs
      /\ input_flow'.remaining_data = input_flow.remaining_data
  BY <1>1, <1>2, <1>3 DEF InputFlow
<1>6. Receiving' <=> Receiving
  BY <1>5 DEF Receiving
<1>7. HeldKept
  BY <1>1, <1>4, <1>5 DEF HeldKept, s
<1>8. CASE ~Receiving
  <2>1. \A e \in Elements(u) : Whole(e)
    BY <1>4, <1>8 DEF Fills, s
  <2>2. QED
    BY <1>5, <1>6, <1>7, <1>8, <2>1 DEF Fills
<1>9. CASE Receiving
  <2>1. ASSUME NEW e \in Elements(Tail(u))
        PROVE  Whole(e)
    <3>1. /\ Elements(u) = {Head(u)} \cup Elements(Tail(u))
          /\ Tail(u) \in Seq(Buffer)
          /\ Head(u).id \notin Ids(Tail(u))
      BY <1>4, <1>9, ElementsPopped, Popped
    <3>2. e.id # Head(s).id
      BY <1>4, <1>9, <3>1, ElementsTyped
    <3>3. e \in Elements(Tail(s))
      BY <1>2, <1>4, <1>9, <3>1, <3>2
    <3>4. QED
      BY <1>9, <3>3 DEF Fills, s
  <2>2. Growing(Head(u), input_flow.remaining_data)
    BY <1>4, <1>9 DEF Fills, s
  <2>3. QED
    BY <1>5, <1>6, <1>7, <1>9, <2>1, <2>2 DEF Fills
<1>10. QED
  BY <1>8, <1>9

LEMMA NextFills ==
  ASSUME ReferencesKept, Inv, Fills, [Next]_vars
  PROVE  Fills' /\ HeldKept
<1> USE DEF Inv
<1>1. ASSUME NEW m \in Outgoing, isotp_send(m)
      PROVE  Fills' /\ HeldKept
  BY <1>1, FillsUntouched DEF isotp_send
<1>2. ASSUME NEW b \in BufferId, isotp_received(b)
      PROVE  Fills' /\ HeldKept
  BY <1>2, ReturnedFills
<1>3. CASE canif_remove
  BY <1>3, FillsUntouched DEF canif_remove
<1>4. ASSUME NEW frame \in PeerFrames, isotp_input(frame)
      PROVE  Fills' /\ HeldKept
  <2>1. frame \in Frame
    BY IsoTpAssumption
  <2>2. CASE received_sf(frame)
    BY <2>1, <2>2, SfFills
  <2>3. CASE received_ff(frame)
    BY <2>1, <2>3, FfFills
  <2>4. CASE received_cf(frame)
    BY <2>1, <2>4, CfFills
  <2>5. CASE received_last_cf(frame)
    BY <2>1, <2>5, LastCfFills
  <2>6. CASE received_wrong_cf(frame)
    BY <2>6, WrongCfFills
  <2>7. CASE received_fc(frame)
    BY <2>7, FillsUntouched DEF received_fc, MessageLost
  <2>8. CASE isotp_input_dropped(frame)
    BY <2>8, FillsUntouched DEF isotp_input_dropped, vars
  <2>9. QED
    BY <1>4, <2>2, <2>3, <2>4, <2>5, <2>6, <2>7, <2>8 DEF isotp_input
<1>5. CASE lwcan_timeouts_handler
  <2>1. CASE isotp_out_flow_output
    BY <2>1, FillsUntouched DEF isotp_out_flow_output, output_accepted, output_refused
  <2>2. CASE isotp_output_error_handler
    BY <2>2, FillsUntouched DEF isotp_output_error_handler, MessageLost
  <2>3. CASE isotp_in_flow_output
    <3>1. CASE flow_control_refused
      BY <3>1, LostFills DEF flow_control_refused, ReferencesKept
    <3>2. CASE UNCHANGED input_flow
      BY <3>2, FillsUntouched
    <3>3. QED
      BY <2>3, <3>1, <3>2 DEF isotp_in_flow_output, flow_control_accepted
  <2>4. CASE isotp_input_error_handler
    <3>1. input_flow.state = "WAIT_CF" /\ ReceptionLost
      BY <2>4 DEF ReceiverInv, InputCounts, isotp_input_error_handler
    <3>2. QED
      BY <3>1, LostFills DEF Receiving
  <2>5. QED
    BY <1>5, <2>1, <2>2, <2>3, <2>4 DEF lwcan_timeouts_handler
<1>6. CASE isotp_sent
  <2>1. CASE sent_sf \/ sent_last_cf \/ sent_ff \/ sent_cf
    <3>1. UNCHANGED input_flow
      BY <2>1 DEF sent_sf, sent_last_cf, sent_ff, sent_cf, Acked
    <3>2. QED
      BY <3>1, FillsUntouched
  <2>2. CASE isotp_sent_error_output
    BY <2>2, FillsUntouched DEF isotp_sent_error_output, MessageLost
  <2>3. CASE sent_fc
    BY <2>3, SentFcFills
  <2>4. CASE isotp_sent_error_input
    BY <2>4, LostFills DEF isotp_sent_error_input, ReferencesKept
  <2>5. QED
    BY <1>6, <2>1, <2>2, <2>3, <2>4 DEF isotp_sent
<1>7. CASE UNCHANGED vars
  BY <1>7, FillsUntouched DEF vars
<1>8. QED
  BY <1>1, <1>2, <1>3, <1>4, <1>5, <1>6, <1>7 DEF Next, Application

LEMMA InitFills == Init => Fills
  BY DEF Init, Fills, Receiving, Elements

(* With the ownership of the buffers, the invariant is what the             *)
(* application relies on.                                                  *)
LEMMA FilledWhenHeld ==
  ASSUME ReceiverInv, Fills
  PROVE  HeldComplete
<1> SUFFICES ASSUME NEW i \in DOMAIN input_flow.buffer, input_flow.buffer[i].id \in held
             PROVE  Filled(input_flow.buffer[i], input_flow.buffer[i].length)
  BY DEF HeldComplete
<1>1. input_flow.buffer[i] \in Elements(input_flow.buffer)
  BY DEF Elements
<1>2. Whole(input_flow.buffer[i])
  BY <1>1, ListOwned DEF Fills
<1>3. QED
  BY <1>2 DEF Whole

(* A message the application gets was put together from its first byte to   *)
(* its last, each consecutive frame where the one before it ended, for      *)
(* every length, block size and order of the frames of the peer.           *)
THEOREM HeldIsComplete ==
  ASSUME ReferencesKept
  PROVE  Spec => []HeldComplete
<1>1. Init => Inv /\ Fills
  BY InitInv, InitFills
<1>2. Inv /\ Fills /\ [Next]_vars => (Inv /\ Fills)'
  BY NextInv, NextFills
<1>3. Inv /\ Fills => HeldComplete
  BY FilledWhenHeld DEF Inv
<1>4. QED
  BY <1>1, <1>2, <1>3, PTL DEF Spec

(* The stack writes nothing to a buffer, and does not free it, while the    *)
(* application has it.                                                     *)
THEOREM HeldIsStable ==
  ASSUME ReferencesKept
  PROVE  Spec => HeldStable
<1>1. Init => Inv /\ Fills
  BY InitInv, InitFills
<1>2. Inv /\ Fills /\ [Next]_vars => (Inv /\ Fills)'
  BY NextInv, NextFills
<1>3. Inv /\ Fills /\ [Next]_vars =>
        \A i \in DOMAIN input_flow.buffer :
          LET buffer == input_flow.buffer[i] IN
          buffer.id \in held \cap held'
            => \E j \in DOMAIN input_flow'.buffer : input_flow'.buffer[j] = buffer
  <2>1. Inv /\ Fills /\ [Next]_vars => HeldKept
    BY NextFills
  <2>2. QED
    BY <2>1 DEF HeldKept, Elements
<1>4. QED
  BY <1>1, <1>2, <1>3, PTL DEF Spec, HeldStable
-----------------------------------------------------------------------------
(* Two ends of a link that loses nothing.  One direction of it is told by   *)
(* values: acc, what the sender accepted; out and txo, its output_flow and  *)
(* the frames of it in its driver; dbus, what is on the bus from it; rbus,  *)
(* what is on the bus to it; in and txi, the receiver's input_flow and the  *)
(* flow control frames in its driver; del, what it delivered.              *)

IsData(f) == f.type # "FC"
HasData(bus) == \E i \in 1..Len(bus) : IsData(bus[i])
HasFc(bus) == \E i \in 1..Len(bus) : ~IsData(bus[i])

(* The only flow control frame a receiver has reason to send.              *)
Go == [type |-> "FC", fs |-> "READY", bs |-> ISOTP_RECEIVE_BS]

(* A place in what is sent: n messages are done, off bytes of the next one, *)
(* and sn is the serial number its next consecutive frame has.             *)
Start(n) == [n |-> n, off |-> 0, sn |-> 0]

(* The frame that is sent there, and the place behind it.                  *)
FrameAt(acc, p) ==
  LET m == acc[p.n + 1] IN
  IF p.off # 0
  THEN [type |-> "CF", sn |-> p.sn, data |-> [msg |-> m, off |-> p.off]]
  ELSE [type |-> IF m.length > SfData THEN "FF" ELSE "SF", dl |-> m.length,
        data |-> [msg |-> m, off |-> 0]]

After(acc, p) ==
  LET m   == acc[p.n + 1]
      end == p.off + Carried(FrameAt(acc, p))
  IN IF end = m.length THEN Start(p.n + 1)
     ELSE [n |-> p.n, off |-> end,
           sn |-> IF p.off = 0 THEN 1 ELSE NextSn(p.sn)]

(* Frame f, between the places p and q.                                    *)
Follows(acc, f, p, q) ==
  IF IsData(f)
  THEN p.n + 1 \in 1..Len(acc) /\ f = FrameAt(acc, p) /\ q = After(acc, p)
  ELSE q = p

(* The frames on the bus lead from where the receiver is to where the       *)
(* sender is.                                                              *)
Chain(acc, bus, r, s) ==
  \E p : /\ p[1] = r
         /\ p[Len(bus) + 1] = s
         /\ \A i \in 1..Len(bus) : Follows(acc, bus[i], p[i], p[i + 1])

LEMMA Appended ==
  ASSUME NEW S, NEW s \in Seq(S), NEW e \in S
  PROVE  /\ Append(s, e) \in Seq(S)
         /\ Len(Append(s, e)) = Len(s) + 1
         /\ Len(s) \in Nat
         /\ \A i \in 1..Len(s) : Append(s, e)[i] = s[i]
         /\ Append(s, e)[Len(s) + 1] = e
  OBVIOUS

LEMMA Shortened ==
  ASSUME NEW S, NEW s \in Seq(S), s # <<>>
  PROVE  /\ Tail(s) \in Seq(S)
         /\ Len(Tail(s)) = Len(s) - 1
         /\ Len(s) \in Nat /\ Len(s) > 0
         /\ Head(s) = s[1] /\ Head(s) \in S
         /\ \A i \in 1..(Len(s) - 1) : Tail(s)[i] = s[i + 1]
  OBVIOUS

LEMMA ChainOfNothing ==
  ASSUME NEW acc, NEW r
  PROVE  Chain(acc, <<>>, r, r)
<1> DEFINE p == [i \in {1} |-> r]
<1>1. p[1] = r /\ Len(<<>>) + 1 = 1 /\ 1..Len(<<>>) = {}
  OBVIOUS
<1> HIDE DEF p
<1> QED
  BY <1>1 DEF Chain

(* A frame put on the bus makes the chain longer, ...                       *)
LEMMA ChainAppended ==
  ASSUME NEW acc, NEW bus \in Seq(Frame), NEW r, NEW s, Chain(acc, bus, r, s),
         NEW f \in Frame, NEW t, Follows(acc, f, s, t)
  PROVE  Chain(acc, Append(bus, f), r, t)
<1>1. PICK p : /\ p[1] = r
               /\ p[Len(bus) + 1] = s
               /\ \A i \in 1..Len(bus) : Follows(acc, bus[i], p[i], p[i + 1])
  BY DEF Chain
<1> DEFINE n == Len(bus)
           q == [i \in 1..(n + 2) |-> IF i = n + 2 THEN t ELSE p[i]]
           longer == Append(bus, f)
<1>2. /\ n \in Nat /\ Len(longer) = n + 1
      /\ \A i \in 1..n : longer[i] = bus[i]
      /\ longer[n + 1] = f
  BY Appended
<1> HIDE DEF n, longer
<1>3. /\ q[n + 2] = t
      /\ \A i \in 1..(n + 1) : q[i] = p[i]
  BY <1>2
<1> HIDE DEF q
<1>4. q[1] = r /\ q[Len(longer) + 1] = t
  BY <1>1, <1>2, <1>3
<1>5. ASSUME NEW i \in 1..Len(longer)
      PROVE  Follows(acc, longer[i], q[i], q[i + 1])
  <2>1. CASE i \in 1..n
    <3>1. q[i] = p[i] /\ q[i + 1] = p[i + 1] /\ longer[i] = bus[i]
      BY <1>2, <1>3, <2>1
    <3> QED
      BY <1>1, <2>1, <3>1 DEF n
  <2>2. CASE i = n + 1
    <3>1. q[i] = s /\ q[i + 1] = t /\ longer[i] = f
      BY <1>1, <1>2, <1>3, <2>2 DEF n
    <3> QED
      BY <3>1
  <2> QED
    BY <1>2, <2>1, <2>2
<1> QED
  BY <1>4, <1>5 DEF Chain, longer

(* ... one taken off it shortens it at the other end.                       *)
LEMMA ChainShortened ==
  ASSUME NEW acc, NEW bus \in Seq(Frame), bus # <<>>,
         NEW r, NEW s, Chain(acc, bus, r, s)
  PROVE  \E t : Follows(acc, Head(bus), r, t) /\ Chain(acc, Tail(bus), t, s)
<1>1. PICK p : /\ p[1] = r
               /\ p[Len(bus) + 1] = s
               /\ \A i \in 1..Len(bus) : Follows(acc, bus[i], p[i], p[i + 1])
  BY DEF Chain
<1> DEFINE n == Len(bus)
           rest == Tail(bus)
           q == [i \in 1..n |-> p[i + 1]]
<1>2. /\ n \in Nat /\ n > 0 /\ Len(rest) = n - 1 /\ Head(bus) = bus[1]
      /\ \A i \in 1..(n - 1) : rest[i] = bus[i + 1]
  BY Shortened
<1> HIDE DEF n, rest
<1>3. \A i \in 1..n : q[i] = p[i + 1]
  OBVIOUS
<1> HIDE DEF q
<1>4. q[1] = p[2] /\ q[Len(rest) + 1] = s
  BY <1>1, <1>2, <1>3 DEF n
<1>5. Follows(acc, Head(bus), r, p[2])
  BY <1>1, <1>2 DEF n
<1>6. ASSUME NEW i \in 1..Len(rest)
      PROVE  Follows(acc, rest[i], q[i], q[i + 1])
  <2>1. i + 1 \in 1..n /\ i + 1 \in 1..Len(bus) /\ i \in 1..n /\ i \in 1..(n - 1)
    BY <1>2 DEF n
  <2>2. rest[i] = bus[i + 1] /\ q[i] = p[i + 1] /\ q[i + 1] = p[(i + 1) + 1]
    BY <1>2, <1>3, <2>1
  <2> QED
    BY <1>1, <2>1, <2>2
<1>7. Chain(acc, rest, p[2], s)
  BY <1>4, <1>6 DEF Chain
<1> QED
  BY <1>5, <1>7 DEF rest

(* A message accepted changes no frame of those before it.                  *)
LEMMA ChainKept ==
  ASSUME NEW acc \in Seq(Messages), NEW m \in Messages, NEW bus, NEW r, NEW s,
         Chain(acc, bus, r, s)
  PROVE  Chain(Append(acc, m), bus, r, s)
<1>1. PICK p : /\ p[1] = r
               /\ p[Len(bus) + 1] = s
               /\ \A i \in 1..Len(bus) : Follows(acc, bus[i], p[i], p[i + 1])
  BY DEF Chain
<1>2. /\ Len(Append(acc, m)) = Len(acc) + 1 /\ Len(acc) \in Nat
      /\ \A i \in 1..Len(acc) : Append(acc, m)[i] = acc[i]
  BY Appended
<1>3. ASSUME NEW f, NEW x, NEW y, Follows(acc, f, x, y)
      PROVE  Follows(Append(acc, m), f, x, y)
  <2>1. CASE ~IsData(f)
    BY <1>3, <2>1 DEF Follows
  <2>2. CASE IsData(f)
    <3>1. x.n + 1 \in 1..Len(acc)
      BY <1>3, <2>2 DEF Follows
    <3>2. Append(acc, m)[x.n + 1] = acc[x.n + 1] /\ x.n + 1 \in 1..Len(Append(acc, m))
      BY <1>2, <3>1
    <3>3. FrameAt(Append(acc, m), x) = FrameAt(acc, x)
      BY <3>2 DEF FrameAt
    <3>4. After(Append(acc, m), x) = After(acc, x)
      BY <3>2, <3>3 DEF After
    <3> QED
      BY <1>3, <2>2, <3>2, <3>3, <3>4 DEF Follows
  <2> QED
    BY <2>1, <2>2
<1> QED
  BY <1>1, <1>3 DEF Chain

(* With no data on the bus both ends are at the same place.                *)
LEMMA ChainWithoutData ==
  ASSUME NEW acc, NEW bus \in Seq(Frame), NEW r, NEW s, Chain(acc, bus, r, s),
         ~HasData(bus)
  PROVE  r = s
<1>1. PICK p : /\ p[1] = r
               /\ p[Len(bus) + 1] = s
               /\ \A i \in 1..Len(bus) : Follows(acc, bus[i], p[i], p[i + 1])
  BY DEF Chain
<1>2. \A i \in 1..Len(bus) : p[i + 1] = p[i]
  BY <1>1 DEF Follows, HasData
<1> DEFINE K == {k \in Nat : k <= Len(bus) => p[k + 1] = r}
<1>3. Len(bus) \in Nat
  OBVIOUS
<1>4. 0 \in K
  BY <1>1
<1>5. ASSUME NEW k \in Nat, k \in K
      PROVE  k + 1 \in K
  <2>1. CASE k + 1 <= Len(bus)
    <3>1. k + 1 \in 1..Len(bus)
      BY <1>3, <2>1
    <3>2. p[(k + 1) + 1] = p[k + 1]
      BY <1>2, <3>1
    <3> QED
      BY <1>3, <1>5, <2>1, <3>2
  <2> QED
    BY <1>3, <2>1
<1> HIDE DEF K
<1>6. Nat \subseteq K
  BY <1>4, <1>5, NatSetInduction
<1>7. Len(bus) \in K
  BY <1>3, <1>6
<1> QED
  BY <1>1, <1>3, <1>7 DEF K

-----------------------------------------------------------------------------
(* Whose turn it is.                                                       *)

(* The data frame the receiver answers with flow control.                  *)
EndsBlock(f) ==
  \/ f.type = "FF"
  \/ /\ f.type = "CF"
     /\ f.data.off + CfData < f.data.msg.length
     /\ ~BlockGoesOn(ISOTP_RECEIVE_BS, f.sn)

(* The sender has handed over such a frame and no answer has come; the      *)
(* receiver has got it and has not handed over the answer.                 *)
AwaitsFc(out, txo) ==
  \/ out.state = "WAIT_FC"
  \/ /\ txo # <<>>
     /\ \/ out.state = "TX_FF"
        \/ /\ out.state = "TX_CF"
           /\ out.remaining_data # 0
           /\ ~BlockGoesOn(out.bs, out.cf_sn)

OwesFc(in, txi) == in.state = "TX_FC" /\ txi = <<>>

(* A data frame on the bus asks for flow control if and only if the sender  *)
(* awaits it and has sent no data behind that frame.                       *)
LastAsks(awaits, dbus) ==
  \A i \in 1..Len(dbus) :
    IsData(dbus[i]) =>
      (EndsBlock(dbus[i])
         <=> awaits /\ \A j \in (i + 1)..Len(dbus) : ~IsData(dbus[j]))

(* At most one flow control frame is on the bus, and it says to go on.      *)
OneGo(rbus) ==
  \A i \in 1..Len(rbus) :
    ~IsData(rbus[i]) => rbus[i] = Go /\ \A j \in 1..Len(rbus) : ~IsData(rbus[j]) => i = j

(* While the sender awaits flow control exactly one of these is on its way: *)
(* data the last of which asks for it, the receiver's turn, the flow        *)
(* control frame.  Otherwise nothing on its way asks for flow control or    *)
(* gives it.                                                               *)
Turn(awaits, owes, dbus, rbus) ==
  /\ OneGo(rbus)
  /\ LastAsks(awaits, dbus)
  /\ awaits =>
       \/ HasData(dbus) /\ ~owes /\ ~HasFc(rbus)
       \/ ~HasData(dbus) /\ owes /\ ~HasFc(rbus)
       \/ ~HasData(dbus) /\ ~owes /\ HasFc(rbus)
  /\ ~awaits => ~owes /\ ~HasFc(rbus)

(* What a frame put on a bus, or taken off it, makes of HasData and HasFc.  *)
LEMMA PutOn ==
  ASSUME NEW bus \in Seq(Frame), NEW f \in Frame
  PROVE  /\ HasData(Append(bus, f)) <=> HasData(bus) \/ IsData(f)
         /\ HasFc(Append(bus, f)) <=> HasFc(bus) \/ ~IsData(f)
<1> DEFINE n == Len(bus)
           longer == Append(bus, f)
<1>1. /\ n \in Nat /\ Len(longer) = n + 1
      /\ \A i \in 1..n : longer[i] = bus[i]
      /\ longer[n + 1] = f
  BY Appended
<1> HIDE DEF longer, n
<1>2. \A i \in 1..(n + 1) : i \in 1..n \/ i = n + 1
  BY <1>1
<1>3. (\A i \in 1..n : i \in 1..(n + 1)) /\ n + 1 \in 1..(n + 1)
  BY <1>1
<1>4. HasData(longer) <=> HasData(bus) \/ IsData(f)
  BY <1>1, <1>2, <1>3 DEF HasData, n
<1>5. HasFc(longer) <=> HasFc(bus) \/ ~IsData(f)
  BY <1>1, <1>2, <1>3 DEF HasFc, n
<1> QED
  BY <1>4, <1>5 DEF longer

LEMMA TakenOff ==
  ASSUME NEW bus \in Seq(Frame), bus # <<>>
  PROVE  /\ HasData(bus) <=> HasData(Tail(bus)) \/ IsData(Head(bus))
         /\ HasFc(bus) <=> HasFc(Tail(bus)) \/ ~IsData(Head(bus))
<1> DEFINE n == Len(bus)
           rest == Tail(bus)
<1>1. /\ n \in Nat /\ n > 0 /\ Len(rest) = n - 1 /\ Head(bus) = bus[1]
      /\ \A i \in 1..(n - 1) : rest[i] = bus[i + 1]
  BY Shortened
<1> HIDE DEF rest, n
<1>2. \A i \in 1..n : i = 1 \/ (i - 1 \in 1..(n - 1) /\ rest[i - 1] = bus[i])
  BY <1>1
<1>3. (\A i \in 1..(n - 1) : i + 1 \in 1..n) /\ 1 \in 1..n
  BY <1>1
<1>4. HasData(bus) <=> HasData(rest) \/ IsData(Head(bus))
  BY <1>1, <1>2, <1>3 DEF HasData, n
<1>5. HasFc(bus) <=> HasFc(rest) \/ ~IsData(Head(bus))
  BY <1>1, <1>2, <1>3 DEF HasFc, n
<1> QED
  BY <1>4, <1>5 DEF rest

(* The data frame the sender puts on the bus is now the last.               *)
LEMMA DataAsks ==
  ASSUME NEW dbus \in Seq(Frame), NEW f \in Frame, IsData(f), LastAsks(FALSE, dbus)
  PROVE  LastAsks(EndsBlock(f), Append(dbus, f))
<1> DEFINE n == Len(dbus)
           longer == Append(dbus, f)
<1>1. /\ n \in Nat /\ Len(longer) = n + 1
      /\ \A i \in 1..n : longer[i] = dbus[i]
      /\ longer[n + 1] = f
  BY Appended
<1>2. \A i \in 1..n : IsData(dbus[i]) => ~EndsBlock(dbus[i])
  BY DEF LastAsks
<1> HIDE DEF longer, n
<1>3. ASSUME NEW i \in 1..(n + 1), IsData(longer[i])
      PROVE  EndsBlock(longer[i])
               <=> EndsBlock(f) /\ \A j \in (i + 1)..(n + 1) : ~IsData(longer[j])
  <2>1. CASE i \in 1..n
    <3>1. n + 1 \in (i + 1)..(n + 1)
      BY <1>1, <2>1
    <3>2. longer[i] = dbus[i] /\ IsData(longer[n + 1])
      BY <1>1, <2>1
    <3> QED
      BY <1>2, <1>3, <2>1, <3>1, <3>2
  <2>2. CASE i = n + 1
    <3>1. (i + 1)..(n + 1) = {} /\ longer[i] = f
      BY <1>1, <2>2
    <3> QED
      BY <3>1
  <2> QED
    BY <1>1, <2>1, <2>2
<1> QED
  BY <1>1, <1>3 DEF LastAsks, longer

LEMMA FcAsksNothing ==
  ASSUME NEW dbus \in Seq(Frame), NEW f \in Frame, ~IsData(f),
         NEW awaits, LastAsks(awaits, dbus)
  PROVE  LastAsks(awaits, Append(dbus, f))
<1> DEFINE n == Len(dbus)
           longer == Append(dbus, f)
<1>1. /\ n \in Nat /\ Len(longer) = n + 1
      /\ \A i \in 1..n : longer[i] = dbus[i]
      /\ longer[n + 1] = f
  BY Appended
<1> HIDE DEF longer
<1>3. ASSUME NEW i \in 1..(n + 1), IsData(longer[i])
      PROVE  EndsBlock(longer[i])
               <=> awaits /\ \A j \in (i + 1)..(n + 1) : ~IsData(longer[j])
  <2>1. i \in 1..n /\ longer[i] = dbus[i]
    BY <1>1, <1>3
  <2>2. EndsBlock(dbus[i]) <=> awaits /\ \A j \in (i + 1)..n : ~IsData(dbus[j])
    BY <1>3, <2>1 DEF LastAsks
  <2>3. (\A j \in (i + 1)..(n + 1) : ~IsData(longer[j]))
          <=> \A j \in (i + 1)..n : ~IsData(dbus[j])
    <3>1. ASSUME NEW j \in (i + 1)..n
          PROVE  j \in (i + 1)..(n + 1) /\ longer[j] = dbus[j]
      BY <1>1, <2>1
    <3>2. ASSUME NEW j \in (i + 1)..(n + 1)
          PROVE  j \in (i + 1)..n \/ ~IsData(longer[j])
      <4>1. j = n + 1 \/ j \in (i + 1)..n
        BY <1>1, <2>1
      <4> QED
        BY <1>1, <4>1
    <3> HIDE DEF n
    <3> QED
      BY <3>1, <3>2
  <2> QED
    BY <2>1, <2>2, <2>3
<1> QED
  BY <1>1, <1>3 DEF LastAsks, longer

(* The first data frame asks for flow control when no other is behind it.   *)
LEMMA RestAsks ==
  ASSUME NEW dbus \in Seq(Frame), dbus # <<>>, NEW awaits, LastAsks(awaits, dbus)
  PROVE  /\ LastAsks(awaits, Tail(dbus))
         /\ IsData(Head(dbus)) =>
              (EndsBlock(Head(dbus)) <=> awaits /\ ~HasData(Tail(dbus)))
<1> DEFINE n == Len(dbus)
           rest == Tail(dbus)
<1>1. /\ n \in Nat /\ n > 0 /\ Len(rest) = n - 1 /\ Head(dbus) = dbus[1]
      /\ \A i \in 1..(n - 1) : rest[i] = dbus[i + 1]
  BY Shortened
<1> HIDE DEF rest
<1>2. ASSUME NEW i \in 0..(n - 1)
      PROVE  (\A j \in (i + 1)..(n - 1) : ~IsData(rest[j]))
               <=> \A j \in ((i + 1) + 1)..n : ~IsData(dbus[j])
  <2>1. ASSUME NEW j \in (i + 1)..(n - 1)
        PROVE  j + 1 \in ((i + 1) + 1)..n /\ rest[j] = dbus[j + 1]
    BY <1>1
  <2>2. ASSUME NEW j \in ((i + 1) + 1)..n
        PROVE  j - 1 \in (i + 1)..(n - 1) /\ rest[j - 1] = dbus[j]
    <3>1. j - 1 \in (i + 1)..(n - 1) /\ j - 1 \in 1..(n - 1) /\ (j - 1) + 1 = j
      BY <1>1
    <3> QED
      BY <1>1, <3>1
  <2> HIDE DEF n
  <2> QED
    BY <2>1, <2>2
<1>3. ASSUME NEW i \in 1..(n - 1), IsData(rest[i])
      PROVE  EndsBlock(rest[i])
               <=> awaits /\ \A j \in (i + 1)..(n - 1) : ~IsData(rest[j])
  <2>1. i + 1 \in 1..n /\ rest[i] = dbus[i + 1] /\ i \in 0..(n - 1)
    BY <1>1
  <2>2. EndsBlock(dbus[i + 1])
          <=> awaits /\ \A j \in ((i + 1) + 1)..n : ~IsData(dbus[j])
    BY <1>3, <2>1 DEF LastAsks
  <2> HIDE DEF n
  <2> QED
    BY <1>2, <2>1, <2>2
<1>4. LastAsks(awaits, rest)
  BY <1>1, <1>3 DEF LastAsks
<1>5. ASSUME IsData(Head(dbus))
      PROVE  EndsBlock(Head(dbus)) <=> awaits /\ ~HasData(rest)
  <2>1. 1 \in 1..n /\ 0 \in 0..(n - 1) /\ (0 + 1)..(n - 1) = 1..Len(rest)
          /\ ((0 + 1) + 1)..n = (1 + 1)..n
    BY <1>1
  <2>2. EndsBlock(dbus[1]) <=> awaits /\ \A j \in (1 + 1)..n : ~IsData(dbus[j])
    BY <1>1, <1>5, <2>1 DEF LastAsks
  <2> HIDE DEF n
  <2>3. (\A j \in 1..Len(rest) : ~IsData(rest[j]))
          <=> \A j \in (1 + 1)..n : ~IsData(dbus[j])
    BY <1>2, <2>1
  <2> QED
    BY <1>1, <2>2, <2>3 DEF HasData
<1> QED
  BY <1>4, <1>5 DEF rest

LEMMA GoPut ==
  ASSUME NEW rbus \in Seq(Frame), NEW f \in Frame, OneGo(rbus),
         IsData(f) \/ (f = Go /\ ~HasFc(rbus))
  PROVE  OneGo(Append(rbus, f))
<1> DEFINE n == Len(rbus)
           longer == Append(rbus, f)
<1>1. /\ n \in Nat /\ Len(longer) = n + 1
      /\ \A i \in 1..n : longer[i] = rbus[i]
      /\ longer[n + 1] = f
  BY Appended
<1>2. \A i \in 1..n : ~IsData(rbus[i]) =>
        rbus[i] = Go /\ \A j \in 1..n : ~IsData(rbus[j]) => i = j
  BY DEF OneGo
<1>3. (\A i \in 1..n : IsData(rbus[i])) \/ IsData(f)
  BY DEF HasFc
<1>4. f = Go \/ IsData(f)
  OBVIOUS
<1> HIDE DEF longer, n
<1>5. \A i \in 1..(n + 1) : i \in 1..n \/ i = n + 1
  BY <1>1
<1>6. ASSUME NEW i \in 1..(n + 1), ~IsData(longer[i])
      PROVE  longer[i] = Go /\ \A j \in 1..(n + 1) : ~IsData(longer[j]) => i = j
  BY <1>1, <1>2, <1>3, <1>4, <1>5, <1>6
<1> QED
  BY <1>1, <1>6 DEF OneGo, longer

LEMMA GoTaken ==
  ASSUME NEW rbus \in Seq(Frame), rbus # <<>>, OneGo(rbus)
  PROVE  /\ OneGo(Tail(rbus))
         /\ ~IsData(Head(rbus)) => Head(rbus) = Go /\ ~HasFc(Tail(rbus))
<1> DEFINE n == Len(rbus)
           rest == Tail(rbus)
<1>1. /\ n \in Nat /\ n > 0 /\ Len(rest) = n - 1 /\ Head(rbus) = rbus[1]
      /\ \A i \in 1..(n - 1) : rest[i] = rbus[i + 1]
  BY Shortened
<1>2. \A i \in 1..n : ~IsData(rbus[i]) =>
        rbus[i] = Go /\ \A j \in 1..n : ~IsData(rbus[j]) => i = j
  BY DEF OneGo
<1> HIDE DEF rest, n
<1>3. \A i \in 1..(n - 1) : i + 1 \in 1..n /\ rest[i] = rbus[i + 1] /\ i + 1 # 1
  BY <1>1
<1>4. 1 \in 1..n
  BY <1>1
<1>5. ASSUME NEW i \in 1..(n - 1), ~IsData(rest[i])
      PROVE  rest[i] = Go /\ \A j \in 1..(n - 1) : ~IsData(rest[j]) => i = j
  <2>1. i + 1 \in 1..n /\ rest[i] = Go
    BY <1>2, <1>3, <1>5
  <2>2. ASSUME NEW j \in 1..(n - 1), ~IsData(rest[j])
        PROVE  i = j
    <3>1. i + 1 = j + 1
      BY <1>2, <1>3, <1>5, <2>2
    <3> QED
      BY <3>1
  <2> QED
    BY <2>1, <2>2
<1>6. ASSUME ~IsData(Head(rbus)) PROVE Head(rbus) = Go /\ ~HasFc(rest)
  BY <1>1, <1>2, <1>3, <1>4, <1>6 DEF HasFc
<1> QED
  BY <1>1, <1>5, <1>6 DEF OneGo, rest

(* The sender hands a data frame over: it does not await flow control, and  *)
(* does from now on if the frame asks for it.                              *)
LEMMA TurnDataPut ==
  ASSUME NEW owes \in BOOLEAN, NEW dbus \in Seq(Frame), NEW rbus \in Seq(Frame),
         Turn(FALSE, owes, dbus, rbus), NEW f \in Frame, IsData(f)
  PROVE  Turn(EndsBlock(f), owes, Append(dbus, f), rbus)
<1>1. LastAsks(EndsBlock(f), Append(dbus, f)) /\ HasData(Append(dbus, f))
  BY DataAsks, PutOn DEF Turn
<1> QED
  BY <1>1 DEF Turn

(* Frames of the other direction do not count.                             *)
LEMMA TurnOtherPut ==
  ASSUME NEW awaits \in BOOLEAN, NEW owes \in BOOLEAN,
         NEW dbus \in Seq(Frame), NEW rbus \in Seq(Frame),
         Turn(awaits, owes, dbus, rbus), NEW f \in Frame
  PROVE  /\ ~IsData(f) => Turn(awaits, owes, Append(dbus, f), rbus)
         /\ IsData(f) => Turn(awaits, owes, dbus, Append(rbus, f))
<1>1. ASSUME ~IsData(f) PROVE Turn(awaits, owes, Append(dbus, f), rbus)
  <2>1. /\ LastAsks(awaits, Append(dbus, f))
        /\ HasData(Append(dbus, f)) <=> HasData(dbus)
    BY <1>1, FcAsksNothing, PutOn DEF Turn
  <2> QED
    BY <2>1 DEF Turn
<1>2. ASSUME IsData(f) PROVE Turn(awaits, owes, dbus, Append(rbus, f))
  <2>1. OneGo(Append(rbus, f)) /\ (HasFc(Append(rbus, f)) <=> HasFc(rbus))
    BY <1>2, GoPut, PutOn DEF Turn
  <2> QED
    BY <2>1 DEF Turn
<1> QED
  BY <1>1, <1>2

LEMMA TurnOtherTaken ==
  ASSUME NEW awaits \in BOOLEAN, NEW owes \in BOOLEAN,
         NEW dbus \in Seq(Frame), NEW rbus \in Seq(Frame),
         Turn(awaits, owes, dbus, rbus)
  PROVE  /\ dbus # <<>> /\ ~IsData(Head(dbus)) => Turn(awaits, owes, Tail(dbus), rbus)
         /\ rbus # <<>> /\ IsData(Head(rbus)) => Turn(awaits, owes, dbus, Tail(rbus))
<1>1. ASSUME dbus # <<>>, ~IsData(Head(dbus))
      PROVE  Turn(awaits, owes, Tail(dbus), rbus)
  <2>1. /\ LastAsks(awaits, Tail(dbus))
        /\ HasData(Tail(dbus)) <=> HasData(dbus)
    BY <1>1, RestAsks, TakenOff DEF Turn
  <2> QED
    BY <2>1 DEF Turn
<1>2. ASSUME rbus # <<>>, IsData(Head(rbus))
      PROVE  Turn(awaits, owes, dbus, Tail(rbus))
  <2>1. OneGo(Tail(rbus)) /\ (HasFc(Tail(rbus)) <=> HasFc(rbus))
    BY <1>2, GoTaken, TakenOff DEF Turn
  <2> QED
    BY <2>1 DEF Turn
<1> QED
  BY <1>1, <1>2

(* The receiver hands over the flow control frame it owes.                  *)
LEMMA TurnGoPut ==
  ASSUME NEW awaits \in BOOLEAN, NEW dbus \in Seq(Frame), NEW rbus \in Seq(Frame),
         Turn(awaits, TRUE, dbus, rbus)
  PROVE  Go \in Frame => Turn(awaits, FALSE, dbus, Append(rbus, Go))
<1> SUFFICES ASSUME Go \in Frame PROVE Turn(awaits, FALSE, dbus, Append(rbus, Go))
  OBVIOUS
<1>1. awaits /\ ~HasData(dbus) /\ ~HasFc(rbus)
  BY DEF Turn
<1>2. ~IsData(Go)
  BY DEF IsData, Go
<1>3. OneGo(Append(rbus, Go)) /\ HasFc(Append(rbus, Go))
  BY <1>1, <1>2, GoPut, PutOn DEF Turn
<1> QED
  BY <1>1, <1>3 DEF Turn

(* The sender gets it: it was waiting for it, and no data is under way.     *)
LEMMA TurnGoTaken ==
  ASSUME NEW awaits \in BOOLEAN, NEW owes \in BOOLEAN,
         NEW dbus \in Seq(Frame), NEW rbus \in Seq(Frame),
         Turn(awaits, owes, dbus, rbus), rbus # <<>>, ~IsData(Head(rbus))
  PROVE  /\ awaits /\ ~owes /\ ~HasData(dbus) /\ Head(rbus) = Go
         /\ Turn(FALSE, owes, dbus, Tail(rbus))
<1>1. HasFc(rbus) /\ OneGo(Tail(rbus)) /\ Head(rbus) = Go /\ ~HasFc(Tail(rbus))
  BY GoTaken, TakenOff DEF Turn
<1>2. awaits /\ ~owes /\ ~HasData(dbus)
  BY <1>1 DEF Turn
<1>3. LastAsks(FALSE, dbus)
  BY <1>2 DEF LastAsks, HasData
<1> QED
  BY <1>1, <1>2, <1>3 DEF Turn

(* The receiver gets data: it owes nothing, and does from now on if the     *)
(* frame asks for it.                                                      *)
LEMMA TurnDataTaken ==
  ASSUME NEW awaits \in BOOLEAN, NEW owes \in BOOLEAN,
         NEW dbus \in Seq(Frame), NEW rbus \in Seq(Frame),
         Turn(awaits, owes, dbus, rbus), dbus # <<>>, IsData(Head(dbus))
  PROVE  /\ ~owes /\ ~HasFc(rbus)
         /\ Turn(awaits, EndsBlock(Head(dbus)), Tail(dbus), rbus)
<1>1. /\ HasData(dbus)
      /\ LastAsks(awaits, Tail(dbus))
      /\ EndsBlock(Head(dbus)) <=> awaits /\ ~HasData(Tail(dbus))
  BY RestAsks, TakenOff DEF Turn
<1> QED
  BY <1>1 DEF Turn

(* Nothing on the bus: the receiver owes flow control if the sender awaits  *)
(* it.                                                                     *)
LEMMA TurnOfSilence ==
  ASSUME NEW awaits \in BOOLEAN, NEW owes \in BOOLEAN, Turn(awaits, owes, <<>>, <<>>)
  PROVE  awaits <=> owes
<1>1. ~HasData(<<>>) /\ ~HasFc(<<>>)
  BY DEF HasData, HasFc
<1> QED
  BY <1>1 DEF Turn

-----------------------------------------------------------------------------
(* The sender's part.                                                      *)

SendPosition(acc, out, txo) ==
  IF out.state = "IDLE" \/ (txo # <<>> /\ out.remaining_data = 0)
  THEN Start(Len(acc))
  ELSE LET off == acc[Len(acc)].length - out.remaining_data IN
       IF off = 0 THEN Start(Len(acc) - 1)
       ELSE [n |-> Len(acc) - 1, off |-> off,
             sn |-> IF out.state = "TX_CF" /\ txo # <<>> THEN NextSn(out.cf_sn)
                                                         ELSE out.cf_sn]

(* It sends the latest message, and goes by the block size of the receiver. *)
SenderOK(acc, out, txo) ==
  /\ acc \in Seq(Messages)
  /\ out.state # "IDLE" => acc # <<>> /\ Head(out.buffer) = acc[Len(acc)]
  /\ out.state = "TX_FF" => out.cf_sn = 1
  /\ out.state \in {"WAIT_FC", "TX_CF"} =>
       out.remaining_data + FfData <= acc[Len(acc)].length
  /\ out.state = "TX_CF" => out.bs = ISOTP_RECEIVE_BS
  /\ \A i \in 1..Len(txo) : IsData(txo[i])

LEMMA EmptyIs ==
  ASSUME NEW S, NEW s \in Seq(S)
  PROVE  s = <<>> <=> Len(s) = 0
  OBVIOUS

(* isotp_send begins where the message before ended.                       *)
LEMMA SendBegins ==
  ASSUME Inv, NEW m \in Outgoing, isotp_send(m),
         NEW acc, SenderOK(acc, output_flow, tx["output"])
  PROVE  /\ SenderOK(Append(acc, m), output_flow', tx'["output"])
         /\ SendPosition(Append(acc, m), output_flow', tx'["output"])
              = SendPosition(acc, output_flow, tx["output"])
         /\ ~AwaitsFc(output_flow, tx["output"])
         /\ ~AwaitsFc(output_flow', tx'["output"])
         /\ m \in Messages
         /\ UNCHANGED <<input_flow, tx>>
<1>0. /\ output_flow \in OutputFlow
      /\ Len(output_flow.buffer) = 0
      /\ output_flow.state = "IDLE"
      /\ tx["output"] = <<>>
      /\ UNCHANGED <<input_flow, tx>>
  <2>1. tx["output"] \in Seq(Frame) /\ output_flow \in OutputFlow
    BY SenderTypes DEF Inv, SenderInv
  <2>2. Len(tx["output"]) = 0 /\ Len(output_flow.buffer) = 0 /\ output_flow.state = "IDLE"
    BY DEF Inv, SenderInv, OutputCounts, Remaining, isotp_send, Transmitting
  <2> QED
    BY <2>1, <2>2, EmptyIs DEF isotp_send
<1>1. m \in Messages /\ m.length \in 1..FF_DL_MAX /\ m.length \in Nat
  BY IsoTpAssumption, LengthPositive
<1>2. Head(<<m>> \o output_flow.buffer) = m
  BY <1>0, OneOnEmpty DEF OutputFlow
<1>3. /\ output_flow'.state = (IF m.length > SfData THEN "TX_FF" ELSE "TX_SF")
      /\ Head(output_flow'.buffer) = m
      /\ output_flow'.remaining_data = m.length
      /\ m.length > SfData => output_flow'.cf_sn = 1
  BY <1>0, <1>2 DEF isotp_send, OutputFlow
<1>4. /\ Append(acc, m) \in Seq(Messages)
      /\ Len(Append(acc, m)) = Len(acc) + 1
      /\ Len(acc) \in Nat
      /\ Append(acc, m)[Len(acc) + 1] = m
  <2>1. acc \in Seq(Messages)
    BY DEF SenderOK
  <2> QED
    BY <1>1, <2>1, Appended
<1> DEFINE more == Append(acc, m)
<1> HIDE DEF more
<1>5. SenderOK(more, output_flow', tx'["output"])
  <2>1. more # <<>>
    BY <1>4, EmptyIs DEF more
  <2>2. 1..Len(tx'["output"]) = {}
    BY <1>0
  <2>3. more \in Seq(Messages) /\ more[Len(more)] = m
    BY <1>4 DEF more
  <2> QED
    BY <1>3, <2>1, <2>2, <2>3 DEF SenderOK
<1>6. SendPosition(more, output_flow', tx'["output"]) = Start(Len(acc))
  <2>1. more[Len(more)].length - output_flow'.remaining_data = 0
    BY <1>1, <1>3, <1>4 DEF more
  <2>2. Len(more) - 1 = Len(acc)
    BY <1>4 DEF more
  <2>3. output_flow'.state # "IDLE" /\ tx'["output"] = <<>>
    BY <1>0, <1>3
  <2> QED
    BY <2>1, <2>2, <2>3 DEF SendPosition
<1>7. SendPosition(acc, output_flow, tx["output"]) = Start(Len(acc))
  BY <1>0 DEF SendPosition
<1>8. /\ ~AwaitsFc(output_flow, tx["output"])
      /\ ~AwaitsFc(output_flow', tx'["output"])
  BY <1>0, <1>3 DEF AwaitsFc
<1> QED
  BY <1>0, <1>1, <1>5, <1>6, <1>7, <1>8 DEF more

(* Where the sender is, in the terms of its flow.                          *)
LEMMA SendPositions ==
  ASSUME NEW acc \in Seq(Messages), acc # <<>>, NEW out, NEW txo,
         out.state # "IDLE", out.remaining_data \in Nat,
         acc[Len(acc)].length \in Nat
  PROVE  LET len == acc[Len(acc)].length
             n   == Len(acc) - 1
             off == len - out.remaining_data
         IN /\ txo # <<>> /\ out.remaining_data = 0 =>
                 SendPosition(acc, out, txo) = Start(n + 1)
            /\ (txo = <<>> \/ out.remaining_data # 0) /\ off = 0 =>
                 SendPosition(acc, out, txo) = Start(n)
            /\ (txo = <<>> \/ out.remaining_data # 0) /\ off # 0 =>
                 SendPosition(acc, out, txo)
                   = [n |-> n, off |-> off,
                      sn |-> IF out.state = "TX_CF" /\ txo # <<>>
                             THEN NextSn(out.cf_sn) ELSE out.cf_sn]
<1>1. Len(acc) \in Nat /\ (Len(acc) - 1) + 1 = Len(acc)
  OBVIOUS
<1> QED
  BY <1>1 DEF SendPosition

LEMMA MessageLength ==
  ASSUME NEW m \in Messages
  PROVE  m.length \in Nat /\ m.length > 0 /\ m.length \in 1..FF_DL_MAX
<1>1. m.length \in 1..FF_DL_MAX
  BY IsoTpAssumption
<1>2. \A k \in 1..FF_DL_MAX : k \in Nat /\ k > 0
  BY DEF FF_DL_MAX
<1> QED
  BY <1>1, <1>2

(* The frame at the start of a message, and the place behind it.           *)
LEMMA AtStart ==
  ASSUME NEW acc, NEW n \in Nat, NEW m \in Messages, m = acc[n + 1]
  PROVE  /\ m.length <= SfData =>
              /\ FrameAt(acc, Start(n)) = [type |-> "SF", dl |-> m.length,
                                           data |-> [msg |-> m, off |-> 0]]
              /\ After(acc, Start(n)) = Start(n + 1)
         /\ m.length > SfData =>
              /\ FrameAt(acc, Start(n)) = [type |-> "FF", dl |-> m.length,
                                           data |-> [msg |-> m, off |-> 0]]
              /\ After(acc, Start(n)) = [n |-> n, off |-> FfData, sn |-> 1]
<1> DEFINE f == FrameAt(acc, Start(n))
           end == 0 + Carried(f)
<1>1. m.length \in Nat
  BY MessageLength
<1>2. Start(n).n = n /\ Start(n).off = 0
  BY DEF Start
<1>3. f = [type |-> IF m.length > SfData THEN "FF" ELSE "SF", dl |-> m.length,
           data |-> [msg |-> m, off |-> 0]]
  BY <1>2 DEF FrameAt
<1> HIDE DEF f
<1>4. After(acc, Start(n)) = IF end = m.length THEN Start(n + 1)
                             ELSE [n |-> n, off |-> end, sn |-> 1]
  BY <1>2 DEF After, f
<1>5. ASSUME m.length <= SfData
      PROVE  /\ f = [type |-> "SF", dl |-> m.length, data |-> [msg |-> m, off |-> 0]]
             /\ After(acc, Start(n)) = Start(n + 1)
  <2>1. ~(m.length > SfData)
    BY <1>1, <1>5 DEF SfData
  <2>2. f = [type |-> "SF", dl |-> m.length, data |-> [msg |-> m, off |-> 0]]
    BY <1>3, <2>1
  <2>3. Carried(f) = m.length
    BY <2>2 DEF Carried
  <2>4. end = m.length
    BY <1>1, <2>3
  <2> QED
    BY <1>4, <2>2, <2>4
<1>6. ASSUME m.length > SfData
      PROVE  /\ f = [type |-> "FF", dl |-> m.length, data |-> [msg |-> m, off |-> 0]]
             /\ After(acc, Start(n)) = [n |-> n, off |-> FfData, sn |-> 1]
  <2>1. f = [type |-> "FF", dl |-> m.length, data |-> [msg |-> m, off |-> 0]]
    BY <1>3, <1>6
  <2>2. Carried(f) = FfData
    BY <2>1 DEF Carried
  <2>3. end = FfData /\ FfData # m.length
    BY <1>1, <1>6, <2>2 DEF FfData, SfData
  <2> QED
    BY <1>4, <2>1, <2>3
<1> QED
  BY <1>5, <1>6 DEF f

(* The frame in the middle of one.                                         *)
LEMMA AtMiddle ==
  ASSUME NEW acc, NEW n \in Nat, NEW m \in Messages, m = acc[n + 1],
         NEW off \in Nat, off # 0, NEW left \in Nat, m.length - off = left,
         NEW sn, NEW p, p = [n |-> n, off |-> off, sn |-> sn]
  PROVE  /\ FrameAt(acc, p)
              = [type |-> "CF", sn |-> sn, data |-> [msg |-> m, off |-> off]]
         /\ left <= CfData => After(acc, p) = Start(n + 1)
         /\ left > CfData =>
              After(acc, p) = [n |-> n, off |-> off + CfData, sn |-> NextSn(sn)]
<1> DEFINE f == FrameAt(acc, p)
           end == off + Carried(f)
<1>1. m.length \in Nat
  BY MessageLength
<1>2. p.n = n /\ p.off = off /\ p.sn = sn
  OBVIOUS
<1>3. f = [type |-> "CF", sn |-> sn, data |-> [msg |-> m, off |-> off]]
  BY <1>2 DEF FrameAt
<1> HIDE DEF f
<1>4. After(acc, p) = IF end = m.length THEN Start(n + 1)
                      ELSE [n |-> n, off |-> end, sn |-> NextSn(sn)]
  BY <1>2 DEF After, f
<1>5. Carried(f) = Least(CfData, left)
  BY <1>3 DEF Carried
<1>6. ASSUME left <= CfData
      PROVE  After(acc, p) = Start(n + 1)
  <2>1. Least(CfData, left) = left
    BY <1>6 DEF Least, CfData
  <2>2. end = m.length
    BY <1>1, <1>5, <2>1
  <2> QED
    BY <1>4, <2>2
<1>7. ASSUME left > CfData
      PROVE  After(acc, p) = [n |-> n, off |-> off + CfData, sn |-> NextSn(sn)]
  <2>1. Least(CfData, left) = CfData
    BY <1>7 DEF Least, CfData
  <2>2. end = off + CfData /\ off + CfData # m.length
    BY <1>1, <1>5, <1>7, <2>1 DEF CfData
  <2> QED
    BY <1>4, <2>2
<1> QED
  BY <1>3, <1>6, <1>7 DEF f

(* What the sender has in hand, by its state.                              *)
LEMMA Transmits ==
  ASSUME Inv, NEW acc, SenderOK(acc, output_flow, tx["output"]),
         output_flow.state # "IDLE"
  PROVE  /\ acc \in Seq(Messages) /\ acc # <<>>
         /\ Len(acc) \in Nat /\ Len(acc) > 0 /\ Len(acc) - 1 \in Nat
         /\ (Len(acc) - 1) + 1 = Len(acc)
         /\ Message = acc[Len(acc)]
         /\ Message \in Messages
         /\ Message.length \in Nat
         /\ output_flow.remaining_data \in Nat
         /\ output_flow.remaining_data <= Message.length
         /\ tx["output"] \in Seq(Frame)
         /\ tx["output"] = <<>> <=> Len(tx["output"]) = 0
         /\ Len(tx["output"]) \in Nat /\ Len(tx["output"]) <= 1
<1>1. /\ acc \in Seq(Messages) /\ acc # <<>>
      /\ Message = acc[Len(acc)]
  BY DEF SenderOK, Message
<1>2. Len(acc) \in Nat /\ Len(acc) > 0 /\ acc[Len(acc)] \in Messages
  BY <1>1
<1>3. Len(acc) - 1 \in Nat /\ (Len(acc) - 1) + 1 = Len(acc)
  BY <1>2
<1>4. Message \in Messages /\ Message.length \in Nat
  BY <1>1, <1>2, MessageLength
<1>5. output_flow.remaining_data \in Nat /\ tx["output"] \in Seq(Frame)
        /\ Len(tx["output"]) \in Nat
  BY SenderTypes DEF Inv, SenderInv
<1>6. output_flow.remaining_data <= Message.length
  BY DEF Inv, SenderInv, Remaining
<1>7. Len(tx["output"]) <= 1
  <2>1. timeouts["isotp_out_flow_output"] \in Nat
    BY SenderTypes DEF Inv, SenderInv, Counted
  <2> QED
    BY <1>5, <2>1 DEF Inv, SenderInv, OutputCounts
<1>8. tx["output"] = <<>> <=> Len(tx["output"]) = 0
  BY <1>5, EmptyIs
<1> QED
  BY <1>1, <1>2, <1>3, <1>4, <1>5, <1>6, <1>7, <1>8

(* The frame the sender hands over is the one that is due, and asks for     *)
(* flow control exactly when the sender will wait for it.                  *)
LEMMA FramePut ==
  ASSUME Inv, attached, FailingFlows = {}, isotp_out_flow_output,
         NEW acc, SenderOK(acc, output_flow, tx["output"])
  PROVE  /\ OutputFrame \in Frame /\ IsData(OutputFrame)
         /\ Follows(acc, OutputFrame, SendPosition(acc, output_flow, tx["output"]),
                    SendPosition(acc, output_flow', tx'["output"]))
         /\ ~AwaitsFc(output_flow, tx["output"])
         /\ AwaitsFc(output_flow', tx'["output"]) <=> EndsBlock(OutputFrame)
         /\ SenderOK(acc, output_flow', tx'["output"])
         /\ UNCHANGED input_flow /\ tx'["input"] = tx["input"]
         /\ Emitted = <<OutputFrame>>
<1> DEFINE f == OutputFrame
           n == Len(acc) - 1
           left == output_flow.remaining_data
           off == Message.length - left
           old == SendPosition(acc, output_flow, tx["output"])
           new == SendPosition(acc, output_flow', tx'["output"])
<1>1. /\ output_flow.state \in Transmitting
      /\ output_flow.state # "IDLE"
      /\ Len(tx["output"]) = 0
      /\ tx["output"] = <<>>
  <2>1. output_flow.state \in Transmitting /\ Len(tx["output"]) = 0
    BY OutputTimeoutMeansTransmitting DEF Inv, isotp_out_flow_output
  <2> QED
    BY <2>1, Transmits DEF Transmitting
<1>2. output_accepted
  BY <1>1 DEF isotp_out_flow_output, output_refused
<1>3. /\ f \in Frame
      /\ OutputTaken \in 1..left
      /\ output_flow.state = "TX_SF" => OutputTaken = left
      /\ output_flow.state = "TX_FF" => OutputTaken = FfData
  BY <1>1, OutputFrameBuilt DEF Inv
<1>4. /\ output_flow' = [output_flow EXCEPT !.remaining_data = left - OutputTaken]
      /\ tx' = [tx EXCEPT !["output"] = Append(tx["output"], f)]
      /\ UNCHANGED input_flow
  BY <1>2 DEF output_accepted
<1>5. /\ output_flow \in OutputFlow
      /\ tx \in [Flow -> Seq(Frame)]
      /\ tx["output"] \in Seq(Frame) /\ tx["input"] \in Seq(Frame)
  BY SenderTypes DEF Inv, SenderInv, SenderType
<1>6. /\ tx'["output"] = <<f>> /\ tx'["input"] = tx["input"]
      /\ tx'["output"] # <<>>
      /\ Len(tx'["output"]) = 1 /\ tx'["output"][1] = f
  BY <1>1, <1>4, <1>5 DEF Flow
<1>7. /\ output_flow'.state = output_flow.state
      /\ output_flow'.buffer = output_flow.buffer
      /\ output_flow'.cf_sn = output_flow.cf_sn
      /\ output_flow'.bs = output_flow.bs
      /\ output_flow'.remaining_data = left - OutputTaken
  BY <1>4, <1>5 DEF OutputFlow
<1>8. /\ acc \in Seq(Messages) /\ acc # <<>>
      /\ n \in Nat /\ n + 1 = Len(acc) /\ n + 1 \in 1..Len(acc)
      /\ Message = acc[n + 1] /\ Message = acc[Len(acc)]
      /\ Message \in Messages
      /\ Message.length \in Nat
      /\ left \in Nat /\ left <= Message.length
      /\ off \in Nat
  BY <1>1, Transmits
<1>9. Emitted = <<f>>
  <2>1. Len(tx'["input"]) = Len(tx["input"]) /\ Len(tx["input"]) \in Nat
    BY <1>5, <1>6
  <2>2. /\ Len(tx'["output"]) > Len(tx["output"])
        /\ ~(Len(tx'["input"]) > Len(tx["input"]))
    BY <1>1, <1>6, <2>1
  <2>3. Emitted = <<f>> \o <<>>
    BY <1>6, <2>2 DEF Emitted
  <2> QED
    BY <1>3, <2>3
<1> HIDE DEF f, n, left, off
<1>10. SenderOK(acc, output_flow', tx'["output"]) <=>
         /\ IsData(f)
         /\ output_flow.state = "TX_CF" => (left - OutputTaken) + FfData <= Message.length
  <2>1. (\A i \in 1..Len(tx'["output"]) : IsData(tx'["output"][i])) <=> IsData(f)
    BY <1>6
  <2>2. output_flow.state # "WAIT_FC"
    BY <1>1 DEF Transmitting
  <2> QED
    BY <1>1, <1>7, <1>8, <2>1, <2>2 DEF SenderOK
<1>11. ~AwaitsFc(output_flow, tx["output"])
  BY <1>1 DEF AwaitsFc, Transmitting
<1>12. CASE output_flow.state = "TX_SF"
  <2>1. left = Message.length /\ Message.length <= SfData /\ off = 0
    <3>1. left = Message.length /\ Message.length <= SfData
      BY <1>1, <1>12 DEF Inv, SenderInv, Remaining, left
    <3> QED
      BY <1>8, <3>1 DEF off
  <2>2. f = [type |-> "SF", dl |-> left, data |-> [msg |-> Message, off |-> 0]]
    BY <1>12 DEF OutputFrame, f, left
  <2>3. left - OutputTaken = 0
    BY <1>3, <1>8, <1>12
  <2>4. old = Start(n)
    BY <1>1, <1>8, <2>1, SendPositions DEF n, left, off
  <2>5. new = Start(n + 1)
    <3>1. output_flow'.remaining_data \in Nat /\ output_flow'.remaining_data = 0
      BY <1>7, <2>3
    <3> QED
      BY <1>1, <1>6, <1>7, <1>8, <3>1, SendPositions DEF n
  <2>6. f = FrameAt(acc, old) /\ new = After(acc, old)
    BY <1>8, <2>1, <2>2, <2>4, <2>5, AtStart
  <2>7. IsData(f) /\ ~EndsBlock(f)
    BY <2>2 DEF IsData, EndsBlock
  <2>8. Follows(acc, f, old, new)
    BY <1>8, <2>4, <2>6, <2>7 DEF Follows, Start
  <2>9. ~AwaitsFc(output_flow', tx'["output"])
    BY <1>7, <1>12 DEF AwaitsFc
  <2> QED
    BY <1>3, <1>4, <1>6, <1>9, <1>10, <1>11, <1>12, <2>7, <2>8, <2>9 DEF f
<1>13. CASE output_flow.state = "TX_FF"
  <2>1. left = Message.length /\ Message.length > SfData /\ off = 0 /\ output_flow.cf_sn = 1
    <3>1. left = Message.length /\ Message.length > SfData
      BY <1>1, <1>13 DEF Inv, SenderInv, Remaining, left
    <3> QED
      BY <1>8, <1>13, <3>1 DEF off, SenderOK
  <2>2. f = [type |-> "FF", dl |-> left, data |-> [msg |-> Message, off |-> 0]]
    <3>1. Message.length % (FF_DL_MAX + 1) = Message.length
      BY <1>8, <2>1, MessageLength, FirstFrameLength
    <3> QED
      BY <1>13, <2>1, <3>1 DEF OutputFrame, f, left
  <2>3. /\ left - OutputTaken \in Nat /\ left - OutputTaken # 0
        /\ Message.length - (left - OutputTaken) = FfData /\ FfData # 0
    BY <1>3, <1>8, <1>13, <2>1 DEF FfData, SfData
  <2>4. old = Start(n)
    BY <1>1, <1>8, <2>1, SendPositions DEF n, left, off
  <2>5. new = [n |-> n, off |-> FfData, sn |-> 1]
    <3>1. output_flow'.remaining_data \in Nat /\ output_flow'.remaining_data # 0
            /\ acc[Len(acc)].length - output_flow'.remaining_data = FfData
      BY <1>7, <1>8, <2>3
    <3> QED
      BY <1>1, <1>6, <1>7, <1>8, <1>13, <2>1, <2>3, <3>1, SendPositions DEF n
  <2>6. f = FrameAt(acc, old) /\ new = After(acc, old)
    BY <1>8, <2>1, <2>2, <2>4, <2>5, AtStart
  <2>7. IsData(f) /\ EndsBlock(f)
    BY <2>2 DEF IsData, EndsBlock
  <2>8. Follows(acc, f, old, new)
    BY <1>8, <2>4, <2>6, <2>7 DEF Follows, Start
  <2>9. AwaitsFc(output_flow', tx'["output"])
    BY <1>6, <1>7, <1>13 DEF AwaitsFc
  <2> QED
    BY <1>3, <1>4, <1>6, <1>9, <1>10, <1>11, <1>13, <2>7, <2>8, <2>9 DEF f
<1>14. CASE output_flow.state = "TX_CF"
  <2>1. left # 0 /\ left + FfData <= Message.length /\ output_flow.bs = ISOTP_RECEIVE_BS
          /\ off # 0 /\ Message.length - off = left
    <3>1. left > 0
      BY <1>1, <1>14 DEF Inv, SenderInv, Remaining, left
    <3>2. left + FfData <= Message.length /\ output_flow.bs = ISOTP_RECEIVE_BS
      BY <1>8, <1>14 DEF SenderOK, left
    <3> QED
      BY <1>8, <3>1, <3>2 DEF off, FfData
  <2>2. f = [type |-> "CF", sn |-> output_flow.cf_sn,
             data |-> [msg |-> Message, off |-> off]]
    BY <1>14 DEF OutputFrame, f, left, off
  <2>3. OutputTaken = Least(CfData, left)
    BY <1>14 DEF OutputTaken, left
  <2>4. old = [n |-> n, off |-> off, sn |-> output_flow.cf_sn]
    BY <1>1, <1>8, <2>1, SendPositions DEF n, left, off
  <2>5. IsData(f)
    BY <2>2 DEF IsData
  <2>6. f = FrameAt(acc, old)
    BY <1>8, <2>1, <2>2, <2>4, AtMiddle
  <2>7. old.n = n
    BY <2>4
  <2>8. EndsBlock(f) <=> left > CfData /\ ~BlockGoesOn(output_flow.bs, output_flow.cf_sn)
    <3>1. off + CfData < Message.length <=> left > CfData
      BY <1>8, <2>1 DEF CfData
    <3> QED
      BY <2>1, <2>2, <3>1 DEF EndsBlock
  <2>9. CASE left <= CfData
    <3>1. left - OutputTaken = 0
      BY <1>8, <2>3, <2>9 DEF Least, CfData
    <3>2. output_flow'.remaining_data \in Nat /\ output_flow'.remaining_data = 0
      BY <1>7, <3>1
    <3>3. new = Start(n + 1)
      BY <1>1, <1>6, <1>7, <1>8, <3>2, SendPositions DEF n
    <3>4. new = After(acc, old)
      BY <1>8, <2>1, <2>4, <2>9, <3>3, AtMiddle
    <3>5. ~EndsBlock(f) /\ ~AwaitsFc(output_flow', tx'["output"])
      BY <1>7, <1>8, <1>14, <2>8, <2>9, <3>2 DEF AwaitsFc, CfData
    <3>6. Follows(acc, f, old, new)
      BY <1>8, <2>5, <2>6, <2>7, <3>4 DEF Follows
    <3>7. (left - OutputTaken) + FfData <= Message.length
      BY <1>8, <2>1, <3>1 DEF FfData
    <3> QED
      BY <1>3, <1>4, <1>6, <1>9, <1>10, <1>11, <2>5, <3>5, <3>6, <3>7 DEF f
  <2>10. CASE left > CfData
    <3>1. left - OutputTaken = left - CfData /\ left - CfData \in Nat /\ left - CfData # 0
      BY <1>8, <2>3, <2>10 DEF Least, CfData
    <3>2. /\ output_flow'.remaining_data \in Nat /\ output_flow'.remaining_data # 0
          /\ acc[Len(acc)].length - output_flow'.remaining_data = off + CfData
          /\ off + CfData # 0
      BY <1>7, <1>8, <3>1 DEF off, CfData
    <3>3. new = [n |-> n, off |-> off + CfData, sn |-> NextSn(output_flow.cf_sn)]
      <4> DEFINE out == output_flow'
                 txo == tx'["output"]
      <4>1. /\ out.state = "TX_CF" /\ out.cf_sn = output_flow.cf_sn
            /\ txo # <<>>
            /\ out.remaining_data # 0
            /\ acc[Len(acc)].length - out.remaining_data = off + CfData
            /\ off + CfData # 0
        BY <1>6, <1>7, <1>14, <3>2
      <4>2. new = SendPosition(acc, out, txo)
        OBVIOUS
      <4> HIDE DEF out, txo, new
      <4> QED
        BY <4>1, <4>2 DEF SendPosition, n
    <3>4. new = After(acc, old)
      BY <1>8, <2>1, <2>4, <2>10, <3>3, AtMiddle
    <3>5. AwaitsFc(output_flow', tx'["output"]) <=> EndsBlock(f)
      BY <1>6, <1>7, <1>14, <2>8, <2>10, <3>2 DEF AwaitsFc
    <3>6. Follows(acc, f, old, new)
      BY <1>8, <2>5, <2>6, <2>7, <3>4 DEF Follows
    <3>7. (left - OutputTaken) + FfData <= Message.length
      BY <1>8, <2>1, <3>1 DEF FfData, CfData
    <3> QED
      BY <1>3, <1>4, <1>6, <1>9, <1>10, <1>11, <2>5, <3>5, <3>6, <3>7 DEF f
  <2> QED
    BY <1>8, <2>9, <2>10 DEF CfData
<1> QED
  BY <1>1, <1>12, <1>13, <1>14 DEF Transmitting

(* The driver's report moves nothing: the sender is where it was, and       *)
(* awaits flow control if it did.                                          *)
LEMMA LastConfirmed ==
  ASSUME Inv, sent_sf \/ sent_last_cf, NEW acc, SenderOK(acc, output_flow, tx["output"])
  PROVE  /\ SenderOK(acc, output_flow', tx'["output"])
         /\ SendPosition(acc, output_flow', tx'["output"])
              = SendPosition(acc, output_flow, tx["output"])
         /\ AwaitsFc(output_flow', tx'["output"]) <=> AwaitsFc(output_flow, tx["output"])
<1>1. Acked /\ MessageSent /\ output_flow.state \in {"TX_SF", "TX_CF"}
  BY DEF sent_sf, sent_last_cf
<1>2. /\ output_flow \in OutputFlow
      /\ tx["output"] \in Seq(Frame) /\ tx' \in [Flow -> Seq(Frame)]
      /\ Len(tx["output"]) = 1 /\ Len(tx'["output"]) = 0
  BY <1>1, SenderTypes, OutputConfirmed DEF Acked, Inv, SenderInv
<1>3. tx["output"] # <<>> /\ tx'["output"] = <<>>
  <2>1. tx'["output"] \in Seq(Frame)
    BY <1>2 DEF Flow
  <2>2. tx'["output"] = <<>>
    BY <1>2, <2>1, EmptyIs
  <2>3. tx["output"] # <<>>
    BY <1>1 DEF Acked, Confirm
  <2> QED
    BY <2>2, <2>3
<1>4. output_flow.remaining_data = 0
  <2>1. CASE output_flow.state = "TX_SF"
    BY <1>2, <2>1 DEF Inv, SenderInv, Remaining
  <2>2. CASE output_flow.state = "TX_CF"
    BY <2>2 DEF sent_last_cf, sent_sf
  <2> QED
    BY <1>1, <2>1, <2>2
<1>5. output_flow'.state = "IDLE"
  BY <1>1, <1>2 DEF MessageSent, OutputFlow
<1>6. SenderOK(acc, output_flow', tx'["output"])
  BY <1>2, <1>5 DEF SenderOK
<1>7. /\ SendPosition(acc, output_flow', tx'["output"]) = Start(Len(acc))
      /\ SendPosition(acc, output_flow, tx["output"]) = Start(Len(acc))
  BY <1>3, <1>4, <1>5 DEF SendPosition
<1>8. ~AwaitsFc(output_flow', tx'["output"]) /\ ~AwaitsFc(output_flow, tx["output"])
  BY <1>1, <1>4, <1>5 DEF AwaitsFc
<1> QED
  BY <1>6, <1>7, <1>8

LEMMA ConfirmedOn ==
  ASSUME Inv, sent_ff \/ sent_cf, NEW acc, SenderOK(acc, output_flow, tx["output"])
  PROVE  /\ SenderOK(acc, output_flow', tx'["output"])
         /\ SendPosition(acc, output_flow', tx'["output"])
              = SendPosition(acc, output_flow, tx["output"])
         /\ AwaitsFc(output_flow', tx'["output"]) <=> AwaitsFc(output_flow, tx["output"])
<1> DEFINE goesOn == BlockGoesOn(output_flow.bs, output_flow.cf_sn)
           left == output_flow.remaining_data
           length == acc[Len(acc)].length
<1>1. /\ Confirm("output")
      /\ output_flow.state \in {"TX_FF", "TX_CF"}
  BY DEF sent_ff, sent_cf, Acked
<1>2. /\ output_flow \in OutputFlow
      /\ tx["output"] \in Seq(Frame) /\ tx' \in [Flow -> Seq(Frame)]
      /\ Len(tx["output"]) = 1 /\ Len(tx'["output"]) = 0
  BY <1>1, SenderTypes, OutputConfirmed DEF Inv, SenderInv
<1>3. tx["output"] # <<>> /\ tx'["output"] = <<>>
  <2>1. tx'["output"] \in Seq(Frame)
    BY <1>2 DEF Flow
  <2>2. tx'["output"] = <<>>
    BY <1>2, <2>1, EmptyIs
  <2>3. tx["output"] # <<>>
    BY <1>1 DEF Acked, Confirm
  <2> QED
    BY <2>2, <2>3
<1>4. /\ acc \in Seq(Messages) /\ acc # <<>>
      /\ Message.length = length /\ length \in Nat /\ left \in Nat
      /\ Head(output_flow.buffer) = acc[Len(acc)]
  BY <1>1, Transmits DEF SenderOK, Message
<1>5. left # 0 /\ left + FfData <= length
  <2>1. CASE output_flow.state = "TX_FF"
    <3>1. length > SfData /\ left = length - FfData
      BY <1>2, <1>4, <2>1 DEF Inv, SenderInv, Remaining
    <3> QED
      BY <1>4, <3>1 DEF SfData, FfData
  <2>2. CASE output_flow.state = "TX_CF"
    BY <2>2 DEF sent_cf, sent_ff, SenderOK
  <2> QED
    BY <1>1, <2>1, <2>2
<1>6. /\ output_flow'.buffer = output_flow.buffer
      /\ output_flow'.remaining_data = left
      /\ output_flow'.bs = output_flow.bs
      /\ \/ /\ output_flow.state = "TX_FF" /\ output_flow'.state = "WAIT_FC"
            /\ output_flow'.cf_sn = output_flow.cf_sn
         \/ /\ output_flow.state = "TX_CF"
            /\ output_flow'.cf_sn = NextSn(output_flow.cf_sn)
            /\ output_flow'.state = (IF goesOn THEN "TX_CF" ELSE "WAIT_FC")
  <2>1. CASE sent_ff
    BY <1>2, <2>1 DEF sent_ff, OutputFlow
  <2>2. CASE sent_cf
    <3>1. output_flow.state = "TX_CF"
      BY <2>2 DEF sent_cf
    <3>2. CASE goesOn
      BY <1>2, <2>2, <3>1, <3>2 DEF sent_cf, OutputFlow
    <3>3. CASE ~goesOn
      BY <1>2, <2>2, <3>1, <3>3 DEF sent_cf, OutputFlow
    <3> QED
      BY <3>2, <3>3
  <2> QED
    BY <2>1, <2>2
<1> HIDE DEF goesOn, left, length
<1>7. SenderOK(acc, output_flow', tx'["output"])
  <2>1. output_flow'.state \in {"WAIT_FC", "TX_CF"}
    BY <1>6
  <2>2. output_flow'.state = "TX_CF" => output_flow'.bs = ISOTP_RECEIVE_BS
    BY <1>6 DEF SenderOK
  <2> QED
    BY <1>2, <1>4, <1>5, <1>6, <2>1, <2>2 DEF SenderOK, length
<1>8. SendPosition(acc, output_flow', tx'["output"])
        = SendPosition(acc, output_flow, tx["output"])
  <2>1. length - left # 0
    BY <1>4, <1>5 DEF FfData
  <2>2. output_flow.state # "IDLE" /\ output_flow'.state # "IDLE"
    BY <1>1, <1>6
  <2>3. SendPosition(acc, output_flow, tx["output"])
          = [n |-> Len(acc) - 1, off |-> length - left,
             sn |-> IF output_flow.state = "TX_CF" THEN NextSn(output_flow.cf_sn)
                                                   ELSE output_flow.cf_sn]
    BY <1>3, <1>5, <2>1, <2>2 DEF SendPosition, left, length
  <2>4. SendPosition(acc, output_flow', tx'["output"])
          = [n |-> Len(acc) - 1, off |-> length - left, sn |-> output_flow'.cf_sn]
    BY <1>3, <1>5, <1>6, <2>1, <2>2 DEF SendPosition, length
  <2> QED
    BY <1>6, <2>3, <2>4
<1>9. AwaitsFc(output_flow', tx'["output"]) <=> AwaitsFc(output_flow, tx["output"])
  BY <1>1, <1>3, <1>5, <1>6 DEF AwaitsFc, goesOn, left
<1> QED
  BY <1>7, <1>8, <1>9

LEMMA ConfirmMoves ==
  ASSUME Inv, sent_sf \/ sent_ff \/ sent_cf \/ sent_last_cf,
         NEW acc, SenderOK(acc, output_flow, tx["output"])
  PROVE  /\ SenderOK(acc, output_flow', tx'["output"])
         /\ SendPosition(acc, output_flow', tx'["output"])
              = SendPosition(acc, output_flow, tx["output"])
         /\ AwaitsFc(output_flow', tx'["output"]) <=> AwaitsFc(output_flow, tx["output"])
         /\ UNCHANGED <<input_flow, attached>> /\ tx'["input"] = tx["input"]
<1>1. Acked
  BY DEF sent_sf, sent_ff, sent_cf, sent_last_cf
<1>2. UNCHANGED <<input_flow, attached>> /\ tx'["input"] = tx["input"]
  BY <1>1, OutputConfirmed DEF Acked, Inv
<1> QED
  BY <1>2, LastConfirmed, ConfirmedOn

(* The flow control frame lets the sender go on from where it is.           *)
LEMMA FcMoves ==
  ASSUME Inv, received_fc(Go), NEW acc, SenderOK(acc, output_flow, tx["output"])
  PROVE  /\ SenderOK(acc, output_flow', tx'["output"])
         /\ SendPosition(acc, output_flow', tx'["output"])
              = SendPosition(acc, output_flow, tx["output"])
         /\ ~AwaitsFc(output_flow', tx'["output"])
         /\ UNCHANGED <<input_flow, tx, attached>>
<1>1. /\ output_flow.state = "WAIT_FC" /\ Go.fs = "READY" /\ Go.bs = ISOTP_RECEIVE_BS
      /\ UNCHANGED tx
  BY DEF received_fc, Go
<1>2. /\ output_flow' = [output_flow EXCEPT !.state = "TX_CF", !.bs = ISOTP_RECEIVE_BS]
      /\ UNCHANGED <<input_flow, attached>>
  BY <1>1 DEF received_fc
<1>3. output_flow \in OutputFlow /\ tx["output"] \in Seq(Frame)
  BY SenderTypes DEF Inv, SenderInv
<1>4. tx["output"] = <<>>
  BY <1>1, <1>3, EmptyIs DEF Inv, SenderInv, OutputCounts, Transmitting
<1>5. /\ output_flow'.state = "TX_CF" /\ output_flow'.bs = ISOTP_RECEIVE_BS
      /\ output_flow'.buffer = output_flow.buffer
      /\ output_flow'.remaining_data = output_flow.remaining_data
      /\ output_flow'.cf_sn = output_flow.cf_sn
  BY <1>2, <1>3 DEF OutputFlow
<1>6. SenderOK(acc, output_flow', tx'["output"])
  BY <1>1, <1>5 DEF SenderOK
<1>7. SendPosition(acc, output_flow', tx'["output"])
        = SendPosition(acc, output_flow, tx["output"])
  BY <1>1, <1>4, <1>5 DEF SendPosition
<1>8. ~AwaitsFc(output_flow', tx'["output"])
  BY <1>1, <1>4, <1>5 DEF AwaitsFc
<1> QED
  BY <1>1, <1>2, <1>6, <1>7, <1>8

-----------------------------------------------------------------------------
(* The receiver's part.                                                    *)

ReceivePosition(in, del) ==
  IF in.state = "IDLE" THEN Start(Len(del))
  ELSE [n |-> Len(del), off |-> Head(in.buffer).length - in.remaining_data,
        sn |-> in.cf_sn]

(* A buffer with all of message m but the last left bytes, and nothing else.*)
Holds(e, m, left) ==
  /\ e.payload # <<>>
  /\ e.length = m.length
  /\ Filled(e, m.length - left)
  /\ \A i \in DOMAIN e.payload :
       /\ e.payload[i].data.msg = m
       /\ e.payload[i].data.off = e.payload[i].at
       /\ e.payload[i].len > 0

(* It delivered the messages accepted first, and receives the next one.     *)
ReceiverOK(acc, in, txi, del) ==
  /\ del \in Seq(Messages)
  /\ Len(del) <= Len(acc)
  /\ \A i \in 1..Len(del) : del[i] = acc[i]
  /\ in.state # "IDLE" =>
       /\ in.fs = "READY"
       /\ in.bs = ISOTP_RECEIVE_BS
       /\ Len(del) < Len(acc)
       /\ in.remaining_data + FfData <= acc[Len(del) + 1].length
       /\ Holds(Head(in.buffer), acc[Len(del) + 1], in.remaining_data)
  /\ \A i \in 1..Len(txi) : txi[i] = Go

LEMMA HoldsFirst ==
  ASSUME NEW b \in BufferId, NEW m \in Messages, NEW len \in Nat, len > 0,
         len <= m.length
  PROVE  LET e == NewBuffer(b, m.length, [at |-> 0, len |-> len,
                                          data |-> [msg |-> m, off |-> 0]]) IN
         /\ e \in Buffer
         /\ Holds(e, m, m.length - len)
<1> DEFINE data == [msg |-> m, off |-> 0]
           c == [at |-> 0, len |-> len, data |-> data]
           e == NewBuffer(b, m.length, c)
<1>1. m.length \in Nat /\ m.length \in 1..FF_DL_MAX /\ data \in Segment
  BY MessageLength DEF Segment
<1>2. e \in Buffer
  BY <1>1, NewBufferMade
<1>3. e.payload # <<>> /\ Filled(e, len) /\ e.length = m.length
  BY <1>1, FirstChunk
<1>4. e.payload = <<c>> /\ DOMAIN <<c>> = {1} /\ <<c>>[1] = c
  BY DEF NewBuffer
<1>5. \A i \in DOMAIN e.payload :
        /\ e.payload[i].data.msg = m
        /\ e.payload[i].data.off = e.payload[i].at
        /\ e.payload[i].len > 0
  BY <1>4
<1>6. m.length - (m.length - len) = len
  BY <1>1
<1> QED
  BY <1>2, <1>3, <1>5, <1>6 DEF Holds

LEMMA HoldsNext ==
  ASSUME NEW e \in Buffer, NEW m \in Messages, NEW left \in Nat, Holds(e, m, left),
         NEW off \in Nat, off = m.length - left, NEW len \in Nat, len > 0
  PROVE  /\ Longer(e, off, len, [msg |-> m, off |-> off]) \in Buffer
         /\ Holds(Longer(e, off, len, [msg |-> m, off |-> off]), m, left - len)
<1> DEFINE data == [msg |-> m, off |-> off]
           c == [at |-> off, len |-> len, data |-> data]
           f == Longer(e, off, len, data)
<1>1. m.length \in Nat /\ data \in Segment /\ c \in Chunk
  BY MessageLength DEF Segment, Chunk
<1>2. e.payload # <<>> /\ Filled(e, off) /\ e.length = m.length
  BY DEF Holds
<1>3. /\ f \in Buffer /\ f.payload # <<>>
      /\ Filled(f, off + len) /\ f.length = m.length
  <2> HIDE DEF data
  <2>1. off \in Int
    OBVIOUS
  <2>2. /\ f \in Buffer /\ f.payload # <<>>
        /\ Filled(f, off + len) /\ f.length = e.length
    BY <1>1, <1>2, <2>1, NextChunk, Zenon
  <2> QED
    BY <1>2, <2>2, Zenon
<1>4. off + len = m.length - (left - len)
  BY <1>1
<1>5. f.payload = Append(e.payload, c)
  <2> DEFINE q == Append(e.payload, c)
  <2>1. f = [e EXCEPT !.payload = q]
    BY DEF Longer
  <2> HIDE DEF f, c, data, q
  <2>2. f.payload = q
    BY <2>1 DEF Buffer
  <2> QED
    BY <2>2, Zenon DEF q
<1>6. \A i \in DOMAIN f.payload :
        /\ f.payload[i].data.msg = m
        /\ f.payload[i].data.off = f.payload[i].at
        /\ f.payload[i].len > 0
  <2> DEFINE p == e.payload
  <2>1. p \in Seq(Chunk)
    BY DEF Buffer
  <2>2. \A i \in DOMAIN p : p[i].data.msg = m /\ p[i].data.off = p[i].at /\ p[i].len > 0
    BY DEF Holds
  <2>3. c.data.msg = m /\ c.data.off = c.at /\ c.len > 0
    OBVIOUS
  <2>4. f.payload = Append(p, c)
    BY <1>5
  <2> HIDE DEF p, c, f
  <2>5. /\ DOMAIN Append(p, c) = 1..(Len(p) + 1)
        /\ Len(p) \in Nat /\ DOMAIN p = 1..Len(p)
        /\ \A i \in 1..Len(p) : Append(p, c)[i] = p[i]
        /\ Append(p, c)[Len(p) + 1] = c
    BY <1>1, <2>1
  <2>6. \A i \in 1..(Len(p) + 1) : i \in 1..Len(p) \/ i = Len(p) + 1
    BY <2>5
  <2> QED
    BY <2>2, <2>3, <2>4, <2>5, <2>6
<1> QED
  BY <1>3, <1>4, <1>6 DEF Holds

(* A buffer that holds all of a message is that message to the application. *)
LEMMA HoldsAll ==
  ASSUME NEW e \in Buffer, NEW m \in Messages, Holds(e, m, 0)
  PROVE  Reassembled(e) = m
<1>1. m.length \in Nat /\ m.length - 0 = m.length
  BY MessageLength
<1>2. Filled(e, m.length) /\ e.length = m.length /\ e.payload # <<>>
  BY <1>1 DEF Holds
<1>3. e.payload[Len(e.payload)].at + e.payload[Len(e.payload)].len = e.length
  BY <1>2 DEF Filled
<1>4. 1 \in DOMAIN e.payload
  BY <1>2 DEF Buffer
<1>5. \A i \in DOMAIN e.payload :
        /\ e.payload[i].data.msg = m
        /\ e.payload[i].data.off = e.payload[i].at
        /\ e.payload[i].len > 0
  BY DEF Holds
<1> QED
  BY <1>2, <1>3, <1>4, <1>5 DEF Reassembled

(* The next message accepted is delivered.                                 *)
LEMMA OneMore ==
  ASSUME NEW acc \in Seq(Messages), NEW del \in Seq(Messages),
         \A i \in 1..Len(del) : del[i] = acc[i],
         NEW m \in Messages, Len(del) + 1 \in 1..Len(acc), m = acc[Len(del) + 1]
  PROVE  /\ del \o <<m>> = Append(del, m)
         /\ Append(del, m) \in Seq(Messages)
         /\ Len(Append(del, m)) = Len(del) + 1
         /\ Len(Append(del, m)) <= Len(acc)
         /\ \A i \in 1..Len(Append(del, m)) : Append(del, m)[i] = acc[i]
<1>1. del \o <<m>> = Append(del, m)
  OBVIOUS
<1>2. /\ Append(del, m) \in Seq(Messages)
      /\ Len(Append(del, m)) = Len(del) + 1
      /\ Len(del) \in Nat /\ Len(acc) \in Nat
      /\ \A i \in 1..Len(del) : Append(del, m)[i] = del[i]
      /\ Append(del, m)[Len(del) + 1] = m
  BY Appended
<1>3. \A i \in 1..(Len(del) + 1) : i \in 1..Len(del) \/ i = Len(del) + 1
  BY <1>2
<1> QED
  BY <1>1, <1>2, <1>3

(* Without a message in hand the whole memory is free: the application      *)
(* gives every buffer back at once.                                        *)
LEMMA MemoryFree ==
  ASSUME Inv, ~Holding, input_flow.state = "IDLE"
  PROVE  FreeBuffers = BufferId /\ input_flow.buffer = <<>>
<1>1. /\ input_flow.buffer \in Seq(Buffer)
      /\ held = {} /\ held = Ids(input_flow.buffer)
  BY ReceiverTypes, IdleReceiver DEF Inv, ReceiverInv, Owned
<1>2. Ids(input_flow.buffer) = {}
  BY <1>1
<1>3. DOMAIN input_flow.buffer = {}
  BY <1>2 DEF Ids
<1>4. input_flow.buffer = <<>>
  <2> DEFINE s == input_flow.buffer
  <2>1. s \in Seq(Buffer) /\ DOMAIN s = {}
    BY <1>1, <1>3
  <2> HIDE DEF s
  <2>2. DOMAIN s = 1..Len(s) /\ Len(s) \in Nat
    BY <2>1
  <2>3. Len(s) = 0
    BY <2>1, <2>2
  <2>4. s = <<>>
    BY <2>1, <2>3, EmptyIs
  <2> QED
    BY <2>4 DEF s
<1> QED
  BY <1>2, <1>4 DEF FreeBuffers

(* What the receiver makes of the data frame that is due.                   *)
LEMMA SfTaken ==
  ASSUME Inv, ~Holding, BufferId # {}, NEW acc \in Seq(Messages), NEW del,
         ReceiverOK(acc, input_flow, tx["input"], del),
         input_flow.state = "IDLE", Len(del) + 1 \in 1..Len(acc),
         NEW m \in Messages, m = acc[Len(del) + 1], m.length <= SfData,
         NEW frame \in Frame,
         frame = [type |-> "SF", dl |-> m.length, data |-> [msg |-> m, off |-> 0]],
         isotp_input(frame)
  PROVE  /\ ReceiverOK(acc, input_flow', tx'["input"], del \o Received(frame))
         /\ ReceivePosition(input_flow', del \o Received(frame)) = Start(Len(del) + 1)
         /\ ~OwesFc(input_flow', tx'["input"])
         /\ UNCHANGED <<output_flow, tx, attached>>
<1>1. FreeBuffers = BufferId /\ FreeBuffers # {}
  BY MemoryFree
<1>2. frame.type = "SF" /\ frame.dl = m.length /\ frame.data = [msg |-> m, off |-> 0]
  OBVIOUS
<1>3. received_sf(frame)
  BY <1>1, <1>2 DEF isotp_input, received_ff, received_cf, received_last_cf,
    received_wrong_cf, received_fc, isotp_input_dropped, CfMatches
<1>4. UNCHANGED <<output_flow, tx, attached>>
  BY <1>3 DEF received_sf
<1>5. input_flow'.state = "IDLE"
  <2>1. input_flow \in InputFlow
    BY ReceiverTypes DEF Inv, ReceiverInv
  <2> QED
    BY <1>3, <2>1 DEF received_sf, Deliver, InputFlow
<1>6. Received(frame) = <<m>>
  <2> DEFINE b == CHOOSE x \in FreeBuffers : TRUE
             e == NewBuffer(b, m.length, [at |-> 0, len |-> m.length,
                                          data |-> [msg |-> m, off |-> 0]])
  <2>1. b \in BufferId
    BY <1>1
  <2>2. m.length \in Nat /\ m.length > 0 /\ m.length <= m.length /\ m.length - m.length = 0
    BY MessageLength
  <2> HIDE DEF b
  <2>3. e \in Buffer /\ Holds(e, m, 0)
    BY <2>1, <2>2, HoldsFirst
  <2>4. Reassembled(e) = m
    BY <2>3, HoldsAll
  <2>5. Received(frame)
          = <<Reassembled(NewBuffer(b, frame.dl,
                            [at |-> 0, len |-> frame.dl, data |-> frame.data]))>>
    <3>1. frame.type = "SF" /\ input_flow.state = "IDLE" /\ FreeBuffers # {}
      BY <1>1, <1>2
    <3>2. ~CfMatches(frame)
      BY <1>2 DEF CfMatches
    <3> QED
      BY <3>1, <3>2, Zenon DEF Received, b
  <2> QED
    BY <1>2, <2>4, <2>5
<1>7. /\ del \in Seq(Messages)
      /\ \A i \in 1..Len(del) : del[i] = acc[i]
      /\ \A i \in 1..Len(tx["input"]) : tx["input"][i] = Go
  BY DEF ReceiverOK
<1> DEFINE more == Append(del, m)
<1>8. /\ del \o Received(frame) = more
      /\ more \in Seq(Messages)
      /\ Len(more) = Len(del) + 1
      /\ Len(more) <= Len(acc)
      /\ \A i \in 1..Len(more) : more[i] = acc[i]
  <2> DEFINE received == Received(frame)
  <2>1. received = <<m>>
    BY <1>6
  <2> HIDE DEF received
  <2>2. /\ del \o <<m>> = Append(del, m)
        /\ Append(del, m) \in Seq(Messages)
        /\ Len(Append(del, m)) = Len(del) + 1
        /\ Len(Append(del, m)) <= Len(acc)
        /\ \A i \in 1..Len(Append(del, m)) : Append(del, m)[i] = acc[i]
    <3>1. del \in Seq(Messages) /\ \A i \in 1..Len(del) : del[i] = acc[i]
      BY <1>7
    <3> QED
      BY <3>1, OneMore, Zenon
  <2>3. del \o received = Append(del, m)
    BY <2>1, <2>2, Zenon
  <2>4. del \o Received(frame) = more
    BY <2>3, Zenon DEF received
  <2> QED
    BY <2>2, <2>4, Zenon
<1> HIDE DEF more
<1>9. ReceiverOK(acc, input_flow', tx'["input"], more)
  BY <1>4, <1>5, <1>7, <1>8 DEF ReceiverOK
<1>10. ReceivePosition(input_flow', more) = Start(Len(del) + 1)
  BY <1>5, <1>8 DEF ReceivePosition
<1> QED
  BY <1>4, <1>5, <1>8, <1>9, <1>10 DEF OwesFc

LEMMA FfTaken ==
  ASSUME Inv, ~Holding, BufferId # {}, NEW acc \in Seq(Messages), NEW del,
         ReceiverOK(acc, input_flow, tx["input"], del),
         input_flow.state = "IDLE", Len(del) + 1 \in 1..Len(acc),
         NEW m \in Messages, m = acc[Len(del) + 1], m.length > SfData,
         NEW frame \in Frame,
         frame = [type |-> "FF", dl |-> m.length, data |-> [msg |-> m, off |-> 0]],
         isotp_input(frame)
  PROVE  /\ ReceiverOK(acc, input_flow', tx'["input"], del \o Received(frame))
         /\ ReceivePosition(input_flow', del \o Received(frame))
              = [n |-> Len(del), off |-> FfData, sn |-> 1]
         /\ OwesFc(input_flow', tx'["input"])
         /\ UNCHANGED <<output_flow, tx, attached>>
<1>1. FreeBuffers = BufferId /\ FreeBuffers # {} /\ input_flow.buffer = <<>>
  BY MemoryFree
<1>2. frame.type = "FF" /\ frame.dl = m.length /\ frame.data = [msg |-> m, off |-> 0]
  OBVIOUS
<1>3. received_ff(frame)
  BY <1>1, <1>2 DEF isotp_input, received_sf, received_cf, received_last_cf,
    received_wrong_cf, received_fc, isotp_input_dropped, CfMatches
<1>4. UNCHANGED <<output_flow, tx, attached>>
  BY <1>3 DEF received_ff
<1>5. PICK b \in BufferId :
        input_flow' =
          [state |-> "TX_FC",
           buffer |-> <<NewBuffer(b, m.length, [at |-> 0, len |-> FfData,
                                               data |-> [msg |-> m, off |-> 0]])>>
                        \o <<>>,
           remaining_data |-> m.length - FfData,
           cf_sn |-> 1, fs |-> "READY", bs |-> ISOTP_RECEIVE_BS]
  BY <1>1, <1>2, <1>3 DEF received_ff
<1> DEFINE e == NewBuffer(b, m.length, [at |-> 0, len |-> FfData,
                                        data |-> [msg |-> m, off |-> 0]])
           left == m.length - FfData
<1>6. /\ m.length \in Nat /\ FfData \in Nat /\ FfData > 0 /\ FfData <= m.length
      /\ left + FfData = m.length /\ m.length - left = FfData
  BY MessageLength DEF FfData, SfData
<1>7. e \in Buffer /\ Holds(e, m, left)
  BY <1>6, HoldsFirst
<1> HIDE DEF e, left
<1>8. e.length = m.length
  BY <1>7 DEF Holds
<1>9. /\ input_flow'.state = "TX_FC" /\ input_flow'.fs = "READY"
      /\ input_flow'.bs = ISOTP_RECEIVE_BS /\ input_flow'.cf_sn = 1
      /\ input_flow'.remaining_data = left
      /\ Head(input_flow'.buffer) = e
  <2>1. Head(<<e>> \o <<>>) = e
    OBVIOUS
  <2> QED
    BY <1>5, <2>1 DEF e, left
<1>10. Received(frame) = <<>>
  BY <1>2 DEF Received, CfMatches
<1>11. /\ del \in Seq(Messages) /\ Len(del) \in Nat
       /\ Len(del) <= Len(acc) /\ \A i \in 1..Len(del) : del[i] = acc[i]
       /\ \A i \in 1..Len(tx["input"]) : tx["input"][i] = Go
  BY DEF ReceiverOK
<1>12. del \o Received(frame) = del /\ Len(del) < Len(acc)
  BY <1>10, <1>11
<1>13. ReceiverOK(acc, input_flow', tx'["input"], del)
  <2>1. left + FfData <= m.length
    BY <1>6
  <2> QED
    BY <1>4, <1>7, <1>9, <1>11, <1>12, <2>1 DEF ReceiverOK
<1>14. ReceivePosition(input_flow', del) = [n |-> Len(del), off |-> FfData, sn |-> 1]
  BY <1>6, <1>8, <1>9 DEF ReceivePosition
<1>15. tx["input"] = <<>>
  <2>1. tx["input"] \in Seq(Frame) /\ Len(tx["input"]) = 0
    BY SenderTypes, IdleReceiver DEF Inv, SenderInv
  <2> QED
    BY <2>1, EmptyIs
<1> QED
  BY <1>4, <1>9, <1>12, <1>13, <1>14, <1>15 DEF OwesFc

(* The place of a receiver that awaits consecutive frames, and what it      *)
(* makes of the next.                                                      *)
LEMMA ReceivesAt ==
  ASSUME Inv, NEW acc \in Seq(Messages), NEW del,
         ReceiverOK(acc, input_flow, tx["input"], del),
         input_flow.state # "IDLE"
  PROVE  /\ del \in Seq(Messages) /\ Len(del) \in Nat
         /\ Len(del) + 1 \in 1..Len(acc)
         /\ acc[Len(del) + 1] \in Messages
         /\ Receiving
         /\ Head(input_flow.buffer) \in Buffer
         /\ Head(input_flow.buffer).length = acc[Len(del) + 1].length
         /\ input_flow.remaining_data \in Nat /\ input_flow.remaining_data > 0
         /\ acc[Len(del) + 1].length \in Nat
         /\ acc[Len(del) + 1].length - input_flow.remaining_data \in Nat
         /\ acc[Len(del) + 1].length - input_flow.remaining_data # 0
         /\ acc[Len(del) + 1].length - (acc[Len(del) + 1].length - input_flow.remaining_data)
              = input_flow.remaining_data
         /\ Holds(Head(input_flow.buffer), acc[Len(del) + 1], input_flow.remaining_data)
         /\ ReceivePosition(input_flow, del)
              = [n |-> Len(del),
                 off |-> acc[Len(del) + 1].length - input_flow.remaining_data,
                 sn |-> input_flow.cf_sn]
<1> DEFINE m == acc[Len(del) + 1]
           left == input_flow.remaining_data
<1>1. /\ del \in Seq(Messages) /\ Len(del) < Len(acc)
      /\ input_flow.fs = "READY" /\ left + FfData <= m.length
      /\ Holds(Head(input_flow.buffer), m, left)
  BY DEF ReceiverOK
<1>2. Len(del) \in Nat /\ Len(acc) \in Nat /\ Len(del) + 1 \in 1..Len(acc)
  BY <1>1
<1>3. m \in Messages
  BY <1>2
<1>4. Receiving
  <2>1. input_flow.state \in InputState
    BY ReceiverTypes DEF Inv, ReceiverInv
  <2> QED
    BY <1>1, <2>1 DEF Receiving, InputState
<1>5. Head(input_flow.buffer) \in Buffer /\ left \in Nat /\ left > 0
  BY <1>4, ListOwned, ReceiverTypes DEF Inv, ReceiverInv, Owned
<1>6. m.length \in Nat
  BY <1>3, MessageLength
<1>7. Head(input_flow.buffer).length = m.length
  BY <1>1 DEF Holds
<1>8. m.length - left \in Nat /\ m.length - left # 0 /\ m.length - (m.length - left) = left
  <2> HIDE DEF m, left
  <2> QED
    BY <1>1, <1>5, <1>6 DEF FfData
<1>9. ReceivePosition(input_flow, del)
        = [n |-> Len(del), off |-> m.length - left, sn |-> input_flow.cf_sn]
  BY <1>7 DEF ReceivePosition
<1> QED
  BY <1>1, <1>2, <1>3, <1>4, <1>5, <1>6, <1>7, <1>8, <1>9

LEMMA StoredHolds ==
  ASSUME Inv, Receiving, NEW m \in Messages, NEW off \in Nat,
         off = m.length - input_flow.remaining_data, input_flow.remaining_data > 0,
         Holds(Head(input_flow.buffer), m, input_flow.remaining_data)
  PROVE  /\ StoredLength = Least(CfData, input_flow.remaining_data)
         /\ StoredLength \in Nat /\ StoredLength > 0
         /\ StoredLength <= input_flow.remaining_data
         /\ \E e \in Buffer :
              /\ Stored([msg |-> m, off |-> off]) = <<e>> \o Tail(input_flow.buffer)
              /\ Head(<<e>> \o Tail(input_flow.buffer)) = e
              /\ HeadRemoved(<<e>> \o Tail(input_flow.buffer)) = Tail(input_flow.buffer)
              /\ Holds(e, m, input_flow.remaining_data - StoredLength)
<1> DEFINE s == input_flow.buffer
           left == input_flow.remaining_data
           data == [msg |-> m, off |-> off]
           e == Longer(Head(s), off, StoredLength, data)
<1>1. Head(s) \in Buffer /\ Tail(s) \in Seq(Buffer) /\ left \in Nat
  BY ListOwned, ReceiverTypes DEF Inv, ReceiverInv
<1>2. StoredLength = Least(CfData, left)
  BY DEF StoredLength
<1>3. StoredLength \in Nat /\ StoredLength > 0 /\ StoredLength <= left
  BY <1>1, <1>2 DEF Least, CfData
<1>4. Head(s).length = m.length
  BY DEF Holds
<1>5. Stored(data) = <<e>> \o Tail(s)
  BY <1>4 DEF Stored, Longer
<1>6. e \in Buffer /\ Holds(e, m, left - StoredLength)
  BY <1>1, <1>3, HoldsNext
<1> HIDE DEF e, s
<1>7. /\ Head(<<e>> \o Tail(s)) = e /\ Tail(<<e>> \o Tail(s)) = Tail(s)
      /\ <<e>> \o Tail(s) # <<>>
  BY <1>1, <1>6, ElementsPushed
<1>8. HeadRemoved(<<e>> \o Tail(s)) = Tail(s)
  BY <1>7 DEF HeadRemoved
<1> QED
  BY <1>2, <1>3, <1>5, <1>6, <1>7, <1>8 DEF s

LEMMA LastCfTaken ==
  ASSUME Inv, ~Holding, NEW acc \in Seq(Messages), NEW del,
         ReceiverOK(acc, input_flow, tx["input"], del),
         input_flow.state = "WAIT_CF",
         NEW m \in Messages, m = acc[Len(del) + 1],
         NEW frame \in Frame,
         frame = [type |-> "CF", sn |-> input_flow.cf_sn,
                  data |-> [msg |-> m, off |-> m.length - input_flow.remaining_data]],
         isotp_input(frame), input_flow.remaining_data <= CfData
  PROVE  /\ ReceiverOK(acc, input_flow', tx'["input"], del \o Received(frame))
         /\ ReceivePosition(input_flow', del \o Received(frame)) = Start(Len(del) + 1)
         /\ ~OwesFc(input_flow', tx'["input"])
         /\ UNCHANGED <<output_flow, tx, attached>>
<1> DEFINE left == input_flow.remaining_data
           off == m.length - left
<1>1. /\ frame.type = "CF" /\ frame.sn = input_flow.cf_sn
      /\ frame.data = [msg |-> m, off |-> off]
      /\ CfMatches(frame)
  BY DEF CfMatches
<1>2. /\ del \in Seq(Messages) /\ Len(del) + 1 \in 1..Len(acc)
      /\ Receiving /\ left \in Nat /\ left > 0 /\ off \in Nat
      /\ Holds(Head(input_flow.buffer), m, left)
  BY ReceivesAt
<1> HIDE DEF left, off
<1>3. /\ StoredLength = Least(CfData, left)
      /\ \E e \in Buffer :
              /\ Stored(frame.data) = <<e>> \o Tail(input_flow.buffer)
              /\ Head(<<e>> \o Tail(input_flow.buffer)) = e
              /\ HeadRemoved(<<e>> \o Tail(input_flow.buffer)) = Tail(input_flow.buffer)
              /\ Holds(e, m, left - StoredLength)
  BY <1>1, <1>2, StoredHolds DEF left, off
<1>4. StoredLength = left /\ left - StoredLength = 0
  BY <1>2, <1>3 DEF Least, CfData, left
<1>5. PICK e \in Buffer :
              /\ Stored(frame.data) = <<e>> \o Tail(input_flow.buffer)
              /\ Head(<<e>> \o Tail(input_flow.buffer)) = e
              /\ HeadRemoved(<<e>> \o Tail(input_flow.buffer)) = Tail(input_flow.buffer)
              /\ Holds(e, m, 0)
  BY <1>3, <1>4
<1>6. received_last_cf(frame)
  BY <1>1, <1>4 DEF left, isotp_input, received_sf, received_ff, received_cf,
    received_wrong_cf, received_fc, isotp_input_dropped, CfMatches
<1>7. UNCHANGED <<output_flow, tx, attached>>
  BY <1>6 DEF received_last_cf
<1>8. input_flow'.state = "IDLE"
  <2>1. input_flow \in InputFlow
    BY ReceiverTypes DEF Inv, ReceiverInv
  <2> QED
    BY <1>6, <2>1 DEF received_last_cf, Deliver, InputFlow
<1>9. Received(frame) = <<m>>
  <2>1. Received(frame) = <<Reassembled(Head(Stored(frame.data)))>>
    <3>1. CfMatches(frame) /\ input_flow.remaining_data = StoredLength
      BY <1>1, <1>4 DEF left
    <3>2. frame.type # "SF"
      BY <1>1
    <3> QED
      BY <3>1, <3>2, Zenon DEF Received
  <2>2. Reassembled(e) = m
    BY <1>5, HoldsAll
  <2> QED
    BY <1>5, <2>1, <2>2
<1>10. /\ \A i \in 1..Len(del) : del[i] = acc[i]
       /\ \A i \in 1..Len(tx["input"]) : tx["input"][i] = Go
  BY DEF ReceiverOK
<1> DEFINE more == Append(del, m)
<1>11. /\ del \o Received(frame) = more
      /\ more \in Seq(Messages)
      /\ Len(more) = Len(del) + 1
      /\ Len(more) <= Len(acc)
      /\ \A i \in 1..Len(more) : more[i] = acc[i]
  <2>1. del \in Seq(Messages) /\ Len(del) + 1 \in 1..Len(acc)
    BY <1>2
  <2>2. \A i \in 1..Len(del) : del[i] = acc[i]
    BY <1>10
  <2>3. /\ del \o <<m>> = Append(del, m)
        /\ Append(del, m) \in Seq(Messages)
        /\ Len(Append(del, m)) = Len(del) + 1
        /\ Len(Append(del, m)) <= Len(acc)
        /\ \A i \in 1..Len(Append(del, m)) : Append(del, m)[i] = acc[i]
    BY <2>1, <2>2, OneMore
  <2> QED
    BY <1>9, <2>3
<1> HIDE DEF more
<1>12. ReceiverOK(acc, input_flow', tx'["input"], more)
  BY <1>7, <1>8, <1>10, <1>11 DEF ReceiverOK
<1>13. ReceivePosition(input_flow', more) = Start(Len(del) + 1)
  BY <1>8, <1>11 DEF ReceivePosition
<1> QED
  BY <1>7, <1>8, <1>11, <1>12, <1>13 DEF OwesFc

LEMMA CfTaken ==
  ASSUME Inv, ~Holding, NEW acc \in Seq(Messages), NEW del,
         ReceiverOK(acc, input_flow, tx["input"], del),
         input_flow.state = "WAIT_CF",
         NEW m \in Messages, m = acc[Len(del) + 1],
         NEW frame \in Frame,
         frame = [type |-> "CF", sn |-> input_flow.cf_sn,
                  data |-> [msg |-> m, off |-> m.length - input_flow.remaining_data]],
         isotp_input(frame), input_flow.remaining_data > CfData
  PROVE  /\ ReceiverOK(acc, input_flow', tx'["input"], del \o Received(frame))
         /\ ReceivePosition(input_flow', del \o Received(frame))
              = [n |-> Len(del),
                 off |-> (m.length - input_flow.remaining_data) + CfData,
                 sn |-> NextSn(input_flow.cf_sn)]
         /\ OwesFc(input_flow', tx'["input"])
              <=> ~BlockGoesOn(ISOTP_RECEIVE_BS, input_flow.cf_sn)
         /\ UNCHANGED <<output_flow, tx, attached>>
<1> DEFINE left == input_flow.remaining_data
           off == m.length - left
           goesOn == BlockGoesOn(input_flow.bs, input_flow.cf_sn)
<1>1. /\ frame.type = "CF" /\ frame.sn = input_flow.cf_sn
      /\ frame.data = [msg |-> m, off |-> off]
      /\ CfMatches(frame)
  BY DEF CfMatches
<1>2. /\ del \in Seq(Messages) /\ Len(del) \in Nat /\ Len(del) + 1 \in 1..Len(acc)
      /\ Receiving /\ left \in Nat /\ left > 0 /\ off \in Nat
      /\ m.length \in Nat
      /\ Holds(Head(input_flow.buffer), m, left)
  BY ReceivesAt
<1>3. /\ left + FfData <= m.length /\ input_flow.bs = ISOTP_RECEIVE_BS
      /\ input_flow.fs = "READY"
      /\ Len(del) <= Len(acc) /\ Len(del) < Len(acc)
      /\ \A i \in 1..Len(del) : del[i] = acc[i]
      /\ \A i \in 1..Len(tx["input"]) : tx["input"][i] = Go
  BY DEF ReceiverOK
<1>4. left > CfData
  OBVIOUS
<1> HIDE DEF left, off, goesOn
<1>5. /\ StoredLength = Least(CfData, left)
      /\ \E e \in Buffer :
              /\ Stored(frame.data) = <<e>> \o Tail(input_flow.buffer)
              /\ Head(<<e>> \o Tail(input_flow.buffer)) = e
              /\ Holds(e, m, left - StoredLength)
  BY <1>1, <1>2, StoredHolds DEF left, off
<1>6. StoredLength = CfData /\ left # StoredLength
  BY <1>2, <1>4, <1>5 DEF Least, CfData
<1>7. PICK e \in Buffer :
              /\ Stored(frame.data) = <<e>> \o Tail(input_flow.buffer)
              /\ Head(<<e>> \o Tail(input_flow.buffer)) = e
              /\ Holds(e, m, left - CfData)
  BY <1>5, <1>6
<1>8. received_cf(frame)
  BY <1>1, <1>6 DEF left, isotp_input, received_sf, received_ff, received_last_cf,
    received_wrong_cf, received_fc, isotp_input_dropped, CfMatches
<1>9. UNCHANGED <<output_flow, tx, attached>>
  BY <1>8 DEF received_cf
<1>10. /\ Head(input_flow'.buffer) = e
       /\ input_flow'.remaining_data = left - CfData
       /\ input_flow'.cf_sn = NextSn(input_flow.cf_sn)
       /\ input_flow'.bs = input_flow.bs
       /\ input_flow'.fs = "READY"
       /\ input_flow'.state = (IF goesOn THEN "WAIT_CF" ELSE "TX_FC")
  <2> DEFINE stored == Stored(frame.data)
             sn == NextSn(input_flow.cf_sn)
  <2>1. input_flow \in InputFlow
    BY ReceiverTypes DEF Inv, ReceiverInv
  <2>2. input_flow' = [input_flow EXCEPT
          !.buffer = stored,
          !.remaining_data = @ - StoredLength,
          !.cf_sn = sn,
          !.fs = IF goesOn THEN @ ELSE "READY",
          !.state = IF goesOn THEN "WAIT_CF" ELSE "TX_FC"]
    BY <1>8 DEF received_cf, goesOn
  <2>3. Head(stored) = e
    BY <1>7
  <2> HIDE DEF stored, sn
  <2>4. /\ input_flow'.buffer = stored
        /\ input_flow'.remaining_data = left - CfData
        /\ input_flow'.cf_sn = sn
        /\ input_flow'.bs = input_flow.bs
        /\ input_flow'.fs = "READY"
        /\ input_flow'.state = (IF goesOn THEN "WAIT_CF" ELSE "TX_FC")
    BY <1>3, <1>6, <2>1, <2>2 DEF InputFlow, left
  <2> QED
    BY <2>3, <2>4 DEF sn
<1>11. e.length = m.length
  BY <1>7 DEF Holds
<1>12. Received(frame) = <<>>
  <2>1. frame.type # "SF" /\ ~(CfMatches(frame) /\ input_flow.remaining_data = StoredLength)
    BY <1>1, <1>6 DEF left
  <2> QED
    BY <2>1 DEF Received
<1>13. del \o Received(frame) = del
  BY <1>2, <1>12
<1>14. ReceiverOK(acc, input_flow', tx'["input"], del)
  <2>1. (left - CfData) + FfData <= m.length
    BY <1>2, <1>3 DEF CfData, FfData
  <2> QED
    BY <1>2, <1>3, <1>7, <1>9, <1>10, <2>1 DEF ReceiverOK
<1>15. ReceivePosition(input_flow', del)
         = [n |-> Len(del), off |-> off + CfData, sn |-> NextSn(input_flow.cf_sn)]
  <2>1. m.length - (left - CfData) = off + CfData
    BY <1>2 DEF CfData, off
  <2>2. input_flow'.state # "IDLE"
    BY <1>10
  <2> QED
    BY <1>10, <1>11, <2>1, <2>2 DEF ReceivePosition
<1>16. tx["input"] = <<>>
  <2>1. tx["input"] \in Seq(Frame) /\ Len(tx["input"]) = 0
    BY SenderTypes, AwaitingCf DEF Inv, SenderInv
  <2> QED
    BY <2>1, EmptyIs
<1>17. OwesFc(input_flow', tx'["input"]) <=> ~goesOn
  BY <1>9, <1>10, <1>16 DEF OwesFc
<1> QED
  BY <1>3, <1>9, <1>13, <1>14, <1>15, <1>17 DEF off, left, goesOn

LEMMA DataTaken ==
  ASSUME Inv, ~Holding, BufferId # {}, NEW acc \in Seq(Messages), NEW del,
         ReceiverOK(acc, input_flow, tx["input"], del),
         input_flow.state # "TX_FC",
         NEW frame \in Frame, IsData(frame), NEW t,
         Follows(acc, frame, ReceivePosition(input_flow, del), t),
         isotp_input(frame)
  PROVE  /\ ReceiverOK(acc, input_flow', tx'["input"], del \o Received(frame))
         /\ ReceivePosition(input_flow', del \o Received(frame)) = t
         /\ OwesFc(input_flow', tx'["input"]) <=> EndsBlock(frame)
         /\ UNCHANGED <<output_flow, tx, attached>>
<1> DEFINE p == ReceivePosition(input_flow, del)
           n == Len(del)
           m == acc[n + 1]
<1>1. /\ p.n + 1 \in 1..Len(acc)
      /\ frame = FrameAt(acc, p)
      /\ t = After(acc, p)
  BY DEF Follows
<1>2. del \in Seq(Messages) /\ n \in Nat
  BY DEF ReceiverOK
<1>3. p.n = n
  BY DEF ReceivePosition, Start
<1>4. n + 1 \in 1..Len(acc) /\ m \in Messages /\ m.length \in Nat
  <2>1. n + 1 \in 1..Len(acc)
    BY <1>1, <1>3
  <2>2. m \in Messages
    BY <1>2, <2>1
  <2> QED
    BY <2>1, <2>2, MessageLength
<1>5. CASE input_flow.state = "IDLE"
  <2>1. p = Start(n)
    BY <1>5 DEF ReceivePosition
  <2> HIDE DEF p, n, m
  <2>2. CASE m.length <= SfData
    <3>1. /\ frame = [type |-> "SF", dl |-> m.length, data |-> [msg |-> m, off |-> 0]]
          /\ t = Start(n + 1)
      BY <1>1, <1>2, <1>4, <2>1, <2>2, AtStart DEF m
    <3>2. ~EndsBlock(frame)
      BY <3>1 DEF EndsBlock
    <3> QED
      BY <1>4, <1>5, <2>2, <3>1, <3>2, SfTaken DEF m, n
  <2>3. CASE m.length > SfData
    <3>1. /\ frame = [type |-> "FF", dl |-> m.length, data |-> [msg |-> m, off |-> 0]]
          /\ t = [n |-> n, off |-> FfData, sn |-> 1]
      BY <1>1, <1>2, <1>4, <2>1, <2>3, AtStart DEF m
    <3>2. EndsBlock(frame)
      BY <3>1 DEF EndsBlock
    <3> QED
      BY <1>4, <1>5, <2>3, <3>1, <3>2, FfTaken DEF m, n
  <2> QED
    BY <1>4, <2>2, <2>3 DEF SfData
<1>6. CASE input_flow.state = "WAIT_CF"
  <2> DEFINE left == input_flow.remaining_data
             off == m.length - left
             sn == input_flow.cf_sn
  <2>1. /\ left \in Nat /\ left > 0 /\ off \in Nat /\ off # 0 /\ m.length - off = left
        /\ p = [n |-> n, off |-> off, sn |-> sn]
    BY <1>6, ReceivesAt
  <2> HIDE DEF p, n, m, left, off, sn
  <2>2. frame = [type |-> "CF", sn |-> sn, data |-> [msg |-> m, off |-> off]]
    BY <1>1, <1>2, <1>4, <2>1, AtMiddle DEF m
  <2>3. EndsBlock(frame) <=> left > CfData /\ ~BlockGoesOn(ISOTP_RECEIVE_BS, sn)
    <3>1. off + CfData < m.length <=> left > CfData
      BY <1>4, <2>1 DEF CfData
    <3> QED
      BY <2>2, <3>1 DEF EndsBlock
  <2>4. CASE left <= CfData
    <3>1. t = Start(n + 1)
      BY <1>1, <1>2, <1>4, <2>1, <2>4, AtMiddle DEF m
    <3>2. ~EndsBlock(frame)
      BY <2>1, <2>3, <2>4 DEF CfData
    <3> QED
      BY <1>4, <1>6, <2>2, <2>4, <3>1, <3>2, LastCfTaken DEF m, n, left, off, sn
  <2>5. CASE left > CfData
    <3>1. t = [n |-> n, off |-> off + CfData, sn |-> NextSn(sn)]
      BY <1>1, <1>2, <1>4, <2>1, <2>5, AtMiddle DEF m
    <3>2. EndsBlock(frame) <=> ~BlockGoesOn(ISOTP_RECEIVE_BS, sn)
      BY <2>3, <2>5
    <3> QED
      BY <1>4, <1>6, <2>2, <2>5, <3>1, <3>2, CfTaken DEF m, n, left, off, sn
  <2> QED
    BY <2>1, <2>4, <2>5 DEF CfData
<1> QED
  <2>1. input_flow.state \in InputState
    BY ReceiverTypes DEF Inv, ReceiverInv
  <2> QED
    BY <1>5, <1>6, <2>1 DEF InputState

LEMMA GoIsFrame == Go \in Frame
  BY IsoTpAssumption DEF Go, Frame, FlowStatus

(* The flow control frame it owes is the one that lets the sender go on.    *)
LEMMA FcPut ==
  ASSUME Inv, attached, FailingFlows = {}, isotp_in_flow_output,
         NEW acc, NEW del, ReceiverOK(acc, input_flow, tx["input"], del)
  PROVE  /\ Emitted = <<Go>>
         /\ OwesFc(input_flow, tx["input"])
         /\ ~OwesFc(input_flow', tx'["input"])
         /\ ReceiverOK(acc, input_flow', tx'["input"], del)
         /\ UNCHANGED <<input_flow, output_flow, attached>> /\ tx'["output"] = tx["output"]
<1>1. input_flow.state = "TX_FC" /\ Len(tx["input"]) = 0
  BY InputTimeout DEF Inv
<1>2. flow_control_accepted
  BY <1>1 DEF isotp_in_flow_output, flow_control_refused
<1>3. tx \in [Flow -> Seq(Frame)] /\ tx["input"] \in Seq(Frame) /\ tx["output"] \in Seq(Frame)
  BY SenderTypes DEF Inv, SenderInv, SenderType
<1>4. tx["input"] = <<>>
  BY <1>1, <1>3, EmptyIs
<1>5. FlowControl = Go
  BY <1>1 DEF FlowControl, Go, ReceiverOK
<1>6. /\ tx'["input"] = <<Go>> /\ tx'["output"] = tx["output"]
      /\ UNCHANGED <<input_flow, output_flow, attached>>
  BY <1>2, <1>3, <1>4, <1>5 DEF flow_control_accepted, Flow
<1>7. Emitted = <<Go>>
  <2>1. Len(tx'["output"]) = Len(tx["output"]) /\ Len(tx["output"]) \in Nat
    BY <1>3, <1>6
  <2>2. /\ Len(tx'["input"]) = 1 /\ tx'["input"][1] = Go
    BY <1>6
  <2>3. /\ ~(Len(tx'["output"]) > Len(tx["output"]))
        /\ Len(tx'["input"]) > Len(tx["input"])
        /\ tx'["input"][Len(tx'["input"])] = Go
    BY <1>1, <2>1, <2>2
  <2>4. Emitted = <<>> \o <<Go>>
    BY <2>3 DEF Emitted
  <2> QED
    BY <2>4
<1>8. ReceiverOK(acc, input_flow', tx'["input"], del)
  <2>1. \A i \in 1..Len(tx'["input"]) : tx'["input"][i] = Go
    BY <1>6
  <2> QED
    BY <1>6, <2>1 DEF ReceiverOK
<1> QED
  BY <1>1, <1>4, <1>6, <1>7, <1>8 DEF OwesFc

LEMMA FcConfirmed ==
  ASSUME Inv, sent_fc, NEW acc, NEW del, ReceiverOK(acc, input_flow, tx["input"], del)
  PROVE  /\ ReceiverOK(acc, input_flow', tx'["input"], del)
         /\ ReceivePosition(input_flow', del) = ReceivePosition(input_flow, del)
         /\ ~OwesFc(input_flow, tx["input"])
         /\ ~OwesFc(input_flow', tx'["input"])
         /\ UNCHANGED <<output_flow, attached>> /\ tx'["output"] = tx["output"]
<1>1. Confirm("input") /\ UNCHANGED <<output_flow, attached>> /\ input_flow.state = "TX_FC"
  BY DEF sent_fc
<1>2. input_flow \in InputFlow /\ input_flow.fs = "READY"
  BY <1>1, ReceiverTypes DEF Inv, ReceiverInv, ReceiverOK
<1>3. input_flow' = [input_flow EXCEPT !.state = "WAIT_CF"]
  BY <1>2 DEF sent_fc
<1>4. /\ input_flow'.state = "WAIT_CF" /\ input_flow'.buffer = input_flow.buffer
      /\ input_flow'.remaining_data = input_flow.remaining_data
      /\ input_flow'.cf_sn = input_flow.cf_sn
      /\ input_flow'.fs = input_flow.fs /\ input_flow'.bs = input_flow.bs
  BY <1>2, <1>3 DEF InputFlow
<1>5. tx["input"] # <<>> /\ Len(tx'["input"]) = 0 /\ tx'["output"] = tx["output"]
  BY <1>1, InputConfirmed DEF Inv, Confirm
<1>6. ReceiverOK(acc, input_flow', tx'["input"], del)
  BY <1>1, <1>4, <1>5 DEF ReceiverOK
<1>7. ReceivePosition(input_flow', del) = ReceivePosition(input_flow, del)
  BY <1>1, <1>4 DEF ReceivePosition
<1> QED
  BY <1>1, <1>4, <1>5, <1>6, <1>7 DEF OwesFc

-----------------------------------------------------------------------------
(* One direction.  A connection is the sender of one and the receiver of    *)
(* the other; what the peer has is given by values.                        *)
Direction(acc, out, txo, dbus, rbus, in, txi, del) ==
  /\ SenderOK(acc, out, txo)
  /\ ReceiverOK(acc, in, txi, del)
  /\ Chain(acc, dbus, ReceivePosition(in, del), SendPosition(acc, out, txo))
  /\ Turn(AwaitsFc(out, txo), OwesFc(in, txi), dbus, rbus)

LEMMA Booleans ==
  ASSUME NEW out, NEW txo, NEW in, NEW txi
  PROVE  AwaitsFc(out, txo) \in BOOLEAN /\ OwesFc(in, txi) \in BOOLEAN
  BY DEF AwaitsFc, OwesFc

(* A message accepted behind those it is busy with is none of the           *)
(* receiver's business.                                                    *)
LEMMA ReceiverKept ==
  ASSUME NEW acc \in Seq(Messages), NEW m \in Messages, NEW in, NEW txi, NEW del,
         ReceiverOK(acc, in, txi, del)
  PROVE  ReceiverOK(Append(acc, m), in, txi, del)
<1> DEFINE more == Append(acc, m)
<1>1. /\ Len(more) = Len(acc) + 1 /\ Len(acc) \in Nat
      /\ \A i \in 1..Len(acc) : more[i] = acc[i]
  BY Appended
<1>2. /\ del \in Seq(Messages) /\ Len(del) \in Nat /\ Len(del) <= Len(acc)
      /\ \A i \in 1..Len(del) : del[i] = acc[i]
      /\ \A i \in 1..Len(txi) : txi[i] = Go
  BY DEF ReceiverOK
<1> HIDE DEF more
<1>3. Len(del) <= Len(more) /\ \A i \in 1..Len(del) : del[i] = more[i]
  BY <1>1, <1>2
<1>4. ASSUME Len(del) < Len(acc)
      PROVE  Len(del) < Len(more) /\ more[Len(del) + 1] = acc[Len(del) + 1]
  BY <1>1, <1>2, <1>4
<1> QED
  BY <1>2, <1>3, <1>4 DEF ReceiverOK, more

LEMMA LinkSend ==
  ASSUME Inv, NEW m \in Outgoing, isotp_send(m),
         NEW bus \in Seq(Frame), NEW obus \in Seq(Frame),
         NEW acc, NEW pin, NEW ptxi, NEW pdel,
         Direction(acc, output_flow, tx["output"], bus, obus, pin, ptxi, pdel)
  PROVE  /\ Direction(Append(acc, m), output_flow', tx'["output"], bus, obus, pin, ptxi, pdel)
         /\ UNCHANGED <<input_flow, tx, attached>>
         /\ m \in Messages
<1> DEFINE more == Append(acc, m)
<1>1. /\ SenderOK(more, output_flow', tx'["output"])
      /\ SendPosition(more, output_flow', tx'["output"])
           = SendPosition(acc, output_flow, tx["output"])
      /\ ~AwaitsFc(output_flow, tx["output"])
      /\ ~AwaitsFc(output_flow', tx'["output"])
      /\ m \in Messages
      /\ UNCHANGED <<input_flow, tx>>
  BY SendBegins DEF Direction
<1>2. acc \in Seq(Messages)
  BY DEF Direction, SenderOK
<1>3. ReceiverOK(more, pin, ptxi, pdel)
  BY <1>1, <1>2, ReceiverKept DEF Direction
<1>4. Chain(more, bus, ReceivePosition(pin, pdel), SendPosition(acc, output_flow, tx["output"]))
  BY <1>1, <1>2, ChainKept DEF Direction
<1>5. AwaitsFc(output_flow', tx'["output"]) = AwaitsFc(output_flow, tx["output"])
  BY <1>1, Booleans
<1>6. UNCHANGED attached
  BY DEF isotp_send
<1> HIDE DEF more
<1> QED
  BY <1>1, <1>3, <1>4, <1>5, <1>6 DEF Direction, more

(* A frame of data goes on the bus: in the one direction it is the next,    *)
(* in the other nothing.                                                   *)
LEMMA LinkOutput ==
  ASSUME Inv, attached, FailingFlows = {}, isotp_out_flow_output,
         NEW bus \in Seq(Frame), NEW obus \in Seq(Frame),
         NEW acc, NEW pin, NEW ptxi, NEW pdel,
         Direction(acc, output_flow, tx["output"], bus, obus, pin, ptxi, pdel),
         NEW pacc, NEW pout, NEW ptxo, NEW del,
         Direction(pacc, pout, ptxo, obus, bus, input_flow, tx["input"], del)
  PROVE  /\ bus \o Emitted \in Seq(Frame)
         /\ Direction(acc, output_flow', tx'["output"], bus \o Emitted, obus, pin, ptxi, pdel)
         /\ Direction(pacc, pout, ptxo, obus, bus \o Emitted, input_flow', tx'["input"], del)
         /\ UNCHANGED attached
<1> DEFINE f == OutputFrame
           owes == OwesFc(pin, ptxi)
<1>1. /\ f \in Frame /\ IsData(f)
      /\ Follows(acc, f, SendPosition(acc, output_flow, tx["output"]),
                 SendPosition(acc, output_flow', tx'["output"]))
      /\ ~AwaitsFc(output_flow, tx["output"])
      /\ AwaitsFc(output_flow', tx'["output"]) <=> EndsBlock(f)
      /\ SenderOK(acc, output_flow', tx'["output"])
      /\ UNCHANGED input_flow /\ tx'["input"] = tx["input"]
      /\ Emitted = <<f>>
  BY FramePut DEF Direction
<1> HIDE DEF f
<1>2. bus \o Emitted = Append(bus, f) /\ Append(bus, f) \in Seq(Frame)
  BY <1>1
<1>3. Chain(acc, Append(bus, f), ReceivePosition(pin, pdel),
            SendPosition(acc, output_flow', tx'["output"]))
  BY <1>1, ChainAppended DEF Direction
<1>4. Turn(EndsBlock(f), owes, Append(bus, f), obus)
  <2>1. Turn(FALSE, owes, bus, obus)
    <3>1. AwaitsFc(output_flow, tx["output"]) = FALSE
      BY <1>1, Booleans
    <3> QED
      BY <3>1 DEF Direction
  <2> QED
    BY <1>1, <2>1, Booleans, TurnDataPut
<1>5. EndsBlock(f) = AwaitsFc(output_flow', tx'["output"])
  BY <1>1, Booleans DEF EndsBlock
<1>6. Turn(AwaitsFc(pout, ptxo), OwesFc(input_flow, tx["input"]), obus, Append(bus, f))
  BY <1>1, Booleans, TurnOtherPut DEF Direction
<1> HIDE DEF owes
<1>7. Direction(acc, output_flow', tx'["output"], Append(bus, f), obus, pin, ptxi, pdel)
  BY <1>1, <1>3, <1>4, <1>5 DEF Direction, owes
<1>8. Direction(pacc, pout, ptxo, obus, Append(bus, f), input_flow', tx'["input"], del)
  BY <1>1, <1>6 DEF Direction
<1>9. UNCHANGED attached
  BY DEF isotp_out_flow_output, output_accepted, output_refused
<1> QED
  BY <1>2, <1>7, <1>8, <1>9

(* A flow control frame goes on the bus.                                   *)
LEMMA LinkFlowControl ==
  ASSUME Inv, attached, FailingFlows = {}, isotp_in_flow_output,
         NEW bus \in Seq(Frame), NEW obus \in Seq(Frame),
         NEW acc, NEW pin, NEW ptxi, NEW pdel,
         Direction(acc, output_flow, tx["output"], bus, obus, pin, ptxi, pdel),
         NEW pacc, NEW pout, NEW ptxo, NEW del,
         Direction(pacc, pout, ptxo, obus, bus, input_flow, tx["input"], del)
  PROVE  /\ bus \o Emitted \in Seq(Frame)
         /\ Direction(acc, output_flow', tx'["output"], bus \o Emitted, obus, pin, ptxi, pdel)
         /\ Direction(pacc, pout, ptxo, obus, bus \o Emitted, input_flow', tx'["input"], del)
         /\ UNCHANGED attached
<1>1. /\ Emitted = <<Go>>
      /\ OwesFc(input_flow, tx["input"])
      /\ ~OwesFc(input_flow', tx'["input"])
      /\ ReceiverOK(pacc, input_flow', tx'["input"], del)
      /\ UNCHANGED <<input_flow, output_flow, attached>> /\ tx'["output"] = tx["output"]
  BY FcPut DEF Direction
<1>2. Go \in Frame /\ ~IsData(Go)
  BY GoIsFrame DEF IsData, Go
<1> DEFINE longer == Append(bus, Go)
<1>3. bus \o Emitted = longer /\ longer \in Seq(Frame)
  BY <1>1, <1>2
<1>4. Chain(acc, longer, ReceivePosition(pin, pdel), SendPosition(acc, output_flow, tx["output"]))
  <2> DEFINE s == SendPosition(acc, output_flow, tx["output"])
  <2>1. Follows(acc, Go, s, s)
    BY <1>2 DEF Follows
  <2>2. Chain(acc, bus, ReceivePosition(pin, pdel), s)
    BY DEF Direction
  <2> HIDE DEF s
  <2>3. Chain(acc, longer, ReceivePosition(pin, pdel), s)
    BY <1>2, <2>1, <2>2, ChainAppended
  <2> QED
    BY <2>3 DEF s
<1>5. Turn(AwaitsFc(output_flow, tx["output"]), OwesFc(pin, ptxi), longer, obus)
  BY <1>2, Booleans, TurnOtherPut DEF Direction
<1>6. Turn(AwaitsFc(pout, ptxo), FALSE, obus, longer)
  <2>1. Turn(AwaitsFc(pout, ptxo), TRUE, obus, bus)
    <3>1. OwesFc(input_flow, tx["input"]) = TRUE
      BY <1>1, Booleans
    <3> QED
      BY <3>1 DEF Direction
  <2> QED
    BY <1>2, <2>1, Booleans, TurnGoPut
<1> HIDE DEF longer
<1>7. Direction(acc, output_flow', tx'["output"], longer, obus, pin, ptxi, pdel)
  BY <1>1, <1>4, <1>5 DEF Direction
<1>8. OwesFc(input_flow', tx'["input"]) = FALSE
  BY <1>1, Booleans
<1>9. Direction(pacc, pout, ptxo, obus, longer, input_flow', tx'["input"], del)
  BY <1>1, <1>6, <1>8 DEF Direction
<1> QED
  BY <1>1, <1>3, <1>7, <1>9

(* The driver reports a frame.                                             *)
LEMMA LinkConfirm ==
  ASSUME Inv, FailingFlows = {}, isotp_sent,
         NEW bus \in Seq(Frame), NEW obus \in Seq(Frame),
         NEW acc, NEW pin, NEW ptxi, NEW pdel,
         Direction(acc, output_flow, tx["output"], bus, obus, pin, ptxi, pdel),
         NEW pacc, NEW pout, NEW ptxo, NEW del,
         Direction(pacc, pout, ptxo, obus, bus, input_flow, tx["input"], del)
  PROVE  /\ Direction(acc, output_flow', tx'["output"], bus, obus, pin, ptxi, pdel)
         /\ Direction(pacc, pout, ptxo, obus, bus, input_flow', tx'["input"], del)
         /\ UNCHANGED attached
<1>1. CASE sent_sf \/ sent_ff \/ sent_cf \/ sent_last_cf
  <2>1. /\ SenderOK(acc, output_flow', tx'["output"])
        /\ SendPosition(acc, output_flow', tx'["output"])
             = SendPosition(acc, output_flow, tx["output"])
        /\ AwaitsFc(output_flow', tx'["output"]) <=> AwaitsFc(output_flow, tx["output"])
        /\ UNCHANGED <<input_flow, attached>> /\ tx'["input"] = tx["input"]
    BY <1>1, ConfirmMoves DEF Direction
  <2>2. AwaitsFc(output_flow', tx'["output"]) = AwaitsFc(output_flow, tx["output"])
    BY <2>1, Booleans
  <2> QED
    BY <2>1, <2>2 DEF Direction
<1>2. CASE sent_fc
  <2>1. /\ ReceiverOK(pacc, input_flow', tx'["input"], del)
        /\ ReceivePosition(input_flow', del) = ReceivePosition(input_flow, del)
        /\ ~OwesFc(input_flow, tx["input"])
        /\ ~OwesFc(input_flow', tx'["input"])
        /\ UNCHANGED <<output_flow, attached>> /\ tx'["output"] = tx["output"]
    BY <1>2, FcConfirmed DEF Direction
  <2>2. OwesFc(input_flow', tx'["input"]) = OwesFc(input_flow, tx["input"])
    BY <2>1, Booleans
  <2> QED
    BY <2>1, <2>2 DEF Direction
<1> QED
  BY <1>1, <1>2 DEF isotp_sent, isotp_sent_error_output, isotp_sent_error_input

(* While a frame of a flow is in the driver it is on the bus, too: what     *)
(* comes then is no answer to it.                                          *)
OnTheBus(bus) == {bus[i] : i \in DOMAIN bus}

LEMMA DataUnderWay ==
  ASSUME Inv, NEW acc, SenderOK(acc, output_flow, tx["output"]),
         NEW bus \in Seq(Frame), Unconfirmed \subseteq OnTheBus(bus),
         ~HasData(bus)
  PROVE  tx["output"] = <<>>
<1>1. tx["output"] \in Seq(Frame)
  BY SenderTypes DEF Inv, SenderInv
<1>2. ASSUME tx["output"] # <<>>
      PROVE  FALSE
  <2>1. 1 \in 1..Len(tx["output"]) /\ 1 \in DOMAIN tx["output"]
    BY <1>1, <1>2
  <2>2. IsData(tx["output"][1]) /\ tx["output"][1] \in Unconfirmed
    BY <2>1 DEF SenderOK, Unconfirmed
  <2>3. DOMAIN bus = 1..Len(bus)
    OBVIOUS
  <2> QED
    BY <2>2, <2>3 DEF OnTheBus, HasData
<1> QED
  BY <1>2

LEMMA FcUnderWay ==
  ASSUME Inv, NEW acc, NEW del, ReceiverOK(acc, input_flow, tx["input"], del),
         NEW bus \in Seq(Frame), Unconfirmed \subseteq OnTheBus(bus),
         ~HasFc(bus)
  PROVE  tx["input"] = <<>>
<1>1. tx["input"] \in Seq(Frame)
  BY SenderTypes DEF Inv, SenderInv
<1>2. ASSUME tx["input"] # <<>>
      PROVE  FALSE
  <2>1. 1 \in 1..Len(tx["input"]) /\ 1 \in DOMAIN tx["input"]
    BY <1>1, <1>2
  <2>2. ~IsData(tx["input"][1]) /\ tx["input"][1] \in Unconfirmed
    BY <2>1 DEF ReceiverOK, Unconfirmed, IsData, Go
  <2>3. DOMAIN bus = 1..Len(bus)
    OBVIOUS
  <2> QED
    BY <2>2, <2>3 DEF OnTheBus, HasFc
<1> QED
  BY <1>2

(* The next frame of the peer is data: ...                                 *)
LEMMA LinkData ==
  ASSUME Inv, ~Holding, BufferId # {},
         NEW bus \in Seq(Frame), NEW obus \in Seq(Frame), obus # <<>>,
         IsData(Head(obus)), Unconfirmed \subseteq OnTheBus(bus),
         isotp_input(Head(obus)),
         NEW acc, NEW pin, NEW ptxi, NEW pdel,
         Direction(acc, output_flow, tx["output"], bus, obus, pin, ptxi, pdel),
         NEW pacc, NEW pout, NEW ptxo, NEW del,
         Direction(pacc, pout, ptxo, obus, bus, input_flow, tx["input"], del)
  PROVE  /\ Direction(acc, output_flow', tx'["output"], bus, Tail(obus), pin, ptxi, pdel)
         /\ Direction(pacc, pout, ptxo, Tail(obus), bus, input_flow', tx'["input"],
                      del \o Received(Head(obus)))
         /\ UNCHANGED attached
<1> DEFINE f == Head(obus)
           rest == Tail(obus)
           more == del \o Received(f)
           awaits == AwaitsFc(pout, ptxo)
           owes == OwesFc(input_flow, tx["input"])
<1>1. f \in Frame /\ rest \in Seq(Frame)
  BY Shortened
<1>2. PICK t : /\ Follows(pacc, f, ReceivePosition(input_flow, del), t)
               /\ Chain(pacc, rest, t, SendPosition(pacc, pout, ptxo))
  BY ChainShortened DEF Direction
<1>3. Turn(awaits, owes, obus, bus) /\ awaits \in BOOLEAN /\ owes \in BOOLEAN
  BY Booleans DEF Direction
<1>4. /\ ~owes /\ ~HasFc(bus)
      /\ Turn(awaits, EndsBlock(f), rest, bus)
  BY <1>3, TurnDataTaken
<1>5. input_flow.state # "TX_FC"
  <2>1. tx["input"] = <<>>
    BY <1>4, FcUnderWay DEF Direction
  <2> QED
    BY <1>4, <2>1 DEF OwesFc
<1>6. /\ ReceiverOK(pacc, input_flow', tx'["input"], more)
      /\ ReceivePosition(input_flow', more) = t
      /\ OwesFc(input_flow', tx'["input"]) <=> EndsBlock(f)
      /\ UNCHANGED <<output_flow, tx, attached>>
  <2>1. pacc \in Seq(Messages)
    BY DEF Direction, SenderOK
  <2>2. ReceiverOK(pacc, input_flow, tx["input"], del)
    BY DEF Direction
  <2> HIDE DEF f
  <2>3. IsData(f) /\ isotp_input(f)
    BY DEF f
  <2> QED
    BY <1>1, <1>2, <1>5, <2>1, <2>2, <2>3, DataTaken
<1>7. OwesFc(input_flow', tx'["input"]) = EndsBlock(f)
  BY <1>6, Booleans DEF EndsBlock
<1>8. Turn(AwaitsFc(output_flow, tx["output"]), OwesFc(pin, ptxi), bus, rest)
  BY Booleans, TurnOtherTaken DEF Direction
<1> HIDE DEF f, rest, more, awaits
<1>9. Direction(acc, output_flow', tx'["output"], bus, rest, pin, ptxi, pdel)
  BY <1>6, <1>8 DEF Direction
<1>10. Direction(pacc, pout, ptxo, rest, bus, input_flow', tx'["input"], more)
  BY <1>2, <1>4, <1>6, <1>7 DEF Direction, awaits
<1> QED
  BY <1>6, <1>9, <1>10 DEF f, rest, more

(* ... or flow control, which the sender then waits for.                   *)
LEMMA LinkGo ==
  ASSUME Inv,
         NEW bus \in Seq(Frame), NEW obus \in Seq(Frame), obus # <<>>,
         ~IsData(Head(obus)), Unconfirmed \subseteq OnTheBus(bus),
         isotp_input(Head(obus)),
         NEW acc, NEW pin, NEW ptxi, NEW pdel,
         Direction(acc, output_flow, tx["output"], bus, obus, pin, ptxi, pdel),
         NEW pacc, NEW pout, NEW ptxo, NEW del,
         Direction(pacc, pout, ptxo, obus, bus, input_flow, tx["input"], del)
  PROVE  /\ Direction(acc, output_flow', tx'["output"], bus, Tail(obus), pin, ptxi, pdel)
         /\ Direction(pacc, pout, ptxo, Tail(obus), bus, input_flow', tx'["input"],
                      del \o Received(Head(obus)))
         /\ UNCHANGED attached
<1> DEFINE rest == Tail(obus)
           awaits == AwaitsFc(output_flow, tx["output"])
           owes == OwesFc(pin, ptxi)
<1>1. Turn(awaits, owes, bus, obus) /\ awaits \in BOOLEAN /\ owes \in BOOLEAN
  BY Booleans DEF Direction
<1>2. /\ awaits /\ ~HasData(bus) /\ Head(obus) = Go
      /\ Turn(FALSE, owes, bus, rest)
  BY <1>1, TurnGoTaken
<1>3. output_flow.state = "WAIT_FC"
  <2>1. tx["output"] = <<>>
    BY <1>2, DataUnderWay DEF Direction
  <2> QED
    BY <1>2, <2>1 DEF AwaitsFc
<1>4. received_fc(Go)
  <2>1. Go.type = "FC" /\ isotp_input(Go)
    BY <1>2 DEF Go
  <2> QED
    BY <1>3, <2>1 DEF isotp_input, received_sf, received_ff, received_cf,
      received_last_cf, received_wrong_cf, isotp_input_dropped, CfMatches
<1>5. /\ SenderOK(acc, output_flow', tx'["output"])
      /\ SendPosition(acc, output_flow', tx'["output"])
           = SendPosition(acc, output_flow, tx["output"])
      /\ ~AwaitsFc(output_flow', tx'["output"])
      /\ UNCHANGED <<input_flow, tx, attached>>
  BY <1>4, FcMoves DEF Direction
<1>6. AwaitsFc(output_flow', tx'["output"]) = FALSE
  BY <1>5, Booleans
<1>7. del \o Received(Head(obus)) = del
  <2>1. del \in Seq(Messages)
    BY DEF Direction, ReceiverOK
  <2>2. Received(Go) = <<>>
    BY DEF Received, CfMatches, Go
  <2> QED
    BY <1>2, <2>1, <2>2
<1>8. Chain(pacc, rest, ReceivePosition(input_flow, del), SendPosition(pacc, pout, ptxo))
  <2>1. PICK t : /\ Follows(pacc, Head(obus), ReceivePosition(input_flow, del), t)
                 /\ Chain(pacc, Tail(obus), t, SendPosition(pacc, pout, ptxo))
    BY ChainShortened DEF Direction
  <2>2. t = ReceivePosition(input_flow, del)
    BY <2>1 DEF Follows
  <2> QED
    BY <2>1, <2>2
<1>9. Turn(AwaitsFc(pout, ptxo), OwesFc(input_flow, tx["input"]), rest, bus)
  BY Booleans, TurnOtherTaken DEF Direction
<1> HIDE DEF rest, awaits, owes
<1>10. Direction(acc, output_flow', tx'["output"], bus, rest, pin, ptxi, pdel)
  BY <1>2, <1>5, <1>6 DEF Direction, owes
<1>11. Direction(pacc, pout, ptxo, rest, bus, input_flow', tx'["input"], del)
  BY <1>5, <1>8, <1>9 DEF Direction
<1> QED
  BY <1>5, <1>7, <1>10, <1>11 DEF rest

(* With nothing on the bus and nothing to come but error timeouts the       *)
(* sender is idle, since the receiver owes nothing; and so is the receiver, *)
(* since it is where the sender is.                                        *)
LEMMA NothingOwed ==
  ASSUME Inv, attached, Unconfirmed = {}, OnlyErrorTimeouts
  PROVE  /\ tx["output"] = <<>> /\ tx["input"] = <<>>
         /\ output_flow.state \in {"IDLE", "WAIT_FC"}
         /\ input_flow.state \in {"IDLE", "WAIT_CF"}
         /\ ~OwesFc(input_flow, tx["input"])
<1>1. /\ tx["output"] \in Seq(Frame) /\ tx["input"] \in Seq(Frame)
      /\ output_flow \in OutputFlow
  BY SenderTypes DEF Inv, SenderInv
<1>2. tx["output"] = <<>> /\ tx["input"] = <<>>
  <2>1. ASSUME NEW s \in Seq(Frame), {s[i] : i \in DOMAIN s} = {}
        PROVE  s = <<>>
    <3>1. DOMAIN s = {}
      BY <2>1
    <3>2. DOMAIN s = 1..Len(s) /\ Len(s) \in Nat
      BY <2>1
    <3>3. Len(s) = 0
      BY <3>1, <3>2
    <3> QED
      BY <2>1, <3>3, EmptyIs
  <2>2. /\ {tx["output"][i] : i \in DOMAIN tx["output"]} = {}
        /\ {tx["input"][i] : i \in DOMAIN tx["input"]} = {}
    BY DEF Unconfirmed
  <2> QED
    BY <1>1, <2>1, <2>2
<1>3. Len(tx["output"]) = 0 /\ Len(tx["input"]) = 0
  BY <1>2
<1>4. output_flow.state \notin Transmitting
  BY <1>3 DEF Inv, SenderInv, OutputCounts, OnlyErrorTimeouts
<1>5. input_flow.state # "TX_FC"
  BY <1>3 DEF Inv, ReceiverInv, InputCounts, OnlyErrorTimeouts
<1>6. output_flow.state \in OutputState /\ input_flow.state \in InputState
  BY <1>1, ReceiverTypes DEF OutputFlow, Inv, ReceiverInv
<1> QED
  BY <1>2, <1>4, <1>5, <1>6 DEF OutputState, InputState, OwesFc

LEMMA SenderAtRest ==
  ASSUME Inv, attached, Unconfirmed = {}, OnlyErrorTimeouts,
         NEW acc, NEW pin, NEW ptxi, NEW pdel, ~OwesFc(pin, ptxi),
         Direction(acc, output_flow, tx["output"], <<>>, <<>>, pin, ptxi, pdel)
  PROVE  output_flow.state = "IDLE"
<1>1. ~AwaitsFc(output_flow, tx["output"])
  BY Booleans, TurnOfSilence DEF Direction
<1> QED
  BY <1>1, NothingOwed DEF AwaitsFc

LEMMA ReceiverAtRest ==
  ASSUME Inv, attached, Unconfirmed = {}, OnlyErrorTimeouts,
         NEW pacc, NEW pout, NEW ptxo, NEW del, pout.state = "IDLE",
         Direction(pacc, pout, ptxo, <<>>, <<>>, input_flow, tx["input"], del)
  PROVE  input_flow.state = "IDLE"
<1>1. ReceivePosition(input_flow, del) = SendPosition(pacc, pout, ptxo)
  <2>1. ~HasData(<<>>)
    BY DEF HasData
  <2>2. <<>> \in Seq(Frame)
    OBVIOUS
  <2> QED
    BY <2>1, <2>2, ChainWithoutData DEF Direction
<1>2. SendPosition(pacc, pout, ptxo).off = 0
  BY DEF SendPosition, Start
<1>3. ASSUME input_flow.state # "IDLE"
      PROVE  FALSE
  <2>1. pacc \in Seq(Messages) /\ ReceiverOK(pacc, input_flow, tx["input"], del)
    BY DEF Direction, SenderOK
  <2>2. ReceivePosition(input_flow, del).off # 0
    BY <1>3, <2>1, ReceivesAt
  <2> QED
    BY <1>1, <1>2, <2>2
<1> QED
  BY <1>3

(* Nothing expires in an idle connection: N_Bs and N_Cr are those of a       *)
(* message.                                                                *)
LEMMA NothingExpires ==
  ASSUME Inv, output_flow.state = "IDLE", input_flow.state = "IDLE"
  PROVE  ~isotp_output_error_handler /\ ~isotp_input_error_handler
<1>1. timeouts["isotp_output_error_handler"] = 0
  BY DEF Inv, SenderInv, OutputCounts
<1>2. timeouts["isotp_input_error_handler"] = 0
  BY DEF Inv, ReceiverInv, InputCounts
<1> QED
  BY <1>1, <1>2 DEF isotp_output_error_handler, isotp_input_error_handler

(* In the beginning nothing is sent and nothing received.                  *)
LEMMA LinkInit ==
  ASSUME Init, NEW pout, NEW ptxo, NEW pin, NEW ptxi,
         pout.state = "IDLE", ptxo = <<>>, pin.state = "IDLE", ptxi = <<>>
  PROVE  /\ Direction(<<>>, output_flow, tx["output"], <<>>, <<>>, pin, ptxi, <<>>)
         /\ Direction(<<>>, pout, ptxo, <<>>, <<>>, input_flow, tx["input"], <<>>)
         /\ output_flow.state = "IDLE" /\ input_flow.state = "IDLE"
         /\ tx["output"] = <<>> /\ tx["input"] = <<>>
<1>1. /\ output_flow.state = "IDLE" /\ input_flow.state = "IDLE"
      /\ tx["output"] = <<>> /\ tx["input"] = <<>>
  BY DEF Init, Flow
<1>2. ASSUME NEW out, NEW txo, NEW in, NEW txi,
             out.state = "IDLE", txo = <<>>, in.state = "IDLE", txi = <<>>
      PROVE  Direction(<<>>, out, txo, <<>>, <<>>, in, txi, <<>>)
  <2>1. SenderOK(<<>>, out, txo)
    BY <1>2 DEF SenderOK
  <2>2. ReceiverOK(<<>>, in, txi, <<>>)
    BY <1>2 DEF ReceiverOK
  <2>3. Chain(<<>>, <<>>, ReceivePosition(in, <<>>), SendPosition(<<>>, out, txo))
    BY <1>2, ChainOfNothing DEF ReceivePosition, SendPosition
  <2>4. ~AwaitsFc(out, txo) /\ ~OwesFc(in, txi)
    BY <1>2 DEF AwaitsFc, OwesFc
  <2>5. Turn(AwaitsFc(out, txo), OwesFc(in, txi), <<>>, <<>>)
    BY <2>4 DEF Turn, OneGo, LastAsks, HasFc
  <2> QED
    BY <2>1, <2>2, <2>3, <2>5 DEF Direction
<1> QED
  BY <1>1, <1>2

(* What the receive callback is given at a time is one message at most, the *)
(* next of those accepted.                                                 *)
LEMMA DeliversNext ==
  ASSUME NEW acc \in Seq(Messages), NEW in, NEW txi, NEW del \in Seq(Messages),
         NEW frame, NEW in2, NEW txi2,
         ReceiverOK(acc, in, txi, del),
         ReceiverOK(acc, in2, txi2, del \o Received(frame))
  PROVE  \/ del \o Received(frame) = del
         \/ /\ Len(del) + 1 \in DOMAIN acc
            /\ del \o Received(frame) = Append(del, acc[Len(del) + 1])
            /\ \A j \in DOMAIN del : j \in 1..((Len(del) + 1) - 1) /\ del[j] = acc[j]
<1>1. Received(frame) = <<>> \/ \E x : Received(frame) = <<x>>
  <2> DEFINE x == Reassembled(NewBuffer(CHOOSE b \in FreeBuffers : TRUE, frame.dl,
                                 [at |-> 0, len |-> frame.dl, data |-> frame.data]))
             y == Reassembled(Head(Stored(frame.data)))
             C == frame.type = "SF" /\ input_flow.state = "IDLE" /\ FreeBuffers # {}
             D == CfMatches(frame) /\ input_flow.remaining_data = StoredLength
  <2>1. Received(frame) = CASE C -> <<x>> [] D -> <<y>> [] OTHER -> <<>>
    BY DEF Received
  <2>2. ~C \/ ~D
    BY DEF CfMatches
  <2> HIDE DEF x, y, C, D
  <2> QED
    BY <2>1, <2>2
<1>2. CASE Received(frame) = <<>>
  BY <1>2
<1>3. ASSUME NEW x, Received(frame) = <<x>>
      PROVE  /\ Len(del) + 1 \in DOMAIN acc
             /\ del \o Received(frame) = Append(del, acc[Len(del) + 1])
             /\ \A j \in DOMAIN del : j \in 1..((Len(del) + 1) - 1) /\ del[j] = acc[j]
  <2> DEFINE more == del \o <<x>>
  <2>1. more = Append(del, x) /\ Len(more) = Len(del) + 1 /\ more[Len(del) + 1] = x
          /\ Len(del) \in Nat /\ Len(acc) \in Nat /\ DOMAIN acc = 1..Len(acc)
          /\ DOMAIN del = 1..Len(del)
    OBVIOUS
  <2>2. del \o Received(frame) = more
    BY <1>3
  <2> HIDE DEF more
  <2>3. Len(more) <= Len(acc) /\ \A i \in 1..Len(more) : more[i] = acc[i]
    BY <2>2 DEF ReceiverOK
  <2>4. Len(del) + 1 \in 1..Len(acc) /\ x = acc[Len(del) + 1]
    BY <2>1, <2>3
  <2>5. \A j \in DOMAIN del : j \in 1..((Len(del) + 1) - 1) /\ del[j] = acc[j]
    BY <2>1 DEF ReceiverOK
  <2> QED
    BY <2>1, <2>2, <2>4, <2>5
<1> QED
  BY <1>1, <1>2, <1>3

-----------------------------------------------------------------------------
(* The same link when the receivers may miss frames.  The receiver then is   *)
(* no longer at the place of the first frame on the bus, only where it was  *)
(* when it got its last.  What holds until a receiver says stop:           *)
(* while consecutive frames come it is in the message they are of, and is   *)
(* in step with them, or behind them, or about to say stop; and it asks for *)
(* more only in step.                                                      *)

(* A place between two frames.                                             *)
Place(acc, x) ==
  /\ x.n \in Nat /\ x.n <= Len(acc)
  /\ x.off = 0 => x = Start(x.n)
  /\ x.off # 0 => /\ x = [n |-> x.n, off |-> x.off, sn |-> x.sn]
                  /\ x.off \in Nat
                  /\ x.n + 1 \in 1..Len(acc)
                  /\ x.off < acc[x.n + 1].length

(* The receiver is at place x: it would be there without losses if it had   *)
(* delivered all messages before.                                          *)
Prefix(acc, n) == [i \in 1..n |-> acc[i]]

InStep(acc, in, txi, x) ==
  /\ ReceiverOK(acc, in, txi, Prefix(acc, x.n))
  /\ ReceivePosition(in, Prefix(acc, x.n)) = x

(* It missed frames of the message: those missed, told by their serial      *)
(* numbers, end no block, and it is short of the bytes of one at least.     *)
Behind(acc, in, x) ==
  /\ in.state # "IDLE" /\ in.fs = "READY"
  /\ in.bs = ISOTP_RECEIVE_BS
  /\ in.remaining_data >= (acc[x.n + 1].length - x.off) + CfData
  /\ \E missed :
       /\ in.cf_sn \in missed
       /\ \A sn \in missed :
            /\ BlockGoesOn(ISOTP_RECEIVE_BS, sn)
            /\ NextSn(sn) \in missed \/ NextSn(sn) = x.sn

(* It got one out of sequence and has not told the sender yet.              *)
Stopping(in) == in.state = "TX_FC" /\ in.fs # "READY"

Asks(in, txi) == OwesFc(in, txi) /\ in.fs = "READY"

(* The frames on the bus lead from place x to where the sender is.          *)
Leads(acc, out, txo, dbus, x) ==
  /\ SenderOK(acc, out, txo)
  /\ Place(acc, x)
  /\ Chain(acc, dbus, x, SendPosition(acc, out, txo))
  /\ LastAsks(AwaitsFc(out, txo), dbus)

(* Nothing delivered is of a message from place n on.                      *)
Delivered(acc, del, n) ==
  /\ del \in Seq(Messages)
  /\ \A j \in DOMAIN del : \E k \in 1..n : del[j] = acc[k]

(* The only stop the receiver has in hand is one it has not sent.           *)
Tells(in, txi) ==
  /\ \A i \in 1..Len(txi) : txi[i] = Go
  /\ Stopping(in) => in.fs = "OVERFLOW" /\ txi = <<>>

(* Flow control answers the last frame sent, which the receiver got.        *)
Answers(acc, awaits, dbus, rbus, in, txi, x) ==
  /\ OneGo(rbus)
  /\ ~(Asks(in, txi) /\ HasFc(rbus))
  /\ Asks(in, txi) \/ HasFc(rbus) =>
       awaits /\ ~HasData(dbus) /\ InStep(acc, in, txi, x)

(* While consecutive frames come the receiver is in their message.          *)
Keeps(acc, awaits, dbus, in, txi, x) ==
  x.off # 0 /\ (HasData(dbus) \/ ~awaits) =>
    Stopping(in) \/ InStep(acc, in, txi, x) \/ Behind(acc, in, x)

LossyAt(acc, out, txo, dbus, rbus, in, txi, del, x) ==
  /\ Leads(acc, out, txo, dbus, x)
  /\ Delivered(acc, del, x.n)
  /\ Tells(in, txi)
  /\ Answers(acc, AwaitsFc(out, txo), dbus, rbus, in, txi, x)
  /\ Keeps(acc, AwaitsFc(out, txo), dbus, in, txi, x)

LossyDirection(acc, out, txo, dbus, rbus, in, txi, del) ==
  \E x : LossyAt(acc, out, txo, dbus, rbus, in, txi, del, x)

LEMMA PrefixIs ==
  ASSUME NEW acc \in Seq(Messages), NEW n \in Nat, n <= Len(acc)
  PROVE  /\ Prefix(acc, n) \in Seq(Messages)
         /\ Len(Prefix(acc, n)) = n
         /\ \A i \in 1..n : Prefix(acc, n)[i] = acc[i]
<1>1. \A i \in 1..n : acc[i] \in Messages
  OBVIOUS
<1>2. Prefix(acc, n) \in [1..n -> Messages]
  BY <1>1 DEF Prefix
<1>3. Prefix(acc, n) \in Seq(Messages)
  BY <1>2
<1>4. DOMAIN Prefix(acc, n) = 1..n
  BY DEF Prefix
<1>5. Len(Prefix(acc, n)) = n
  BY <1>3, <1>4
<1> QED
  BY <1>3, <1>5 DEF Prefix

(* What agrees with the messages accepted is a prefix of them.              *)
LEMMA PrefixOnly ==
  ASSUME NEW acc \in Seq(Messages), NEW d \in Seq(Messages), Len(d) <= Len(acc),
         \A i \in 1..Len(d) : d[i] = acc[i]
  PROVE  d = Prefix(acc, Len(d)) /\ Len(d) \in Nat
<1>1. /\ d \in [1..Len(d) -> Messages] /\ Len(d) \in Nat
  OBVIOUS
<1> DEFINE n == Len(d)
           p == Prefix(acc, n)
<1>2. DOMAIN p = 1..n /\ \A i \in 1..n : p[i] = acc[i]
  BY DEF Prefix
<1>3. p = [i \in 1..n |-> acc[i]]
  BY DEF Prefix
<1>4. d = [i \in 1..n |-> d[i]]
  BY <1>1
<1> QED
  BY <1>1, <1>3, <1>4

(* A receiver in the state it would be in without losses is in step.        *)
LEMMA StepIs ==
  ASSUME NEW acc \in Seq(Messages), NEW in, NEW txi, NEW d, NEW x,
         ReceiverOK(acc, in, txi, d), ReceivePosition(in, d) = x
  PROVE  InStep(acc, in, txi, x) /\ x.n = Len(d)
<1>1. /\ d \in Seq(Messages) /\ Len(d) <= Len(acc)
      /\ \A i \in 1..Len(d) : d[i] = acc[i]
  BY DEF ReceiverOK
<1>2. d = Prefix(acc, Len(d))
  BY <1>1, PrefixOnly
<1>3. x.n = Len(d)
  BY DEF ReceivePosition, Start
<1>4. d = Prefix(acc, x.n)
  BY <1>2, <1>3
<1> QED
  BY <1>3, <1>4 DEF InStep

(* It is not stopping, and asks for flow control when it has a turn.        *)
LEMMA StepMeans ==
  ASSUME NEW acc, NEW in, NEW txi, NEW x, InStep(acc, in, txi, x)
  PROVE  /\ ~Stopping(in)
         /\ Asks(in, txi) <=> OwesFc(in, txi)
         /\ x.off # 0 => in.state # "IDLE" /\ in.bs = ISOTP_RECEIVE_BS /\ in.fs = "READY"
<1> DEFINE d == Prefix(acc, x.n)
<1>1. ReceiverOK(acc, in, txi, d) /\ ReceivePosition(in, d) = x
  BY DEF InStep
<1> HIDE DEF d
<1>2. in.state # "IDLE" => in.fs = "READY" /\ in.bs = ISOTP_RECEIVE_BS
  BY <1>1 DEF ReceiverOK
<1>3. in.state = "IDLE" => x.off = 0
  BY <1>1 DEF ReceivePosition, Start
<1> QED
  BY <1>2, <1>3 DEF Stopping, Asks, OwesFc

(* An idle receiver is in step with the beginning of every message.         *)
LEMMA StepIdle ==
  ASSUME NEW acc \in Seq(Messages), NEW in, NEW txi, NEW x, in.state = "IDLE",
         Place(acc, x), x.off = 0, \A i \in 1..Len(txi) : txi[i] = Go
  PROVE  InStep(acc, in, txi, x)
<1> DEFINE d == Prefix(acc, x.n)
<1>1. x = Start(x.n) /\ x.n \in Nat /\ x.n <= Len(acc)
  BY DEF Place
<1>2. d \in Seq(Messages) /\ Len(d) = x.n /\ \A i \in 1..x.n : d[i] = acc[i]
  BY <1>1, PrefixIs
<1> HIDE DEF d
<1>3. ReceiverOK(acc, in, txi, d)
  BY <1>1, <1>2 DEF ReceiverOK
<1>4. ReceivePosition(in, d) = x
  BY <1>1, <1>2 DEF ReceivePosition
<1> QED
  BY <1>3, <1>4 DEF InStep, d

(* The place behind the next frame.                                        *)
LEMMA NextPlace ==
  ASSUME NEW acc \in Seq(Messages), NEW x, Place(acc, x),
         NEW f, IsData(f), NEW t, Follows(acc, f, x, t)
  PROVE  /\ Place(acc, t) /\ x.n \in Nat /\ x.n <= t.n
         /\ x.n + 1 \in 1..Len(acc)
         /\ f.type = "FC" => FALSE
         /\ x.off = 0 => f.type \in {"SF", "FF"}
         /\ x.off = 0 /\ t.off # 0 => EndsBlock(f)
         /\ x.off # 0 => f.type = "CF" /\ f.sn = x.sn
         /\ x.off # 0 /\ t.off # 0 =>
              /\ t.n = x.n /\ t.off = x.off + CfData /\ t.sn = NextSn(x.sn)
              /\ acc[x.n + 1].length \in Nat
              /\ t.off < acc[x.n + 1].length
              /\ EndsBlock(f) <=> ~BlockGoesOn(ISOTP_RECEIVE_BS, x.sn)
<1> DEFINE n == x.n
           m == acc[n + 1]
<1>1. n + 1 \in 1..Len(acc) /\ f = FrameAt(acc, x) /\ t = After(acc, x) /\ n \in Nat
  BY DEF Follows, Place
<1>2. m \in Messages /\ m.length \in Nat /\ m.length > 0 /\ n + 1 \in Nat
        /\ n + 1 <= Len(acc) /\ n <= n + 1
  <2>1. m \in Messages
    BY <1>1
  <2> QED
    BY <1>1, <2>1, MessageLength
<1>3. Start(n + 1).n = n + 1 /\ Start(n + 1).off = 0 /\ Place(acc, Start(n + 1))
  BY <1>2 DEF Place, Start
<1>4. CASE x.off = 0
  <2>1. x = Start(n)
    BY <1>4 DEF Place
  <2> HIDE DEF n, m
  <2>2. CASE m.length <= SfData
    <3>1. /\ f = [type |-> "SF", dl |-> m.length, data |-> [msg |-> m, off |-> 0]]
          /\ t = Start(n + 1)
      BY <1>1, <1>2, <2>1, <2>2, AtStart DEF m
    <3> QED
      BY <1>1, <1>2, <1>3, <1>4, <3>1 DEF n
  <2>3. CASE m.length > SfData
    <3>1. /\ f = [type |-> "FF", dl |-> m.length, data |-> [msg |-> m, off |-> 0]]
          /\ t = [n |-> n, off |-> FfData, sn |-> 1]
      BY <1>1, <1>2, <2>1, <2>3, AtStart DEF m
    <3>2. EndsBlock(f)
      BY <3>1 DEF EndsBlock
    <3>3. FfData \in Nat /\ FfData # 0 /\ FfData < m.length
      BY <1>2, <2>3 DEF FfData, SfData
    <3>4. Place(acc, t)
      BY <1>1, <1>2, <3>1, <3>3 DEF Place, m
    <3> QED
      BY <1>1, <1>2, <1>4, <3>1, <3>2, <3>4 DEF n
  <2> QED
    BY <1>2, <2>2, <2>3 DEF SfData
<1>5. CASE x.off # 0
  <2> DEFINE off == x.off
             sn == x.sn
             left == m.length - off
  <2>1. /\ x = [n |-> n, off |-> off, sn |-> sn] /\ off \in Nat /\ off # 0
        /\ off < m.length
    BY <1>5 DEF Place
  <2>2. left \in Nat /\ left > 0
    <3> HIDE DEF off, m
    <3> QED
      BY <1>2, <2>1
  <2> HIDE DEF n, m, off, sn
  <2>3. f = [type |-> "CF", sn |-> sn, data |-> [msg |-> m, off |-> off]]
    BY <1>1, <1>2, <2>1, <2>2, AtMiddle DEF m
  <2>4. CASE left <= CfData
    <3>1. t = Start(n + 1)
      BY <1>1, <1>2, <2>1, <2>2, <2>4, AtMiddle DEF m
    <3> QED
      BY <1>1, <1>2, <1>3, <1>5, <2>3, <3>1 DEF n, sn
  <2>5. CASE left > CfData
    <3>1. t = [n |-> n, off |-> off + CfData, sn |-> NextSn(sn)]
      BY <1>1, <1>2, <2>1, <2>2, <2>5, AtMiddle DEF m
    <3>2. off + CfData \in Nat /\ off + CfData # 0 /\ off + CfData < m.length
      BY <1>2, <2>1, <2>5 DEF CfData
    <3>3. Place(acc, t)
      BY <1>1, <1>2, <3>1, <3>2 DEF Place, m
    <3>4. EndsBlock(f) <=> ~BlockGoesOn(ISOTP_RECEIVE_BS, sn)
      BY <2>3, <3>2 DEF EndsBlock
    <3> QED
      BY <1>1, <1>2, <1>5, <2>3, <3>1, <3>2, <3>3, <3>4 DEF n, m, off, sn
  <2> QED
    BY <2>2, <2>4, <2>5 DEF CfData
<1> QED
  BY <1>4, <1>5

(* A frame of the other direction changes nothing.                         *)
LEMMA LossyOtherPut ==
  ASSUME NEW acc, NEW out, NEW txo, NEW dbus \in Seq(Frame), NEW rbus \in Seq(Frame),
         NEW in, NEW txi, NEW del, NEW x,
         LossyAt(acc, out, txo, dbus, rbus, in, txi, del, x), NEW f \in Frame
  PROVE  /\ ~IsData(f) => LossyAt(acc, out, txo, Append(dbus, f), rbus, in, txi, del, x)
         /\ IsData(f) => LossyAt(acc, out, txo, dbus, Append(rbus, f), in, txi, del, x)
<1> DEFINE awaits == AwaitsFc(out, txo)
           s == SendPosition(acc, out, txo)
<1>1. ASSUME ~IsData(f)
      PROVE  LossyAt(acc, out, txo, Append(dbus, f), rbus, in, txi, del, x)
  <2> DEFINE longer == Append(dbus, f)
  <2>1. LastAsks(awaits, longer) /\ (HasData(longer) <=> HasData(dbus))
    BY <1>1, FcAsksNothing, PutOn DEF LossyAt, Leads
  <2>2. Follows(acc, f, s, s)
    BY <1>1 DEF Follows
  <2>3. Chain(acc, dbus, x, s)
    BY DEF LossyAt, Leads
  <2> HIDE DEF s
  <2>4. Chain(acc, longer, x, s)
    BY <2>2, <2>3, ChainAppended
  <2> HIDE DEF longer, awaits
  <2>5. Leads(acc, out, txo, longer, x)
    BY <2>1, <2>4 DEF LossyAt, Leads, s, awaits
  <2> QED
    BY <2>1, <2>5 DEF LossyAt, Answers, Keeps, longer
<1>2. ASSUME IsData(f)
      PROVE  LossyAt(acc, out, txo, dbus, Append(rbus, f), in, txi, del, x)
  <2>1. OneGo(Append(rbus, f)) /\ (HasFc(Append(rbus, f)) <=> HasFc(rbus))
    BY <1>2, GoPut, PutOn DEF LossyAt, Answers
  <2> QED
    BY <2>1 DEF LossyAt, Answers
<1> QED
  BY <1>1, <1>2

(* The sender may miss flow control, and whatever the other direction has   *)
(* on the bus.                                                             *)
LEMMA LossyAnswerTaken ==
  ASSUME NEW acc, NEW out, NEW txo, NEW dbus \in Seq(Frame), NEW rbus \in Seq(Frame),
         NEW in, NEW txi, NEW del, NEW x, rbus # <<>>,
         LossyAt(acc, out, txo, dbus, rbus, in, txi, del, x)
  PROVE  LossyAt(acc, out, txo, dbus, Tail(rbus), in, txi, del, x)
<1>1. OneGo(Tail(rbus)) /\ (HasFc(Tail(rbus)) => HasFc(rbus))
  BY GoTaken, TakenOff DEF LossyAt, Answers
<1> QED
  BY <1>1 DEF LossyAt, Answers

LEMMA LossyOtherTaken ==
  ASSUME NEW acc, NEW out, NEW txo, NEW dbus \in Seq(Frame), NEW rbus \in Seq(Frame),
         NEW in, NEW txi, NEW del, NEW x, dbus # <<>>, ~IsData(Head(dbus)),
         LossyAt(acc, out, txo, dbus, rbus, in, txi, del, x)
  PROVE  LossyAt(acc, out, txo, Tail(dbus), rbus, in, txi, del, x)
<1> DEFINE rest == Tail(dbus)
           awaits == AwaitsFc(out, txo)
           s == SendPosition(acc, out, txo)
<1>1. LastAsks(awaits, rest) /\ (HasData(rest) <=> HasData(dbus))
  BY RestAsks, TakenOff DEF LossyAt, Leads
<1>2. Chain(acc, dbus, x, s)
  BY DEF LossyAt, Leads
<1> HIDE DEF s
<1>3. PICK t : Follows(acc, Head(dbus), x, t) /\ Chain(acc, rest, t, s)
  BY <1>2, ChainShortened
<1>4. t = x
  BY <1>3 DEF Follows
<1> HIDE DEF rest, awaits
<1>5. Leads(acc, out, txo, rest, x)
  BY <1>1, <1>3, <1>4 DEF LossyAt, Leads, s, awaits
<1> QED
  BY <1>1, <1>5 DEF LossyAt, Answers, Keeps, rest

(* The first data frame on the bus goes, whether the receiver gets it or    *)
(* not: the place is behind it.  If the receiver is in its message         *)
(* afterwards it was in step or behind, and the frame ended no block.       *)
LEMMA LossyLeads ==
  ASSUME NEW acc, NEW out, NEW txo, NEW dbus \in Seq(Frame), NEW x,
         dbus # <<>>, IsData(Head(dbus)), Leads(acc, out, txo, dbus, x)
  PROVE  \E t :
           /\ Follows(acc, Head(dbus), x, t)
           /\ Leads(acc, out, txo, Tail(dbus), t)
           /\ EndsBlock(Head(dbus)) <=> AwaitsFc(out, txo) /\ ~HasData(Tail(dbus))
           /\ HasData(dbus)
<1> DEFINE f == Head(dbus)
           rest == Tail(dbus)
           awaits == AwaitsFc(out, txo)
           s == SendPosition(acc, out, txo)
<1>1. /\ LastAsks(awaits, rest) /\ (EndsBlock(f) <=> awaits /\ ~HasData(rest))
      /\ HasData(dbus)
  BY RestAsks, TakenOff DEF Leads
<1>2. Chain(acc, dbus, x, s) /\ Place(acc, x) /\ acc \in Seq(Messages)
  BY DEF Leads, SenderOK
<1> HIDE DEF s
<1>3. PICK t : Follows(acc, f, x, t) /\ Chain(acc, rest, t, s)
  BY <1>2, ChainShortened
<1> HIDE DEF f, rest, awaits
<1>4. Place(acc, t)
  <2>1. IsData(f)
    BY DEF f
  <2> QED
    BY <1>2, <1>3, <2>1, NextPlace
<1>5. Leads(acc, out, txo, rest, t)
  BY <1>1, <1>3, <1>4 DEF Leads, s, awaits
<1> QED
  BY <1>1, <1>3, <1>5 DEF f, rest, awaits

LEMMA DeliveredOn ==
  ASSUME NEW acc, NEW del, NEW n \in Nat, NEW k \in Nat, n <= k, Delivered(acc, del, n)
  PROVE  Delivered(acc, del, k)
<1>1. \A j \in 1..n : j \in 1..k
  OBVIOUS
<1> QED
  BY <1>1 DEF Delivered

(* The receiver misses it.                                                 *)
LEMMA FallsBehind ==
  ASSUME NEW acc \in Seq(Messages), NEW in, NEW txi, NEW x, NEW t, Place(acc, x),
         x.off # 0, t.off # 0, in.remaining_data \in Int,
         NEW f, IsData(f), Follows(acc, f, x, t), ~EndsBlock(f),
         InStep(acc, in, txi, x) \/ Behind(acc, in, x)
  PROVE  Behind(acc, in, t)
<1> DEFINE length == acc[x.n + 1].length
           left == in.remaining_data
<1>1. /\ t.n = x.n /\ t.off = x.off + CfData /\ t.sn = NextSn(x.sn)
      /\ length \in Nat /\ BlockGoesOn(ISOTP_RECEIVE_BS, x.sn)
  BY NextPlace
<1>2. x.off \in Nat
  BY DEF Place
<1>3. acc[t.n + 1].length = length
  BY <1>1
<1>4. CASE InStep(acc, in, txi, x)
  <2> DEFINE d == Prefix(acc, x.n)
  <2>1. /\ ReceiverOK(acc, in, txi, d) /\ ReceivePosition(in, d) = x
        /\ in.state # "IDLE" /\ in.bs = ISOTP_RECEIVE_BS /\ in.fs = "READY"
    BY <1>4, StepMeans DEF InStep
  <2>2. x.n = Len(d)
    BY <2>1 DEF ReceivePosition, Start
  <2> HIDE DEF d
  <2>3. Head(in.buffer).length = length
    BY <2>1, <2>2 DEF ReceiverOK, Holds
  <2>4. x.off = length - left /\ x.sn = in.cf_sn
    BY <2>1, <2>3 DEF ReceivePosition
  <2> HIDE DEF length, left
  <2>5. left >= (length - t.off) + CfData
    BY <1>1, <1>2, <2>4 DEF CfData, left
  <2> DEFINE missed == {x.sn}
  <2>6. /\ in.cf_sn \in missed
        /\ \A sn \in missed : /\ BlockGoesOn(ISOTP_RECEIVE_BS, sn)
                              /\ NextSn(sn) \in missed \/ NextSn(sn) = t.sn
    BY <1>1, <2>4
  <2> HIDE DEF missed
  <2> QED
    BY <1>3, <2>1, <2>5, <2>6 DEF Behind, left
<1>5. CASE Behind(acc, in, x)
  <2>1. PICK missed :
          /\ in.cf_sn \in missed
          /\ \A sn \in missed : /\ BlockGoesOn(ISOTP_RECEIVE_BS, sn)
                                /\ NextSn(sn) \in missed \/ NextSn(sn) = x.sn
    BY <1>5 DEF Behind
  <2>2. left >= (length - x.off) + CfData
    BY <1>5 DEF Behind
  <2>3. left >= (length - t.off) + CfData
    <3> HIDE DEF length, left
    <3> QED
      BY <1>1, <1>2, <2>2 DEF CfData, left
  <2> DEFINE more == missed \cup {x.sn}
  <2>4. /\ in.cf_sn \in more
        /\ \A sn \in more : /\ BlockGoesOn(ISOTP_RECEIVE_BS, sn)
                            /\ NextSn(sn) \in more \/ NextSn(sn) = t.sn
    BY <1>1, <2>1
  <2> HIDE DEF more, length, left
  <2> QED
    BY <1>3, <1>5, <2>3, <2>4 DEF Behind, left
<1> QED
  BY <1>4, <1>5

LEMMA LossyDataLost ==
  ASSUME NEW acc, NEW out, NEW txo, NEW dbus \in Seq(Frame), NEW rbus \in Seq(Frame),
         NEW in, NEW txi, NEW del, NEW x, dbus # <<>>, IsData(Head(dbus)),
         in.remaining_data \in Int,
         LossyAt(acc, out, txo, dbus, rbus, in, txi, del, x)
  PROVE  \E t : LossyAt(acc, out, txo, Tail(dbus), rbus, in, txi, del, t)
<1> DEFINE f == Head(dbus)
           rest == Tail(dbus)
           awaits == AwaitsFc(out, txo)
<1>1. Leads(acc, out, txo, dbus, x)
  BY DEF LossyAt
<1>2. PICK t : /\ Follows(acc, f, x, t)
               /\ Leads(acc, out, txo, rest, t)
               /\ EndsBlock(f) <=> awaits /\ ~HasData(rest)
               /\ HasData(dbus)
  BY <1>1, LossyLeads
<1> HIDE DEF f, rest, awaits
<1>3. acc \in Seq(Messages) /\ Place(acc, x) /\ IsData(f)
  BY <1>1 DEF Leads, SenderOK, f
<1>4. Place(acc, t) /\ x.n \in Nat /\ x.n <= t.n /\ t.n \in Nat
  BY <1>2, <1>3, NextPlace DEF Place
<1>5. Delivered(acc, del, t.n) /\ Tells(in, txi)
  BY <1>4, DeliveredOn DEF LossyAt
<1>6. Answers(acc, awaits, rest, rbus, in, txi, t)
  BY <1>2 DEF LossyAt, Answers
<1>7. Keeps(acc, awaits, rest, in, txi, t)
  <2> SUFFICES ASSUME t.off # 0, HasData(rest) \/ ~awaits
               PROVE  Stopping(in) \/ Behind(acc, in, t)
    BY DEF Keeps
  <2>1. ~EndsBlock(f) /\ x.off # 0
    BY <1>2, <1>3, NextPlace
  <2>2. Stopping(in) \/ InStep(acc, in, txi, x) \/ Behind(acc, in, x)
    BY <1>2, <2>1 DEF LossyAt, Keeps
  <2> QED
    BY <1>2, <1>3, <2>1, <2>2, FallsBehind
<1>8. LossyAt(acc, out, txo, rest, rbus, in, txi, del, t)
  BY <1>2, <1>5, <1>6, <1>7 DEF LossyAt, awaits
<1> QED
  BY <1>8 DEF rest

(* Whoever misses a frame, both directions go on.                          *)
LEMMA LossyLost ==
  ASSUME NEW acc, NEW out, NEW txo, NEW dbus \in Seq(Frame), NEW rbus \in Seq(Frame),
         NEW in, NEW txi, NEW del, in.remaining_data \in Int,
         LossyDirection(acc, out, txo, dbus, rbus, in, txi, del)
  PROVE  /\ dbus # <<>> => LossyDirection(acc, out, txo, Tail(dbus), rbus, in, txi, del)
         /\ rbus # <<>> => LossyDirection(acc, out, txo, dbus, Tail(rbus), in, txi, del)
<1>1. PICK x : LossyAt(acc, out, txo, dbus, rbus, in, txi, del, x)
  BY DEF LossyDirection
<1>2. dbus # <<>> => \E t : LossyAt(acc, out, txo, Tail(dbus), rbus, in, txi, del, t)
  BY <1>1, LossyDataLost, LossyOtherTaken
<1>3. rbus # <<>> => LossyAt(acc, out, txo, dbus, Tail(rbus), in, txi, del, x)
  BY <1>1, LossyAnswerTaken
<1> QED
  BY <1>2, <1>3 DEF LossyDirection

(* A message accepted behind those on their way.                           *)
LEMMA PrefixKept ==
  ASSUME NEW acc \in Seq(Messages), NEW m \in Messages, NEW n \in Nat, n <= Len(acc)
  PROVE  /\ Prefix(Append(acc, m), n) = Prefix(acc, n)
         /\ \A i \in 1..n : Append(acc, m)[i] = acc[i]
<1> DEFINE more == Append(acc, m)
<1>1. /\ Len(more) = Len(acc) + 1 /\ Len(acc) \in Nat
      /\ \A i \in 1..Len(acc) : more[i] = acc[i]
  BY Appended
<1> HIDE DEF more
<1>2. \A i \in 1..n : more[i] = acc[i]
  BY <1>1
<1>3. [i \in 1..n |-> more[i]] = [i \in 1..n |-> acc[i]]
  BY <1>2
<1> QED
  BY <1>2, <1>3 DEF Prefix, more

LEMMA PlaceKept ==
  ASSUME NEW acc \in Seq(Messages), NEW m \in Messages, NEW x, Place(acc, x)
  PROVE  /\ Place(Append(acc, m), x)
         /\ x.n \in Nat /\ x.n <= Len(acc)
         /\ x.off # 0 => Append(acc, m)[x.n + 1] = acc[x.n + 1]
<1> DEFINE more == Append(acc, m)
<1>1. /\ Len(more) = Len(acc) + 1 /\ Len(acc) \in Nat
      /\ \A i \in 1..Len(acc) : more[i] = acc[i]
  BY Appended
<1> HIDE DEF more
<1>2. x.n \in Nat /\ x.n <= Len(acc) /\ x.n <= Len(more)
  BY <1>1 DEF Place
<1>3. x.off # 0 => x.n + 1 \in 1..Len(acc) /\ x.n + 1 \in 1..Len(more)
                     /\ more[x.n + 1] = acc[x.n + 1]
  BY <1>1 DEF Place
<1>4. Place(more, x)
  BY <1>2, <1>3 DEF Place
<1> QED
  BY <1>2, <1>3, <1>4 DEF more

LEMMA LossySend ==
  ASSUME Inv, NEW m \in Outgoing, isotp_send(m),
         NEW bus \in Seq(Frame), NEW obus \in Seq(Frame),
         NEW acc, NEW pin, NEW ptxi, NEW pdel,
         LossyDirection(acc, output_flow, tx["output"], bus, obus, pin, ptxi, pdel)
  PROVE  /\ LossyDirection(Append(acc, m), output_flow', tx'["output"], bus, obus,
                           pin, ptxi, pdel)
         /\ UNCHANGED <<input_flow, tx, attached>>
<1> DEFINE more == Append(acc, m)
           s == SendPosition(acc, output_flow, tx["output"])
<1>1. PICK x : LossyAt(acc, output_flow, tx["output"], bus, obus, pin, ptxi, pdel, x)
  BY DEF LossyDirection
<1>2. /\ SenderOK(more, output_flow', tx'["output"])
      /\ SendPosition(more, output_flow', tx'["output"]) = s
      /\ ~AwaitsFc(output_flow, tx["output"])
      /\ ~AwaitsFc(output_flow', tx'["output"])
      /\ m \in Messages
      /\ UNCHANGED <<input_flow, tx>>
  BY <1>1, SendBegins DEF LossyAt, Leads
<1>3. acc \in Seq(Messages) /\ Place(acc, x) /\ Chain(acc, bus, x, s)
  BY <1>1 DEF LossyAt, Leads, SenderOK
<1>4. AwaitsFc(output_flow', tx'["output"]) = AwaitsFc(output_flow, tx["output"])
  BY <1>2, Booleans
<1> HIDE DEF s
<1>5. /\ Place(more, x) /\ x.n \in Nat /\ x.n <= Len(acc)
      /\ x.off # 0 => more[x.n + 1] = acc[x.n + 1]
  BY <1>2, <1>3, PlaceKept
<1>6. Chain(more, bus, x, s)
  BY <1>2, <1>3, ChainKept
<1>7. Prefix(more, x.n) = Prefix(acc, x.n) /\ \A i \in 1..x.n : more[i] = acc[i]
  BY <1>2, <1>3, <1>5, PrefixKept
<1>8. InStep(acc, pin, ptxi, x) => InStep(more, pin, ptxi, x)
  <2> DEFINE d == Prefix(acc, x.n)
  <2>1. ReceiverOK(acc, pin, ptxi, d) => ReceiverOK(more, pin, ptxi, d)
    <3> HIDE DEF d
    <3> QED
      BY <1>2, <1>3, ReceiverKept
  <2> HIDE DEF more
  <2> QED
    BY <1>7, <2>1 DEF InStep
<1> HIDE DEF more
<1>9. Leads(more, output_flow', tx'["output"], bus, x)
  BY <1>1, <1>2, <1>4, <1>5, <1>6 DEF LossyAt, Leads
<1>10. Delivered(more, pdel, x.n)
  BY <1>1, <1>7 DEF LossyAt, Delivered
<1>11. ~AwaitsFc(output_flow', tx'["output"]) /\ ~(Asks(pin, ptxi) \/ HasFc(obus)) /\ OneGo(obus)
  BY <1>1, <1>2 DEF LossyAt, Answers
<1>12. x.off # 0 => Stopping(pin) \/ InStep(more, pin, ptxi, x) \/ Behind(more, pin, x)
  <2>1. x.off # 0 => Stopping(pin) \/ InStep(acc, pin, ptxi, x) \/ Behind(acc, pin, x)
    BY <1>1, <1>2 DEF LossyAt, Keeps
  <2>2. x.off # 0 /\ Behind(acc, pin, x) => Behind(more, pin, x)
    BY <1>5 DEF Behind
  <2> QED
    BY <1>8, <2>1, <2>2
<1>13. LossyAt(more, output_flow', tx'["output"], bus, obus, pin, ptxi, pdel, x)
  BY <1>1, <1>9, <1>10, <1>11, <1>12 DEF LossyAt, Answers, Keeps
<1>14. UNCHANGED attached
  BY DEF isotp_send
<1> QED
  BY <1>2, <1>13, <1>14 DEF LossyDirection, more

(* A frame of data goes on the bus.                                        *)
LEMMA LossyOutput ==
  ASSUME Inv, attached, FailingFlows = {}, isotp_out_flow_output,
         NEW bus \in Seq(Frame), NEW obus \in Seq(Frame),
         NEW acc, NEW pin, NEW ptxi, NEW pdel,
         LossyDirection(acc, output_flow, tx["output"], bus, obus, pin, ptxi, pdel),
         NEW pacc, NEW pout, NEW ptxo, NEW del,
         LossyDirection(pacc, pout, ptxo, obus, bus, input_flow, tx["input"], del)
  PROVE  /\ bus \o Emitted \in Seq(Frame)
         /\ LossyDirection(acc, output_flow', tx'["output"], bus \o Emitted, obus,
                           pin, ptxi, pdel)
         /\ LossyDirection(pacc, pout, ptxo, obus, bus \o Emitted,
                           input_flow', tx'["input"], del)
         /\ UNCHANGED attached
<1> DEFINE f == OutputFrame
           longer == Append(bus, f)
           s == SendPosition(acc, output_flow, tx["output"])
           t == SendPosition(acc, output_flow', tx'["output"])
<1>1. PICK x : LossyAt(acc, output_flow, tx["output"], bus, obus, pin, ptxi, pdel, x)
  BY DEF LossyDirection
<1>2. PICK y : LossyAt(pacc, pout, ptxo, obus, bus, input_flow, tx["input"], del, y)
  BY DEF LossyDirection
<1>3. /\ f \in Frame /\ IsData(f)
      /\ Follows(acc, f, s, t)
      /\ ~AwaitsFc(output_flow, tx["output"])
      /\ AwaitsFc(output_flow', tx'["output"]) <=> EndsBlock(f)
      /\ SenderOK(acc, output_flow', tx'["output"])
      /\ UNCHANGED input_flow /\ tx'["input"] = tx["input"]
      /\ Emitted = <<f>>
  BY <1>1, FramePut DEF LossyAt, Leads
<1> HIDE DEF f
<1>4. bus \o Emitted = longer /\ longer \in Seq(Frame)
  BY <1>3
<1>5. Chain(acc, bus, x, s) /\ Place(acc, x) /\ LastAsks(FALSE, bus)
  <2>1. AwaitsFc(output_flow, tx["output"]) = FALSE
    BY <1>3, Booleans
  <2> QED
    BY <1>1, <2>1 DEF LossyAt, Leads
<1> HIDE DEF s, t
<1>6. Chain(acc, longer, x, t)
  BY <1>3, <1>5, ChainAppended
<1>7. EndsBlock(f) = AwaitsFc(output_flow', tx'["output"])
  BY <1>3, Booleans DEF EndsBlock
<1>8. LastAsks(AwaitsFc(output_flow', tx'["output"]), longer) /\ HasData(longer)
  BY <1>3, <1>5, <1>7, DataAsks, PutOn
<1>9. LossyAt(pacc, pout, ptxo, obus, longer, input_flow, tx["input"], del, y)
  BY <1>2, <1>3, LossyOtherPut
<1> HIDE DEF longer
<1>10. Leads(acc, output_flow', tx'["output"], longer, x)
  BY <1>3, <1>5, <1>6, <1>8 DEF Leads, t
<1>11. ~(Asks(pin, ptxi) \/ HasFc(obus)) /\ OneGo(obus)
  BY <1>1, <1>3 DEF LossyAt, Answers
<1>12. x.off # 0 => Stopping(pin) \/ InStep(acc, pin, ptxi, x) \/ Behind(acc, pin, x)
  BY <1>1, <1>3 DEF LossyAt, Keeps
<1>13. LossyAt(acc, output_flow', tx'["output"], longer, obus, pin, ptxi, pdel, x)
  BY <1>1, <1>10, <1>11, <1>12 DEF LossyAt, Answers, Keeps
<1>14. UNCHANGED attached
  BY DEF isotp_out_flow_output, output_accepted, output_refused
<1> QED
  BY <1>3, <1>4, <1>9, <1>13, <1>14 DEF LossyDirection

(* A flow control frame goes on the bus: the answer to a frame the receiver *)
(* got in step, ...                                                        *)
LEMMA LossyFlowControl ==
  ASSUME Inv, attached, FailingFlows = {}, isotp_in_flow_output,
         input_flow.fs = "READY",
         NEW bus \in Seq(Frame), NEW obus \in Seq(Frame),
         NEW acc, NEW pin, NEW ptxi, NEW pdel,
         LossyDirection(acc, output_flow, tx["output"], bus, obus, pin, ptxi, pdel),
         NEW pacc, NEW pout, NEW ptxo, NEW del,
         LossyDirection(pacc, pout, ptxo, obus, bus, input_flow, tx["input"], del)
  PROVE  /\ bus \o Emitted \in Seq(Frame)
         /\ LossyDirection(acc, output_flow', tx'["output"], bus \o Emitted, obus,
                           pin, ptxi, pdel)
         /\ LossyDirection(pacc, pout, ptxo, obus, bus \o Emitted,
                           input_flow', tx'["input"], del)
         /\ UNCHANGED attached
<1> DEFINE longer == Append(bus, Go)
           awaits == AwaitsFc(pout, ptxo)
<1>1. PICK x : LossyAt(acc, output_flow, tx["output"], bus, obus, pin, ptxi, pdel, x)
  BY DEF LossyDirection
<1>2. PICK y : LossyAt(pacc, pout, ptxo, obus, bus, input_flow, tx["input"], del, y)
  BY DEF LossyDirection
<1>3. Asks(input_flow, tx["input"])
  <2>1. input_flow.state = "TX_FC" /\ Len(tx["input"]) = 0
    BY InputTimeout DEF Inv
  <2>2. tx["input"] = <<>>
    BY <2>1, SenderTypes, EmptyIs DEF Inv, SenderInv
  <2> QED
    BY <2>1, <2>2 DEF Asks, OwesFc
<1>4. /\ awaits /\ ~HasData(obus) /\ InStep(pacc, input_flow, tx["input"], y)
      /\ ~HasFc(bus) /\ OneGo(bus)
  BY <1>2, <1>3 DEF LossyAt, Answers
<1>5. /\ Emitted = <<Go>>
      /\ ~OwesFc(input_flow', tx'["input"])
      /\ ReceiverOK(pacc, input_flow', tx'["input"], Prefix(pacc, y.n))
      /\ UNCHANGED <<input_flow, output_flow, attached>> /\ tx'["output"] = tx["output"]
  <2> DEFINE d == Prefix(pacc, y.n)
  <2>1. ReceiverOK(pacc, input_flow, tx["input"], d)
    BY <1>4 DEF InStep
  <2> HIDE DEF d
  <2>2. /\ Emitted = <<Go>>
        /\ ~OwesFc(input_flow', tx'["input"])
        /\ ReceiverOK(pacc, input_flow', tx'["input"], d)
        /\ UNCHANGED <<input_flow, output_flow, attached>> /\ tx'["output"] = tx["output"]
    BY <2>1, FcPut
  <2> QED
    BY <2>2 DEF d
<1>6. InStep(pacc, input_flow', tx'["input"], y)
  BY <1>4, <1>5 DEF InStep
<1>7. Go \in Frame /\ ~IsData(Go)
  BY GoIsFrame DEF IsData, Go
<1>8. bus \o Emitted = longer /\ longer \in Seq(Frame)
  BY <1>5, <1>7
<1>9. LossyAt(acc, output_flow, tx["output"], longer, obus, pin, ptxi, pdel, x)
  BY <1>1, <1>7, LossyOtherPut
<1>10. OneGo(longer)
  BY <1>4, <1>7, GoPut
<1> HIDE DEF longer, awaits
<1>11. Answers(pacc, awaits, obus, longer, input_flow', tx'["input"], y)
  BY <1>4, <1>5, <1>6, <1>10 DEF Answers, Asks
<1>12. Keeps(pacc, awaits, obus, input_flow', tx'["input"], y)
  BY <1>4 DEF Keeps
<1>13. Tells(input_flow', tx'["input"])
  BY <1>5, <1>6, StepMeans DEF Tells, ReceiverOK
<1>14. LossyAt(pacc, pout, ptxo, obus, longer, input_flow', tx'["input"], del, y)
  BY <1>2, <1>11, <1>12, <1>13 DEF LossyAt, awaits
<1> QED
  BY <1>5, <1>8, <1>9, <1>14 DEF LossyDirection

(* ... or one that stops the sender.                                       *)
LEMMA StopPut ==
  ASSUME Inv, attached, FailingFlows = {}, isotp_in_flow_output,
         input_flow.fs # "READY",
         NEW bus, NEW obus, NEW pacc, NEW pout, NEW ptxo, NEW del,
         LossyDirection(pacc, pout, ptxo, obus, bus, input_flow, tx["input"], del)
  PROVE  Emitted = <<FlowControl>> /\ FlowControl.type = "FC" /\ FlowControl.fs = "OVERFLOW"
<1>1. input_flow.state = "TX_FC" /\ Len(tx["input"]) = 0
  BY InputTimeout DEF Inv
<1>2. flow_control_accepted
  BY <1>1 DEF isotp_in_flow_output, flow_control_refused
<1>3. tx \in [Flow -> Seq(Frame)] /\ tx["input"] \in Seq(Frame) /\ tx["output"] \in Seq(Frame)
  BY SenderTypes DEF Inv, SenderInv, SenderType
<1>4. tx["input"] = <<>>
  BY <1>1, <1>3, EmptyIs
<1>5. tx'["input"] = <<FlowControl>> /\ tx'["output"] = tx["output"]
  BY <1>2, <1>3, <1>4 DEF flow_control_accepted, Flow
<1>6. Emitted = <<FlowControl>>
  <2> DEFINE fc == FlowControl
  <2> HIDE DEF fc
  <2>1. Len(tx'["output"]) = Len(tx["output"]) /\ Len(tx["output"]) \in Nat
    BY <1>3, <1>5
  <2>2. tx'["input"] = <<fc>> /\ Len(tx'["input"]) = 1 /\ tx'["input"][1] = fc
    BY <1>5 DEF fc
  <2>3. /\ ~(Len(tx'["output"]) > Len(tx["output"]))
        /\ Len(tx'["input"]) > Len(tx["input"])
        /\ tx'["input"][Len(tx'["input"])] = fc
    BY <1>1, <2>1, <2>2
  <2>4. Emitted = <<>> \o <<fc>>
    BY <2>3 DEF Emitted
  <2> QED
    BY <2>4 DEF fc
<1>7. input_flow.fs = "OVERFLOW"
  BY <1>1 DEF LossyDirection, LossyAt, Tells, Stopping
<1> QED
  BY <1>6, <1>7 DEF FlowControl

(* The driver reports a frame.                                             *)
LEMMA LossyConfirm ==
  ASSUME Inv, FailingFlows = {}, isotp_sent,
         NEW bus \in Seq(Frame), NEW obus \in Seq(Frame),
         NEW acc, NEW pin, NEW ptxi, NEW pdel,
         LossyDirection(acc, output_flow, tx["output"], bus, obus, pin, ptxi, pdel),
         NEW pacc, NEW pout, NEW ptxo, NEW del,
         LossyDirection(pacc, pout, ptxo, obus, bus, input_flow, tx["input"], del)
  PROVE  /\ LossyDirection(acc, output_flow', tx'["output"], bus, obus, pin, ptxi, pdel)
         /\ LossyDirection(pacc, pout, ptxo, obus, bus, input_flow', tx'["input"], del)
         /\ UNCHANGED attached
<1>1. PICK x : LossyAt(acc, output_flow, tx["output"], bus, obus, pin, ptxi, pdel, x)
  BY DEF LossyDirection
<1>2. PICK y : LossyAt(pacc, pout, ptxo, obus, bus, input_flow, tx["input"], del, y)
  BY DEF LossyDirection
<1>3. CASE sent_sf \/ sent_ff \/ sent_cf \/ sent_last_cf
  <2>1. /\ SenderOK(acc, output_flow', tx'["output"])
        /\ SendPosition(acc, output_flow', tx'["output"])
             = SendPosition(acc, output_flow, tx["output"])
        /\ AwaitsFc(output_flow', tx'["output"]) <=> AwaitsFc(output_flow, tx["output"])
        /\ UNCHANGED <<input_flow, attached>> /\ tx'["input"] = tx["input"]
    BY <1>1, <1>3, ConfirmMoves DEF LossyAt, Leads
  <2>2. AwaitsFc(output_flow', tx'["output"]) = AwaitsFc(output_flow, tx["output"])
    BY <2>1, Booleans
  <2>3. LossyAt(acc, output_flow', tx'["output"], bus, obus, pin, ptxi, pdel, x)
    BY <1>1, <2>1, <2>2 DEF LossyAt, Leads
  <2> QED
    BY <1>2, <2>1, <2>3 DEF LossyDirection
<1>4. CASE sent_fc
  <2>1. Confirm("input") /\ UNCHANGED <<output_flow, attached>> /\ input_flow.state = "TX_FC"
    BY <1>4 DEF sent_fc
  <2>2. tx["input"] # <<>> /\ Len(tx'["input"]) = 0 /\ tx'["output"] = tx["output"]
    BY <2>1, InputConfirmed DEF Inv, Confirm
  <2>3. input_flow \in InputFlow /\ input_flow.fs = "READY"
    BY <1>2, <2>1, <2>2, ReceiverTypes DEF Inv, ReceiverInv, LossyAt, Tells, Stopping
  <2>4. input_flow' = [input_flow EXCEPT !.state = "WAIT_CF"]
    BY <1>4, <2>3 DEF sent_fc
  <2>5. /\ input_flow'.state = "WAIT_CF" /\ input_flow'.buffer = input_flow.buffer
        /\ input_flow'.remaining_data = input_flow.remaining_data
        /\ input_flow'.cf_sn = input_flow.cf_sn
        /\ input_flow'.fs = input_flow.fs /\ input_flow'.bs = input_flow.bs
    BY <2>3, <2>4 DEF InputFlow
  <2>6. /\ ~Asks(input_flow, tx["input"]) /\ ~Asks(input_flow', tx'["input"])
        /\ ~Stopping(input_flow) /\ ~Stopping(input_flow')
    BY <2>2, <2>3, <2>5 DEF Asks, OwesFc, Stopping
  <2>7. InStep(pacc, input_flow, tx["input"], y) => InStep(pacc, input_flow', tx'["input"], y)
    <3> DEFINE d == Prefix(pacc, y.n)
    <3>1. ReceiverOK(pacc, input_flow, tx["input"], d) =>
            /\ ReceiverOK(pacc, input_flow', tx'["input"], d)
            /\ ReceivePosition(input_flow', d) = ReceivePosition(input_flow, d)
      <4> HIDE DEF d
      <4> QED
        BY <1>4, FcConfirmed
    <3> QED
      BY <3>1 DEF InStep
  <2>8. Behind(pacc, input_flow, y) => Behind(pacc, input_flow', y)
    BY <2>5 DEF Behind
  <2>9. Tells(input_flow', tx'["input"])
    BY <2>2, <2>6 DEF Tells
  <2>10. LossyAt(pacc, pout, ptxo, obus, bus, input_flow', tx'["input"], del, y)
    BY <1>2, <2>6, <2>7, <2>8, <2>9 DEF LossyAt, Answers, Keeps
  <2> QED
    BY <1>1, <2>1, <2>2, <2>10 DEF LossyDirection
<1> QED
  BY <1>3, <1>4 DEF isotp_sent, isotp_sent_error_output, isotp_sent_error_input

(* What the receiver makes of a data frame at place x, while none of its     *)
(* flow control frames is under way.                                       *)
LEMMA GoUnderWay ==
  ASSUME Inv, \A i \in 1..Len(tx["input"]) : tx["input"][i] = Go,
         NEW bus \in Seq(Frame), Unconfirmed \subseteq OnTheBus(bus),
         ~HasFc(bus)
  PROVE  tx["input"] = <<>>
<1>1. tx["input"] \in Seq(Frame)
  BY SenderTypes DEF Inv, SenderInv
<1>2. ASSUME tx["input"] # <<>>
      PROVE  FALSE
  <2>1. 1 \in 1..Len(tx["input"]) /\ 1 \in DOMAIN tx["input"]
    BY <1>1, <1>2
  <2>2. ~IsData(tx["input"][1]) /\ tx["input"][1] \in Unconfirmed
    BY <2>1 DEF Unconfirmed, IsData, Go
  <2>3. DOMAIN bus = 1..Len(bus)
    OBVIOUS
  <2> QED
    BY <2>2, <2>3 DEF OnTheBus, HasFc
<1> QED
  BY <1>2

LEMMA ReceivedOne ==
  ASSUME NEW frame
  PROVE  Received(frame) = <<>> \/ \E m : Received(frame) = <<m>>
<1> DEFINE x == Reassembled(NewBuffer(CHOOSE b \in FreeBuffers : TRUE, frame.dl,
                               [at |-> 0, len |-> frame.dl, data |-> frame.data]))
           y == Reassembled(Head(Stored(frame.data)))
           C == frame.type = "SF" /\ input_flow.state = "IDLE" /\ FreeBuffers # {}
           D == CfMatches(frame) /\ input_flow.remaining_data = StoredLength
<1>1. Received(frame) = CASE C -> <<x>> [] D -> <<y>> [] OTHER -> <<>>
  BY DEF Received
<1>2. ~C \/ ~D
  BY DEF CfMatches
<1> HIDE DEF x, y, C, D
<1> QED
  BY <1>1, <1>2

(* In step it gets what it waits for, and the message if that was the last  *)
(* of it.                                                                  *)
LEMMA StepTaken ==
  ASSUME Inv, ~Holding, BufferId # {}, NEW acc \in Seq(Messages), NEW x, NEW t,
         Place(acc, x), InStep(acc, input_flow, tx["input"], x),
         input_flow.state # "TX_FC",
         NEW f \in Frame, IsData(f), Follows(acc, f, x, t), isotp_input(f)
  PROVE  /\ InStep(acc, input_flow', tx'["input"], t)
         /\ OwesFc(input_flow', tx'["input"]) <=> EndsBlock(f)
         /\ UNCHANGED <<output_flow, tx, attached>>
         /\ \/ Received(f) = <<>>
            \/ /\ t.n = x.n + 1
               /\ Received(f) = <<acc[t.n]>>
<1> DEFINE d == Prefix(acc, x.n)
           more == d \o Received(f)
<1>1. ReceiverOK(acc, input_flow, tx["input"], d) /\ ReceivePosition(input_flow, d) = x
  BY DEF InStep
<1>2. d \in Seq(Messages) /\ Len(d) = x.n /\ x.n \in Nat
  BY PrefixIs DEF Place
<1> HIDE DEF d
<1>3. /\ ReceiverOK(acc, input_flow', tx'["input"], more)
      /\ ReceivePosition(input_flow', more) = t
      /\ OwesFc(input_flow', tx'["input"]) <=> EndsBlock(f)
      /\ UNCHANGED <<output_flow, tx, attached>>
  BY <1>1, DataTaken
<1>4. InStep(acc, input_flow', tx'["input"], t) /\ t.n = Len(more)
  <2> HIDE DEF more
  <2> QED
    BY <1>3, StepIs
<1>5. ASSUME NEW m, Received(f) = <<m>>
      PROVE  t.n = x.n + 1 /\ m = acc[t.n]
  <2> DEFINE e == d \o <<m>>
  <2>1. Len(e) = x.n + 1 /\ e[x.n + 1] = m
    BY <1>2
  <2>2. more = e
    BY <1>5
  <2> HIDE DEF e, more
  <2>3. \A i \in 1..Len(e) : e[i] = acc[i]
    BY <1>3, <2>2 DEF ReceiverOK
  <2>4. x.n + 1 \in 1..Len(e)
    BY <1>2, <2>1
  <2> QED
    BY <1>4, <2>1, <2>2, <2>3, <2>4
<1> QED
  BY <1>3, <1>4, <1>5, ReceivedOne

(* Behind, it either takes the frame for the one it missed, and stays       *)
(* behind: the message is not complete for it, nor the block; or it finds   *)
(* the frame out of sequence and is about to say stop.                      *)
LEMMA BehindTaken ==
  ASSUME Inv, tx["input"] = <<>>, NEW acc \in Seq(Messages), NEW x, NEW t,
         Place(acc, x), x.off # 0, Behind(acc, input_flow, x),
         input_flow.state = "WAIT_CF",
         NEW f \in Frame, IsData(f), Follows(acc, f, x, t), isotp_input(f)
  PROVE  /\ t.off # 0 => Stopping(input_flow') \/ Behind(acc, input_flow', t)
         /\ Stopping(input_flow') => input_flow'.fs = "OVERFLOW"
         /\ ~Asks(input_flow', tx'["input"])
         /\ UNCHANGED <<output_flow, tx, attached>>
         /\ Received(f) = <<>>
<1> DEFINE left == input_flow.remaining_data
           length == acc[x.n + 1].length
<1>1. /\ f.type = "CF" /\ f.sn = x.sn
      /\ t.off # 0 =>
              /\ t.n = x.n /\ t.off = x.off + CfData /\ t.sn = NextSn(x.sn)
              /\ length \in Nat
  BY NextPlace
<1>2. /\ left >= (length - x.off) + CfData /\ left \in Nat
      /\ input_flow.fs = "READY" /\ input_flow.bs = ISOTP_RECEIVE_BS
      /\ input_flow \in InputFlow
  BY ReceiverTypes DEF Behind, Inv, ReceiverInv
<1>3. PICK missed :
          /\ input_flow.cf_sn \in missed
          /\ \A sn \in missed : /\ BlockGoesOn(ISOTP_RECEIVE_BS, sn)
                                /\ NextSn(sn) \in missed \/ NextSn(sn) = x.sn
  BY DEF Behind
<1>4. /\ x.off \in Nat /\ x.off < length /\ length \in Nat
  <2>1. x.n + 1 \in 1..Len(acc) /\ x.off \in Nat /\ x.off < length
    BY DEF Place
  <2>2. acc[x.n + 1] \in Messages
    BY <2>1
  <2> QED
    BY <2>1, <2>2, MessageLength
<1> HIDE DEF left, length
<1>5. left > CfData
  BY <1>2, <1>4 DEF CfData
<1>6. StoredLength = CfData /\ left # StoredLength
  BY <1>2, <1>5 DEF StoredLength, Least, CfData, left
<1>7. Received(f) = <<>>
  <2>1. f.type # "SF" /\ ~(CfMatches(f) /\ input_flow.remaining_data = StoredLength)
    BY <1>1, <1>6 DEF left
  <2> QED
    BY <2>1 DEF Received
<1>8. CASE input_flow.cf_sn = f.sn
  <2>1. received_cf(f)
    BY <1>1, <1>6, <1>8 DEF left, isotp_input, received_sf, received_ff, received_last_cf,
      received_wrong_cf, received_fc, isotp_input_dropped, CfMatches
  <2>2. UNCHANGED <<output_flow, tx, attached>>
    BY <2>1 DEF received_cf
  <2>3. BlockGoesOn(input_flow.bs, input_flow.cf_sn)
    BY <1>2, <1>3
  <2>4. input_flow' = [input_flow EXCEPT
          !.buffer = Stored(f.data),
          !.remaining_data = @ - StoredLength,
          !.cf_sn = NextSn(@),
          !.fs = @,
          !.state = "WAIT_CF"]
    BY <2>1, <2>3 DEF received_cf
  <2>5. /\ input_flow'.state = "WAIT_CF" /\ input_flow'.fs = "READY"
        /\ input_flow'.bs = ISOTP_RECEIVE_BS
        /\ input_flow'.remaining_data = left - CfData
        /\ input_flow'.cf_sn = NextSn(input_flow.cf_sn)
    <3> DEFINE stored == Stored(f.data)
               sn == NextSn(input_flow.cf_sn)
    <3> HIDE DEF stored, sn
    <3>1. input_flow' = [input_flow EXCEPT
            !.buffer = stored, !.remaining_data = @ - StoredLength,
            !.cf_sn = sn, !.fs = @, !.state = "WAIT_CF"]
      BY <2>4 DEF stored, sn
    <3>2. /\ input_flow'.state = "WAIT_CF" /\ input_flow'.fs = input_flow.fs
          /\ input_flow'.bs = input_flow.bs
          /\ input_flow'.remaining_data = input_flow.remaining_data - StoredLength
          /\ input_flow'.cf_sn = sn
      BY <1>2, <3>1 DEF InputFlow
    <3> QED
      BY <1>2, <1>6, <3>2 DEF sn, left
  <2>6. ASSUME t.off # 0
        PROVE  Behind(acc, input_flow', t)
    <3> DEFINE more == missed \cup {x.sn}
    <3>1. t.n = x.n /\ t.off = x.off + CfData /\ t.sn = NextSn(x.sn)
            /\ acc[t.n + 1].length = length
      BY <1>1, <2>6 DEF length
    <3>2. left - CfData >= (length - t.off) + CfData
      BY <1>2, <1>4, <3>1 DEF CfData
    <3>3. BlockGoesOn(ISOTP_RECEIVE_BS, x.sn) /\ x.sn \in missed
      BY <1>1, <1>3, <1>8
    <3>4. /\ input_flow'.cf_sn \in more
          /\ \A sn \in more : /\ BlockGoesOn(ISOTP_RECEIVE_BS, sn)
                              /\ NextSn(sn) \in more \/ NextSn(sn) = t.sn
      BY <1>1, <1>3, <1>8, <2>5, <3>1, <3>3
    <3> HIDE DEF more
    <3> QED
      BY <2>5, <3>1, <3>2, <3>4 DEF Behind
  <2> QED
    BY <1>7, <2>2, <2>5, <2>6 DEF Stopping, Asks, OwesFc
<1>9. CASE input_flow.cf_sn # f.sn
  <2>1. received_wrong_cf(f)
    BY <1>1, <1>9 DEF isotp_input, received_sf, received_ff, received_last_cf,
      received_cf, received_fc, isotp_input_dropped, CfMatches
  <2>2. UNCHANGED <<output_flow, tx, attached>>
    BY <2>1 DEF received_wrong_cf
  <2>3. input_flow'.state = "TX_FC" /\ input_flow'.fs = "OVERFLOW"
    BY <1>2, <2>1 DEF received_wrong_cf, InputFlow
  <2> QED
    BY <1>7, <2>2, <2>3 DEF Stopping, Asks
<1> QED
  BY <1>8, <1>9

(* Whatever it is doing.                                                   *)
LEMMA ReceiverTakes ==
  ASSUME Inv, ~Holding, BufferId # {}, tx["input"] = <<>>,
         NEW acc \in Seq(Messages), NEW x, NEW t, Place(acc, x),
         Tells(input_flow, tx["input"]), ~Asks(input_flow, tx["input"]),
         x.off # 0 => \/ Stopping(input_flow)
                      \/ InStep(acc, input_flow, tx["input"], x)
                      \/ Behind(acc, input_flow, x),
         NEW f \in Frame, IsData(f), Follows(acc, f, x, t), isotp_input(f)
  PROVE  /\ UNCHANGED <<output_flow, tx, attached>>
         /\ Tells(input_flow', tx'["input"])
         /\ Asks(input_flow', tx'["input"]) =>
              EndsBlock(f) /\ InStep(acc, input_flow', tx'["input"], t)
         /\ t.off # 0 /\ ~EndsBlock(f) =>
              \/ Stopping(input_flow')
              \/ InStep(acc, input_flow', tx'["input"], t)
              \/ Behind(acc, input_flow', t)
         /\ \/ Received(f) = <<>>
            \/ /\ t.n = x.n + 1
               /\ Received(f) = <<acc[t.n]>>
<1>1. /\ Place(acc, t)
      /\ f.type # "FC"
      /\ x.off = 0 => f.type \in {"SF", "FF"}
      /\ x.off = 0 /\ t.off # 0 => EndsBlock(f)
      /\ x.off # 0 => f.type = "CF"
  BY NextPlace
<1>2. CASE \/ Stopping(input_flow)
           \/ input_flow.state = "WAIT_CF" /\ x.off = 0
  <2>1. input_flow.state = "TX_FC" \/ (input_flow.state = "WAIT_CF" /\ f.type \in {"SF", "FF"})
    BY <1>1, <1>2 DEF Stopping
  <2>2. UNCHANGED vars
    BY <1>1, <2>1 DEF isotp_input, received_sf, received_ff, received_cf,
      received_last_cf, received_wrong_cf, received_fc, isotp_input_dropped, CfMatches
  <2>3. Received(f) = <<>>
    BY <2>1 DEF Received, CfMatches
  <2>4. UNCHANGED <<input_flow, output_flow, tx, attached>>
    BY <2>2 DEF vars
  <2> QED
    BY <1>1, <1>2, <2>3, <2>4
<1>3. CASE input_flow.state = "WAIT_CF" /\ x.off # 0 /\ Behind(acc, input_flow, x)
  <2>1. /\ t.off # 0 => Stopping(input_flow') \/ Behind(acc, input_flow', t)
        /\ Stopping(input_flow') => input_flow'.fs = "OVERFLOW"
        /\ ~Asks(input_flow', tx'["input"])
        /\ UNCHANGED <<output_flow, tx, attached>>
        /\ Received(f) = <<>>
    BY <1>3, BehindTaken
  <2> QED
    BY <2>1 DEF Tells
<1>4. CASE input_flow.state # "TX_FC" /\ InStep(acc, input_flow, tx["input"], x)
  <2>1. /\ InStep(acc, input_flow', tx'["input"], t)
        /\ OwesFc(input_flow', tx'["input"]) <=> EndsBlock(f)
        /\ UNCHANGED <<output_flow, tx, attached>>
        /\ \/ Received(f) = <<>>
           \/ t.n = x.n + 1 /\ Received(f) = <<acc[t.n]>>
    BY <1>4, StepTaken
  <2>2. ~Stopping(input_flow') /\ (Asks(input_flow', tx'["input"]) => EndsBlock(f))
    BY <2>1, StepMeans
  <2> QED
    BY <2>1, <2>2 DEF Tells
<1>5. input_flow.state = "TX_FC" => Stopping(input_flow)
  BY DEF Asks, OwesFc, Stopping
<1>6. input_flow.state = "IDLE" => InStep(acc, input_flow, tx["input"], x)
  <2>1. input_flow.state = "IDLE" /\ x.off = 0 => InStep(acc, input_flow, tx["input"], x)
    BY StepIdle DEF Tells
  <2>2. input_flow.state = "IDLE" => ~Stopping(input_flow) /\ ~Behind(acc, input_flow, x)
    BY DEF Stopping, Behind
  <2> QED
    BY <2>1, <2>2
<1>7. input_flow.state \in {"IDLE", "TX_FC", "WAIT_CF"}
  BY ReceiverTypes DEF Inv, ReceiverInv, InputState
<1> QED
  BY <1>2, <1>3, <1>4, <1>5, <1>6, <1>7

(* A receiver is given nothing, or a message beyond those it was given.     *)
Furthers(acc, del, more) ==
  \/ more = del
  \/ \E i \in DOMAIN acc :
       /\ \A j \in DOMAIN del : \E k \in 1..(i - 1) : del[j] = acc[k]
       /\ more = Append(del, acc[i])

(* The next frame of the peer is data: what it completes is the message it   *)
(* belongs to, which is behind all delivered before; ...                   *)
LEMMA LossyData ==
  ASSUME Inv, ~Holding, BufferId # {},
         NEW bus \in Seq(Frame), NEW obus \in Seq(Frame), obus # <<>>,
         IsData(Head(obus)), Unconfirmed \subseteq OnTheBus(bus),
         isotp_input(Head(obus)),
         NEW acc, NEW pin, NEW ptxi, NEW pdel,
         LossyDirection(acc, output_flow, tx["output"], bus, obus, pin, ptxi, pdel),
         NEW pacc, NEW pout, NEW ptxo, NEW del,
         LossyDirection(pacc, pout, ptxo, obus, bus, input_flow, tx["input"], del)
  PROVE  /\ LossyDirection(acc, output_flow', tx'["output"], bus, Tail(obus),
                           pin, ptxi, pdel)
         /\ LossyDirection(pacc, pout, ptxo, Tail(obus), bus, input_flow', tx'["input"],
                           del \o Received(Head(obus)))
         /\ UNCHANGED attached
         /\ Furthers(pacc, del, del \o Received(Head(obus)))
<1> DEFINE f == Head(obus)
           rest == Tail(obus)
           awaits == AwaitsFc(pout, ptxo)
           more == del \o Received(f)
<1>1. PICK x : LossyAt(acc, output_flow, tx["output"], bus, obus, pin, ptxi, pdel, x)
  BY DEF LossyDirection
<1>2. PICK y : LossyAt(pacc, pout, ptxo, obus, bus, input_flow, tx["input"], del, y)
  BY DEF LossyDirection
<1>3. PICK t : /\ Follows(pacc, f, y, t)
               /\ Leads(pacc, pout, ptxo, rest, t)
               /\ EndsBlock(f) <=> awaits /\ ~HasData(rest)
               /\ HasData(obus)
  BY <1>2, LossyLeads DEF LossyAt
<1>4. /\ pacc \in Seq(Messages) /\ Place(pacc, y) /\ f \in Frame /\ rest \in Seq(Frame)
      /\ IsData(f) /\ isotp_input(f) /\ Place(pacc, t) /\ y.n \in Nat /\ t.n \in Nat
      /\ y.n <= t.n /\ t.n <= Len(pacc)
  <2>1. pacc \in Seq(Messages) /\ Place(pacc, y) /\ IsData(f) /\ isotp_input(f)
    BY <1>2 DEF LossyAt, Leads, SenderOK
  <2> QED
    BY <1>3, <2>1, NextPlace DEF Leads, Place
<1>5. /\ ~Asks(input_flow, tx["input"]) /\ ~HasFc(bus) /\ OneGo(bus)
      /\ Tells(input_flow, tx["input"])
      /\ y.off # 0 => \/ Stopping(input_flow)
                      \/ InStep(pacc, input_flow, tx["input"], y)
                      \/ Behind(pacc, input_flow, y)
  BY <1>2, <1>3 DEF LossyAt, Answers, Keeps
<1>6. tx["input"] = <<>>
  BY <1>5, GoUnderWay DEF Tells
<1> HIDE DEF f, rest, awaits, more
<1>7. /\ UNCHANGED <<output_flow, tx, attached>>
      /\ Tells(input_flow', tx'["input"])
      /\ Asks(input_flow', tx'["input"]) =>
           EndsBlock(f) /\ InStep(pacc, input_flow', tx'["input"], t)
      /\ t.off # 0 /\ ~EndsBlock(f) =>
           \/ Stopping(input_flow')
           \/ InStep(pacc, input_flow', tx'["input"], t)
           \/ Behind(pacc, input_flow', t)
      /\ \/ Received(f) = <<>>
         \/ t.n = y.n + 1 /\ Received(f) = <<pacc[t.n]>>
  BY <1>3, <1>4, <1>5, <1>6, ReceiverTakes
<1>8. Delivered(pacc, del, y.n) /\ del \in Seq(Messages)
  BY <1>2 DEF LossyAt, Delivered
<1>9. /\ Delivered(pacc, more, t.n)
       /\ \/ more = del
          \/ \E i \in DOMAIN pacc :
               /\ \A j \in DOMAIN del : \E k \in 1..(i - 1) : del[j] = pacc[k]
               /\ more = Append(del, pacc[i])
  <2>1. CASE Received(f) = <<>>
    <3>1. more = del
      BY <1>8, <2>1 DEF more
    <3> QED
      BY <1>4, <1>8, <3>1, DeliveredOn
  <2>2. CASE t.n = y.n + 1 /\ Received(f) = <<pacc[t.n]>>
    <3>1. t.n \in DOMAIN pacc /\ t.n \in 1..t.n /\ t.n - 1 = y.n /\ pacc[t.n] \in Messages
      BY <1>4, <2>2
    <3>2. more = Append(del, pacc[t.n])
      BY <1>8, <2>2 DEF more
    <3>3. \A j \in DOMAIN del : \E k \in 1..(t.n - 1) : del[j] = pacc[k]
      BY <1>8, <3>1 DEF Delivered
    <3>4. Delivered(pacc, Append(del, pacc[t.n]), t.n)
      <4> DEFINE longer == Append(del, pacc[t.n])
      <4>1. /\ longer \in Seq(Messages) /\ Len(longer) = Len(del) + 1
            /\ Len(del) \in Nat /\ DOMAIN del = 1..Len(del) /\ DOMAIN longer = 1..Len(longer)
            /\ \A j \in 1..Len(del) : longer[j] = del[j]
            /\ longer[Len(del) + 1] = pacc[t.n]
        BY <1>8, <3>1, Appended
      <4>2. \A k \in 1..y.n : k \in 1..t.n
        BY <1>4
      <4> HIDE DEF longer
      <4>3. \A j \in DOMAIN longer : j \in DOMAIN del \/ j = Len(del) + 1
        BY <4>1
      <4>4. \A j \in DOMAIN longer : \E k \in 1..t.n : longer[j] = pacc[k]
        <5>1. \A j \in DOMAIN del : \E k \in 1..t.n : longer[j] = pacc[k]
          BY <3>1, <3>3, <4>1, <4>2
        <5>2. longer[Len(del) + 1] = pacc[t.n] /\ t.n \in 1..t.n
          BY <3>1, <4>1
        <5> QED
          BY <4>3, <5>1, <5>2
      <4> QED
        BY <4>1, <4>4 DEF Delivered, longer
    <3> QED
      BY <3>1, <3>2, <3>3, <3>4
  <2> QED
    BY <1>7, <2>1, <2>2
<1>10. Answers(pacc, awaits, rest, bus, input_flow', tx'["input"], t)
  BY <1>3, <1>5, <1>7 DEF Answers
<1>11. Keeps(pacc, awaits, rest, input_flow', tx'["input"], t)
  BY <1>3, <1>7 DEF Keeps
<1>12. LossyAt(pacc, pout, ptxo, rest, bus, input_flow', tx'["input"], more, t)
  BY <1>3, <1>7, <1>9, <1>10, <1>11 DEF LossyAt, awaits
<1>13. LossyAt(acc, output_flow', tx'["output"], bus, rest, pin, ptxi, pdel, x)
  <2>1. LossyAt(acc, output_flow, tx["output"], bus, rest, pin, ptxi, pdel, x)
    BY <1>1, LossyAnswerTaken DEF rest
  <2> QED
    BY <1>7, <2>1
<1> QED
  BY <1>7, <1>9, <1>12, <1>13 DEF LossyDirection, Furthers, f, rest, more

(* ... or flow control, which the receiver sent in step.                   *)
LEMMA LossyGo ==
  ASSUME Inv,
         NEW bus \in Seq(Frame), NEW obus \in Seq(Frame), obus # <<>>,
         ~IsData(Head(obus)), Unconfirmed \subseteq OnTheBus(bus),
         isotp_input(Head(obus)),
         NEW acc, NEW pin, NEW ptxi, NEW pdel,
         LossyDirection(acc, output_flow, tx["output"], bus, obus, pin, ptxi, pdel),
         NEW pacc, NEW pout, NEW ptxo, NEW del,
         LossyDirection(pacc, pout, ptxo, obus, bus, input_flow, tx["input"], del)
  PROVE  /\ LossyDirection(acc, output_flow', tx'["output"], bus, Tail(obus),
                           pin, ptxi, pdel)
         /\ LossyDirection(pacc, pout, ptxo, Tail(obus), bus, input_flow', tx'["input"],
                           del \o Received(Head(obus)))
         /\ UNCHANGED attached
         /\ Furthers(pacc, del, del \o Received(Head(obus)))
<1> DEFINE rest == Tail(obus)
           awaits == AwaitsFc(output_flow, tx["output"])
           s == SendPosition(acc, output_flow, tx["output"])
<1>1. PICK x : LossyAt(acc, output_flow, tx["output"], bus, obus, pin, ptxi, pdel, x)
  BY DEF LossyDirection
<1>2. PICK y : LossyAt(pacc, pout, ptxo, obus, bus, input_flow, tx["input"], del, y)
  BY DEF LossyDirection
<1>3. /\ HasFc(obus) /\ Head(obus) = Go /\ OneGo(rest) /\ ~HasFc(rest)
      /\ SenderOK(acc, output_flow, tx["output"])
  BY <1>1, GoTaken, TakenOff DEF LossyAt, Answers, Leads
<1>4. awaits /\ ~HasData(bus) /\ ~Asks(pin, ptxi) /\ InStep(acc, pin, ptxi, x)
  BY <1>1, <1>3 DEF LossyAt, Answers
<1>5. output_flow.state = "WAIT_FC"
  <2>1. tx["output"] = <<>>
    BY <1>3, <1>4, DataUnderWay
  <2> QED
    BY <1>4, <2>1 DEF AwaitsFc
<1>6. received_fc(Go)
  <2>1. Go.type = "FC" /\ isotp_input(Go)
    BY <1>3 DEF Go
  <2> QED
    BY <1>5, <2>1 DEF isotp_input, received_sf, received_ff, received_cf,
      received_last_cf, received_wrong_cf, isotp_input_dropped, CfMatches
<1>7. /\ SenderOK(acc, output_flow', tx'["output"])
      /\ SendPosition(acc, output_flow', tx'["output"]) = s
      /\ ~AwaitsFc(output_flow', tx'["output"])
      /\ UNCHANGED <<input_flow, tx, attached>>
  BY <1>3, <1>6, FcMoves
<1>8. del \o Received(Head(obus)) = del
  <2>1. del \in Seq(Messages)
    BY <1>2 DEF LossyAt, Delivered
  <2>2. Received(Go) = <<>>
    BY DEF Received, CfMatches, Go
  <2> QED
    BY <1>3, <2>1, <2>2
<1>9. LossyAt(pacc, pout, ptxo, rest, bus, input_flow, tx["input"], del, y)
  BY <1>2, LossyOtherTaken
<1> HIDE DEF s, rest
<1>10. Leads(acc, output_flow', tx'["output"], bus, x)
  <2>1. LastAsks(AwaitsFc(output_flow', tx'["output"]), bus)
    BY <1>4 DEF LastAsks, HasData
  <2>2. Place(acc, x) /\ Chain(acc, bus, x, s)
    BY <1>1 DEF LossyAt, Leads, s
  <2> QED
    BY <1>7, <2>1, <2>2 DEF Leads
<1>11. LossyAt(acc, output_flow', tx'["output"], bus, rest, pin, ptxi, pdel, x)
  BY <1>1, <1>3, <1>4, <1>10 DEF LossyAt, Answers, Keeps
<1> QED
  BY <1>7, <1>8, <1>9, <1>11 DEF LossyDirection, Furthers, rest

(* N_Bs and N_Cr expire in silence: the sender gives its message up, ...    *)
LEMMA LossySenderExpires ==
  ASSUME Inv, isotp_output_error_handler,
         NEW acc, NEW pin, NEW ptxi, NEW pdel, ~OwesFc(pin, ptxi),
         LossyDirection(acc, output_flow, tx["output"], <<>>, <<>>, pin, ptxi, pdel)
  PROVE  /\ LossyDirection(acc, output_flow', tx'["output"], <<>>, <<>>, pin, ptxi, pdel)
         /\ UNCHANGED <<input_flow, tx, attached>>
<1> DEFINE t == Start(Len(acc))
<1>1. PICK x : LossyAt(acc, output_flow, tx["output"], <<>>, <<>>, pin, ptxi, pdel, x)
  BY DEF LossyDirection
<1>2. /\ UNCHANGED <<input_flow, tx, attached>> /\ output_flow'.state = "IDLE"
  BY SenderTypes DEF isotp_output_error_handler, MessageLost, Inv, SenderInv, OutputFlow
<1>3. acc \in Seq(Messages) /\ Len(acc) \in Nat /\ x.n \in Nat /\ x.n <= Len(acc)
  BY <1>1 DEF LossyAt, Leads, SenderOK, Place
<1>4. t.n = Len(acc) /\ t.off = 0 /\ Place(acc, t)
  BY <1>3 DEF Start, Place
<1> HIDE DEF t
<1>5. Leads(acc, output_flow', tx'["output"], <<>>, t)
  <2>1. SenderOK(acc, output_flow', tx'["output"])
    BY <1>1, <1>2 DEF LossyAt, Leads, SenderOK
  <2>2. SendPosition(acc, output_flow', tx'["output"]) = t
    BY <1>2 DEF SendPosition, t
  <2>3. LastAsks(AwaitsFc(output_flow', tx'["output"]), <<>>)
    BY DEF LastAsks
  <2> QED
    BY <1>4, <2>1, <2>2, <2>3, ChainOfNothing DEF Leads
<1>6. Delivered(acc, pdel, t.n)
  BY <1>1, <1>3, <1>4, DeliveredOn DEF LossyAt
<1>7. /\ Answers(acc, AwaitsFc(output_flow', tx'["output"]), <<>>, <<>>, pin, ptxi, t)
      /\ Keeps(acc, AwaitsFc(output_flow', tx'["output"]), <<>>, pin, ptxi, t)
  BY <1>4 DEF Answers, Keeps, OneGo, HasFc, Asks
<1>8. LossyAt(acc, output_flow', tx'["output"], <<>>, <<>>, pin, ptxi, pdel, t)
  BY <1>1, <1>5, <1>6, <1>7 DEF LossyAt
<1> QED
  BY <1>2, <1>8 DEF LossyDirection

(* ... the receiver the reception, of which nothing more is to come.        *)
LEMMA LossyReceiverExpires ==
  ASSUME Inv, isotp_input_error_handler,
         NEW pacc, NEW pout, NEW ptxo, NEW del,
         pout.state \in {"IDLE", "WAIT_FC"},
         LossyDirection(pacc, pout, ptxo, <<>>, <<>>, input_flow, tx["input"], del)
  PROVE  /\ LossyDirection(pacc, pout, ptxo, <<>>, <<>>, input_flow', tx'["input"], del)
         /\ UNCHANGED <<output_flow, tx, attached>>
<1>1. PICK y : LossyAt(pacc, pout, ptxo, <<>>, <<>>, input_flow, tx["input"], del, y)
  BY DEF LossyDirection
<1>2. /\ UNCHANGED <<output_flow, tx, attached>> /\ input_flow'.state = "IDLE"
  BY ReceiverTypes DEF isotp_input_error_handler, ReceptionLost, Inv, ReceiverInv, InputFlow
<1>3. ~HasData(<<>>) /\ ~HasFc(<<>>) /\ <<>> \in Seq(Frame)
  BY DEF HasData, HasFc
<1>4. ~AwaitsFc(pout, ptxo) => y.off = 0
  <2>1. y = SendPosition(pacc, pout, ptxo)
    BY <1>1, <1>3, ChainWithoutData DEF LossyAt, Leads
  <2>2. ~AwaitsFc(pout, ptxo) => pout.state = "IDLE"
    BY DEF AwaitsFc
  <2> QED
    BY <2>1, <2>2 DEF SendPosition, Start
<1>5. Answers(pacc, AwaitsFc(pout, ptxo), <<>>, <<>>, input_flow', tx'["input"], y)
  BY <1>2, <1>3 DEF Answers, OneGo, Asks, OwesFc
<1>6. Keeps(pacc, AwaitsFc(pout, ptxo), <<>>, input_flow', tx'["input"], y)
  BY <1>3, <1>4 DEF Keeps
<1>7. Tells(input_flow', tx'["input"])
  BY <1>1, <1>2 DEF LossyAt, Tells, Stopping
<1>8. LossyAt(pacc, pout, ptxo, <<>>, <<>>, input_flow', tx'["input"], del, y)
  BY <1>1, <1>5, <1>6, <1>7 DEF LossyAt
<1> QED
  BY <1>2, <1>8 DEF LossyDirection

(* In the beginning nothing is sent and nothing received.                  *)
LEMMA LossyInit ==
  ASSUME NEW out, NEW txo, NEW in, NEW txi,
         out.state = "IDLE", txo = <<>>, in.state = "IDLE", txi = <<>>
  PROVE  LossyDirection(<<>>, out, txo, <<>>, <<>>, in, txi, <<>>)
<1> DEFINE x == Start(0)
<1>1. <<>> \in Seq(Messages) /\ Len(<<>>) = 0 /\ x.n = 0 /\ x.off = 0
        /\ \A i \in 1..Len(<<>>) : FALSE
  BY DEF Start
<1>2. Leads(<<>>, out, txo, <<>>, x)
  <2>1. SenderOK(<<>>, out, txo)
    BY DEF SenderOK
  <2>2. SendPosition(<<>>, out, txo) = x
    BY <1>1 DEF SendPosition
  <2>3. Place(<<>>, x)
    BY <1>1 DEF Place
  <2>4. LastAsks(AwaitsFc(out, txo), <<>>)
    BY DEF LastAsks
  <2> HIDE DEF x
  <2> QED
    BY <2>1, <2>2, <2>3, <2>4, ChainOfNothing DEF Leads
<1> HIDE DEF x
<1>3. Delivered(<<>>, <<>>, x.n)
  BY <1>1 DEF Delivered
<1>4. Tells(in, txi) /\ ~Asks(in, txi)
  BY DEF Tells, Stopping, Asks, OwesFc
<1>5. Answers(<<>>, AwaitsFc(out, txo), <<>>, <<>>, in, txi, x)
  BY <1>4 DEF Answers, OneGo, HasFc
<1>6. Keeps(<<>>, AwaitsFc(out, txo), <<>>, in, txi, x)
  BY <1>1 DEF Keeps
<1> QED
  BY <1>2, <1>3, <1>4, <1>5, <1>6 DEF LossyDirection, LossyAt
=============================================================================
