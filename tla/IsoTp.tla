------------------------------- MODULE IsoTp -------------------------------
(***************************************************************************)
(* One ISO-TP connection (struct isotp_pcb) of lwcan with ISOTP_CANFD = 0:  *)
(* the sender in output_flow, the receiver in input_flow, the timeouts the  *)
(* connection has pending and the frames the CAN driver has accepted from   *)
(* it.                                                                     *)
(*                                                                         *)
(* isotp_send, isotp_received, isotp_input, isotp_sent and the four timeout *)
(* handlers each run to completion, so each outcome of one is one action.   *)
(* Time is abstracted: a pending timeout may expire in any state.  Payload  *)
(* is abstracted to the message and the offset its first byte comes from.   *)
(* Calls that return an error and change nothing are stuttering steps.      *)
(***************************************************************************)
EXTENDS Integers, Sequences

CONSTANTS
  Messages,           \* what applications send: records [id, length]
  Outgoing,           \* those that the application on this side sends
  PeerFrames,         \* frames the peer may put on the bus
  BufferId,           \* receive buffers the heap has room for
  FailingFlows,       \* flows whose frames the driver may fail to transmit
  Holding,            \* whether the receive callback may keep a buffer
  Detachable,         \* whether canif_remove may be called
  ISOTP_RECEIVE_BS,   \* block size announced in flow control frames
  ISOTP_N_WFT,        \* FC.WAIT frames the sender puts up with
  LWCAN_TIMEOUTS_NUM  \* slots of the timeout pool this connection can use

(* What CAN_MAX_DLEN and the *_DATA_OFFSETs of isotp_private.h leave for    *)
(* payload in a single, first and consecutive frame.                       *)
SfData == 7
FfData == 6
CfData == 7
CF_SN_MASK  == 15
FF_DL_MAX   == 4095

Flow == {"output", "input"}

Handler == {"isotp_out_flow_output", "isotp_output_error_handler",
            "isotp_in_flow_output",  "isotp_input_error_handler"}

Transmitting == {"TX_SF", "TX_FF", "TX_CF"}
OutputState  == {"IDLE", "WAIT_FC"} \cup Transmitting
InputState   == {"IDLE", "TX_FC", "WAIT_CF"}
FlowStatus   == {"READY", "WAIT", "OVERFLOW"}

Byte         == 0..255
SerialNumber == 0..CF_SN_MASK
DataLength   == 0..FF_DL_MAX

(* The payload of a frame: bytes of message msg from byte off on; what is   *)
(* beyond the end of the message is padding.                               *)
Segment == [msg : Messages, off : Nat]

Frame ==
       [type : {"SF"}, dl : 1..SfData, data : Segment]
  \cup [type : {"FF"}, dl : (SfData + 1)..FF_DL_MAX, data : Segment]
  \cup [type : {"CF"}, sn : SerialNumber, data : Segment]
  \cup [type : {"FC"}, fs : FlowStatus, bs : Byte]

(* len bytes copied to offset at of a receive buffer.                      *)
Chunk == [at : Int, len : Nat, data : Segment]

Buffer == [id : BufferId, length : 1..FF_DL_MAX, payload : Seq(Chunk)]

OutputFlow == [state : OutputState, buffer : Seq(Outgoing),
               remaining_data : DataLength, cf_sn : SerialNumber,
               bs : Byte, n_wft : Byte]

InputFlow == [state : InputState, buffer : Seq(Buffer),
              remaining_data : DataLength, cf_sn : SerialNumber,
              fs : FlowStatus, bs : Byte]

(* A longer message would not fit the 12 bits of FF_DL: the sender does    *)
(* not check it, so it is a duty of the application.  Without two free     *)
(* timeout slots lwcan_timeout drops a timeout and the connection hangs.   *)
ASSUME IsoTpAssumption ==
  /\ Messages \subseteq [id : Nat, length : 1..FF_DL_MAX]
  /\ Outgoing \subseteq Messages
  /\ PeerFrames \subseteq Frame
  /\ FailingFlows \subseteq Flow
  /\ Holding \in BOOLEAN
  /\ Detachable \in BOOLEAN
  /\ ISOTP_RECEIVE_BS \in Byte
  /\ ISOTP_N_WFT \in Byte
  /\ LWCAN_TIMEOUTS_NUM \in Nat
  /\ LWCAN_TIMEOUTS_NUM >= 2

VARIABLES
  output_flow,  \* pcb->output_flow
  input_flow,   \* pcb->input_flow
  timeouts,     \* how many timeouts of each handler are pending
  tx,           \* per flow, the frames whose isotp_sent is outstanding
  held,         \* buffers the application got and has not given back
  attached,     \* whether canif_get_by_index(pcb->if_index) finds it
  outcome,      \* what the application was told of its latest message
  unacked       \* bytes of that message not yet confirmed by the driver

vars == <<output_flow, input_flow, timeouts, tx, held, attached, outcome,
          unacked>>

Init ==
  /\ output_flow = [state |-> "IDLE", buffer |-> <<>>, remaining_data |-> 0,
                    cf_sn |-> 0, bs |-> 0, n_wft |-> 0]
  /\ input_flow = [state |-> "IDLE", buffer |-> <<>>, remaining_data |-> 0,
                   cf_sn |-> 0, fs |-> "READY", bs |-> 0]
  /\ timeouts = [h \in Handler |-> 0]
  /\ tx = [f \in Flow |-> <<>>]
  /\ held = {}
  /\ attached = TRUE
  /\ outcome = "none"
  /\ unacked = 0
-----------------------------------------------------------------------------
(* Timeouts, buffers, counters.                                            *)

Pending(t) ==
  t["isotp_out_flow_output"] + t["isotp_output_error_handler"]
    + t["isotp_in_flow_output"] + t["isotp_input_error_handler"]

(* lwcan_timeout: silently dropped when the pool is empty.                 *)
Armed(t, h) ==
  IF Pending(t) < LWCAN_TIMEOUTS_NUM THEN [t EXCEPT ![h] = @ + 1] ELSE t

(* lwcan_untimeout, and the removal of a timeout that expires.             *)
Disarmed(t, h) == [t EXCEPT ![h] = IF @ > 0 THEN @ - 1 ELSE 0]

(* isotp_remove_buffer(flow, flow->buffer).                                *)
HeadRemoved(buffers) == IF buffers = <<>> THEN <<>> ELSE Tail(buffers)

(* isotp_remove_buffer of the i-th buffer of the list.                     *)
Unlinked(buffers, i) ==
  [j \in 1..(Len(buffers) - 1) |-> IF j < i THEN buffers[j] ELSE buffers[j + 1]]

Ids(buffers) == {buffers[i].id : i \in DOMAIN buffers}

(* Mutant: the wrap of the serial number is forgotten.                     *)
NextSnUnwrapped(sn) == sn + 1

NextSn(sn) == IF sn + 1 > CF_SN_MASK THEN 0 ELSE sn + 1

Int8(n) == ((n + 128) % 256) - 128

(* int8_t cf_left = bs - cf_sn; the block goes on while this holds.        *)
BlockGoesOn(bs, sn) == bs = 0 \/ Int8(bs - sn) > 0

Least(a, b) == IF a < b THEN a ELSE b

(* A callback about the latest message: pcb->sent or pcb->error.           *)
Report(verdict) ==
  outcome' = IF outcome = "pending" THEN verdict ELSE "reported twice"

(* The driver calls isotp_sent for the oldest frame it has of the flow.    *)
Confirm(flow) ==
  /\ tx[flow] # <<>>
  /\ tx' = [tx EXCEPT ![flow] = Tail(@)]
-----------------------------------------------------------------------------
(* The sender.                                                             *)

Message == Head(output_flow.buffer)

isotp_send(m) ==
  /\ output_flow.state = "IDLE"
  /\ LET long == m.length > SfData IN
     output_flow' = [output_flow EXCEPT
        !.state = IF long THEN "TX_FF" ELSE "TX_SF",
        !.buffer = <<m>> \o @,
        !.remaining_data = m.length,
        !.cf_sn = IF long THEN 1 ELSE @,
        !.n_wft = IF long THEN ISOTP_N_WFT ELSE @]
  /\ timeouts' = Armed(timeouts, "isotp_out_flow_output")
  /\ outcome' = "pending"
  /\ unacked' = m.length
  /\ UNCHANGED <<input_flow, tx, held, attached>>

(* The frame isotp_fill_sf, isotp_fill_ff or isotp_fill_cf builds.         *)
OutputFrame ==
  CASE output_flow.state = "TX_SF" ->
         [type |-> "SF", dl |-> output_flow.remaining_data,
          data |-> [msg |-> Message, off |-> 0]]
    [] output_flow.state = "TX_FF" ->
         [type |-> "FF", dl |-> output_flow.remaining_data % (FF_DL_MAX + 1),
          data |-> [msg |-> Message, off |-> 0]]
    [] output_flow.state = "TX_CF" ->
         [type |-> "CF", sn |-> output_flow.cf_sn,
          data |-> [msg |-> Message,
                    off |-> Message.length - output_flow.remaining_data]]

(* What they take from remaining_data.                                     *)
OutputTaken ==
  CASE output_flow.state = "TX_SF" -> output_flow.remaining_data
    [] output_flow.state = "TX_FF" -> FfData
    [] output_flow.state = "TX_CF" -> Least(CfData, output_flow.remaining_data)

(* The bytes of its message that a frame carries.                          *)
Carried(frame) ==
  CASE frame.type = "SF" -> frame.dl
    [] frame.type = "FF" -> FfData
    [] frame.type = "CF" -> Least(CfData, frame.data.msg.length - frame.data.off)
    [] frame.type = "FC" -> 0

(* canif->output takes the frame, or refuses it and the message is given    *)
(* up.  The timeout of a flow that is not transmitting, or whose interface  *)
(* is gone, expires without effect.                                        *)
output_accepted ==
  /\ tx' = [tx EXCEPT !["output"] = Append(@, OutputFrame)]
  /\ output_flow' = [output_flow EXCEPT !.remaining_data = @ - OutputTaken]
  /\ UNCHANGED <<input_flow, held, attached, outcome, unacked>>

output_refused ==
  /\ "output" \in FailingFlows
  /\ output_flow' = [output_flow EXCEPT
        !.state = "IDLE", !.buffer = HeadRemoved(@),
        !.remaining_data = @ - OutputTaken]
  /\ Report("error")
  /\ UNCHANGED <<input_flow, tx, held, attached, unacked>>

isotp_out_flow_output ==
  /\ timeouts["isotp_out_flow_output"] > 0
  /\ timeouts' = Disarmed(timeouts, "isotp_out_flow_output")
  /\ IF attached /\ output_flow.state \in Transmitting
     THEN output_accepted \/ output_refused
     ELSE UNCHANGED <<output_flow, input_flow, tx, held, attached, outcome,
                      unacked>>

(* isotp_sent(&pcb->output_flow, ERROR_OK), by the state it finds.         *)
Acked ==
  /\ Confirm("output")
  /\ unacked' = unacked - Carried(Head(tx["output"]))
  /\ UNCHANGED <<input_flow, held, attached>>

(* Mutant: the sender stays busy after its message was sent.               *)
MessageSentBusy ==
  /\ output_flow' = [output_flow EXCEPT !.buffer = HeadRemoved(@)]
  /\ Report("sent")
  /\ UNCHANGED timeouts

MessageSent ==
  /\ output_flow' = [output_flow EXCEPT !.state = "IDLE",
                                        !.buffer = HeadRemoved(@)]
  /\ Report("sent")
  /\ UNCHANGED timeouts

(* Mutant: N_Bs is not started.                                            *)
AwaitFlowControlForever == UNCHANGED <<timeouts, outcome>>

AwaitFlowControl ==
  /\ timeouts' = Armed(timeouts, "isotp_output_error_handler")
  /\ UNCHANGED outcome

sent_sf ==
  /\ output_flow.state = "TX_SF"
  /\ Acked
  /\ MessageSent

sent_ff ==
  /\ output_flow.state = "TX_FF"
  /\ Acked
  /\ output_flow' = [output_flow EXCEPT !.state = "WAIT_FC"]
  /\ AwaitFlowControl

(* Mutant: the message is done when one more frame would finish it.        *)
sent_last_cf_early ==
  /\ output_flow.state = "TX_CF"
  /\ output_flow.remaining_data <= CfData
  /\ Acked
  /\ MessageSent

sent_last_cf ==
  /\ output_flow.state = "TX_CF"
  /\ output_flow.remaining_data = 0
  /\ Acked
  /\ MessageSent

(* Mutant: the serial number moves on before the block is looked at.        *)
sent_cf_counted_first ==
  /\ output_flow.state = "TX_CF"
  /\ output_flow.remaining_data # 0
  /\ Acked
  /\ IF BlockGoesOn(output_flow.bs, NextSn(output_flow.cf_sn))
     THEN /\ output_flow' = [output_flow EXCEPT !.cf_sn = NextSn(@)]
          /\ timeouts' = Armed(timeouts, "isotp_out_flow_output")
          /\ UNCHANGED outcome
     ELSE /\ output_flow' = [output_flow EXCEPT !.cf_sn = NextSn(@),
                                                !.state = "WAIT_FC"]
          /\ AwaitFlowControl

sent_cf ==
  /\ output_flow.state = "TX_CF"
  /\ output_flow.remaining_data # 0
  /\ Acked
  /\ IF BlockGoesOn(output_flow.bs, output_flow.cf_sn)
     THEN /\ output_flow' = [output_flow EXCEPT !.cf_sn = NextSn(@)]
          /\ timeouts' = Armed(timeouts, "isotp_out_flow_output")
          /\ UNCHANGED outcome
     ELSE /\ output_flow' = [output_flow EXCEPT !.cf_sn = NextSn(@),
                                                !.state = "WAIT_FC"]
          /\ AwaitFlowControl

(* Mutants: the message is given up but its buffer kept, or the sender      *)
(* stays busy.                                                             *)
MessageLostLeaking ==
  /\ output_flow' = [output_flow EXCEPT !.state = "IDLE"]
  /\ Report("error")
  /\ UNCHANGED <<input_flow, held, attached, unacked>>

MessageLostBusy ==
  /\ output_flow' = [output_flow EXCEPT !.buffer = HeadRemoved(@)]
  /\ Report("error")
  /\ UNCHANGED <<input_flow, held, attached, unacked>>

(* The message is given up and the application told.                       *)
MessageLost ==
  /\ output_flow' = [output_flow EXCEPT !.state = "IDLE",
                                        !.buffer = HeadRemoved(@)]
  /\ Report("error")
  /\ UNCHANGED <<input_flow, held, attached, unacked>>

(* isotp_sent(&pcb->output_flow, error): the driver gave the frame up.     *)
isotp_sent_error_output ==
  /\ "output" \in FailingFlows
  /\ Confirm("output")
  /\ MessageLost
  /\ UNCHANGED timeouts

(* N_Bs expires without a flow control frame.                              *)
isotp_output_error_handler ==
  /\ timeouts["isotp_output_error_handler"] > 0
  /\ timeouts' = Disarmed(timeouts, "isotp_output_error_handler")
  /\ MessageLost
  /\ UNCHANGED tx

received_fc(frame) ==
  /\ output_flow.state = "WAIT_FC"
  /\ frame.type = "FC"
  /\ LET quiet == Disarmed(timeouts, "isotp_output_error_handler") IN
     \/ /\ frame.fs = "WAIT"
        /\ output_flow.n_wft # 0
        /\ output_flow' = [output_flow EXCEPT !.n_wft = @ - 1]
        /\ timeouts' = Armed(quiet, "isotp_output_error_handler")
        /\ UNCHANGED <<input_flow, held, attached, outcome, unacked>>
     \/ /\ frame.fs = "OVERFLOW" \/ (frame.fs = "WAIT" /\ output_flow.n_wft = 0)
        /\ timeouts' = quiet
        /\ MessageLost
     \/ /\ frame.fs = "READY"
        /\ output_flow' = [output_flow EXCEPT !.state = "TX_CF",
                                              !.bs = frame.bs]
        /\ timeouts' = Armed(quiet, "isotp_out_flow_output")
        /\ UNCHANGED <<input_flow, held, attached, outcome, unacked>>
  /\ UNCHANGED tx
-----------------------------------------------------------------------------
(* The receiver.                                                           *)

FreeBuffers == BufferId \ Ids(input_flow.buffer)

NewBuffer(b, length, chunk) ==
  [id |-> b, length |-> length, payload |-> <<chunk>>]

(* pcb->receive is called with the head of the list buffers; flow is the    *)
(* rest of input_flow.  The application gives the buffer back at once, as   *)
(* the stack does without a callback, or calls isotp_received later.       *)
Deliver(flow, buffers) ==
  \/ /\ Holding
     /\ input_flow' = [flow EXCEPT !.buffer = buffers]
     /\ held' = held \cup {Head(buffers).id}
  \/ /\ input_flow' = [flow EXCEPT !.buffer = HeadRemoved(buffers)]
     /\ UNCHANGED held

received_sf(frame) ==
  /\ input_flow.state = "IDLE"
  /\ frame.type = "SF"
  /\ \E b \in FreeBuffers :
       Deliver([input_flow EXCEPT !.remaining_data = frame.dl],
               <<NewBuffer(b, frame.dl,
                           [at |-> 0, len |-> frame.dl, data |-> frame.data])>>
                 \o input_flow.buffer)
  /\ UNCHANGED <<output_flow, timeouts, tx, attached, outcome, unacked>>

(* Without memory no buffer joins the list and the answer is an overflow.  *)
received_ff(frame) ==
  /\ input_flow.state = "IDLE"
  /\ frame.type = "FF"
  /\ IF FreeBuffers = {}
     THEN input_flow' = [input_flow EXCEPT
            !.fs = "OVERFLOW", !.bs = ISOTP_RECEIVE_BS, !.state = "TX_FC"]
     ELSE \E b \in FreeBuffers :
            input_flow' =
              [state |-> "TX_FC",
               buffer |-> <<NewBuffer(b, frame.dl,
                              [at |-> 0, len |-> FfData, data |-> frame.data])>>
                            \o input_flow.buffer,
               remaining_data |-> frame.dl - FfData,
               cf_sn |-> 1, fs |-> "READY", bs |-> ISOTP_RECEIVE_BS]
  /\ timeouts' = Armed(timeouts, "isotp_in_flow_output")
  /\ UNCHANGED <<output_flow, tx, held, attached, outcome, unacked>>

(* store_cf_data: what the frame brings of the bytes still missing goes     *)
(* where the bytes already received end.                                   *)
StoredLength == Least(CfData, input_flow.remaining_data)

(* Mutants: every frame is taken to carry as much as a consecutive one, or  *)
(* the frame goes to the oldest buffer of the list.                        *)
StoredByCount(data) ==
  LET buffer == Head(input_flow.buffer)
      chunk  == [at |-> CfData * Len(buffer.payload), len |-> StoredLength, data |-> data]
  IN <<[buffer EXCEPT !.payload = Append(@, chunk)]>> \o Tail(input_flow.buffer)

StoredInOldest(data) ==
  LET buffers == input_flow.buffer
      chunk   == [at |-> buffers[Len(buffers)].length - input_flow.remaining_data,
                  len |-> StoredLength, data |-> data]
  IN [buffers EXCEPT ![Len(buffers)].payload = Append(@, chunk)]

Stored(data) ==
  LET buffer == Head(input_flow.buffer)
      chunk  == [at |-> buffer.length - input_flow.remaining_data,
                 len |-> StoredLength, data |-> data]
  IN <<[buffer EXCEPT !.payload = Append(@, chunk)]>> \o Tail(input_flow.buffer)

CfMatches(frame) ==
  /\ input_flow.state = "WAIT_CF"
  /\ frame.type = "CF"
  /\ input_flow.cf_sn = frame.sn

(* Mutant: N_Cr runs on when a consecutive frame comes.                     *)
QuietNever == timeouts

Quiet == Disarmed(timeouts, "isotp_input_error_handler")

(* A frame out of sequence: the buffer is freed and the sender told to stop. *)
received_wrong_cf(frame) ==
  /\ input_flow.state = "WAIT_CF"
  /\ frame.type = "CF"
  /\ input_flow.cf_sn # frame.sn
  /\ input_flow' = [input_flow EXCEPT !.state = "TX_FC", !.fs = "OVERFLOW",
                                      !.buffer = HeadRemoved(@)]
  /\ timeouts' = Armed(Quiet, "isotp_in_flow_output")
  /\ UNCHANGED <<output_flow, tx, held, attached, outcome, unacked>>

received_last_cf(frame) ==
  /\ CfMatches(frame)
  /\ input_flow.remaining_data = StoredLength
  /\ Deliver([input_flow EXCEPT !.state = "IDLE", !.remaining_data = 0],
             Stored(frame.data))
  /\ timeouts' = Quiet
  /\ UNCHANGED <<output_flow, tx, attached, outcome, unacked>>

received_cf(frame) ==
  /\ CfMatches(frame)
  /\ input_flow.remaining_data # StoredLength
  /\ LET goesOn == BlockGoesOn(input_flow.bs, input_flow.cf_sn) IN
     /\ input_flow' = [input_flow EXCEPT
          !.buffer = Stored(frame.data),
          !.remaining_data = @ - StoredLength,
          !.cf_sn = NextSn(@),
          !.fs = IF goesOn THEN @ ELSE "READY",
          !.state = IF goesOn THEN "WAIT_CF" ELSE "TX_FC"]
     /\ timeouts' = Armed(Quiet, IF goesOn THEN "isotp_input_error_handler"
                                           ELSE "isotp_in_flow_output")
  /\ UNCHANGED <<output_flow, tx, held, attached, outcome, unacked>>

(* The flow control frame isotp_fill_fc builds; it is accepted or refused   *)
(* like the frames of the sender.                                          *)
FlowControl == [type |-> "FC", fs |-> input_flow.fs, bs |-> input_flow.bs]

(* Mutants: the reception is given up but the receiver stays busy, or its   *)
(* buffer is kept, or nothing is done.                                     *)
ReceptionKept == UNCHANGED <<output_flow, input_flow, held, attached, outcome, unacked>>

ReceptionLostBusy ==
  /\ input_flow' = [input_flow EXCEPT !.buffer = HeadRemoved(@)]
  /\ UNCHANGED <<output_flow, held, attached, outcome, unacked>>

ReceptionLostLeaking ==
  /\ input_flow' = [input_flow EXCEPT !.state = "IDLE"]
  /\ UNCHANGED <<output_flow, held, attached, outcome, unacked>>

ReceptionLost ==
  /\ input_flow' = [input_flow EXCEPT !.state = "IDLE",
                                      !.buffer = HeadRemoved(@)]
  /\ UNCHANGED <<output_flow, held, attached, outcome, unacked>>

flow_control_accepted ==
  /\ tx' = [tx EXCEPT !["input"] = Append(@, FlowControl)]
  /\ UNCHANGED <<output_flow, input_flow, held, attached, outcome, unacked>>

flow_control_refused ==
  /\ "input" \in FailingFlows
  /\ ReceptionLost
  /\ UNCHANGED tx

isotp_in_flow_output ==
  /\ timeouts["isotp_in_flow_output"] > 0
  /\ timeouts' = Disarmed(timeouts, "isotp_in_flow_output")
  /\ IF attached /\ input_flow.state = "TX_FC"
     THEN flow_control_accepted \/ flow_control_refused
     ELSE UNCHANGED <<output_flow, input_flow, tx, held, attached, outcome,
                      unacked>>

(* isotp_sent(&pcb->input_flow, ERROR_OK).                                 *)
sent_fc ==
  /\ input_flow.state = "TX_FC"
  /\ Confirm("input")
  /\ IF input_flow.fs # "READY"
     THEN /\ input_flow' = [input_flow EXCEPT !.state = "IDLE"]
          /\ UNCHANGED timeouts
     ELSE /\ input_flow' = [input_flow EXCEPT !.state = "WAIT_CF"]
          /\ timeouts' = Armed(timeouts, "isotp_input_error_handler")
  /\ UNCHANGED <<output_flow, held, attached, outcome, unacked>>

(* isotp_sent(&pcb->input_flow, error).                                    *)
isotp_sent_error_input ==
  /\ "input" \in FailingFlows
  /\ Confirm("input")
  /\ ReceptionLost
  /\ UNCHANGED timeouts

(* N_Cr expires without a consecutive frame.                               *)
isotp_input_error_handler ==
  /\ timeouts["isotp_input_error_handler"] > 0
  /\ timeouts' = Disarmed(timeouts, "isotp_input_error_handler")
  /\ ReceptionLost
  /\ UNCHANGED tx

(* The application gives a buffer back; one that is no longer in the list   *)
(* is not found.                                                           *)
isotp_received(b) ==
  /\ b \in held
  /\ held' = held \ {b}
  /\ input_flow' = [input_flow EXCEPT !.buffer =
       IF b \in Ids(@)
       THEN Unlinked(@, CHOOSE i \in DOMAIN @ : @[i].id = b)
       ELSE @]
  /\ UNCHANGED <<output_flow, timeouts, tx, attached, outcome, unacked>>
-----------------------------------------------------------------------------
(* The interface the connection is bound to is removed.                    *)
canif_remove ==
  /\ Detachable
  /\ attached
  /\ attached' = FALSE
  /\ UNCHANGED <<output_flow, input_flow, timeouts, tx, held, outcome, unacked>>

Application ==
  \/ \E m \in Outgoing : isotp_send(m)
  \/ \E b \in BufferId : isotp_received(b)
  \/ canif_remove

(* A frame the connection does not wait for is dropped, and so is a single  *)
(* frame there is no memory for.                                           *)
isotp_input_dropped(frame) ==
  /\ \/ frame.type \in {"SF", "FF"} /\ input_flow.state # "IDLE"
     \/ frame.type = "SF" /\ FreeBuffers = {}
     \/ frame.type = "CF" /\ input_flow.state # "WAIT_CF"
     \/ frame.type = "FC" /\ output_flow.state # "WAIT_FC"
  /\ UNCHANGED vars

isotp_input(frame) ==
  \/ received_sf(frame)
  \/ received_ff(frame)
  \/ received_cf(frame)
  \/ received_last_cf(frame)
  \/ received_wrong_cf(frame)
  \/ received_fc(frame)
  \/ isotp_input_dropped(frame)

lwcan_timeouts_handler ==
  \/ isotp_out_flow_output
  \/ isotp_output_error_handler
  \/ isotp_in_flow_output
  \/ isotp_input_error_handler

isotp_sent ==
  \/ sent_sf
  \/ sent_ff
  \/ sent_cf
  \/ sent_last_cf
  \/ sent_fc
  \/ isotp_sent_error_output
  \/ isotp_sent_error_input

Next ==
  \/ Application
  \/ \E frame \in PeerFrames : isotp_input(frame)
  \/ lwcan_timeouts_handler
  \/ isotp_sent

Spec == Init /\ [][Next]_vars

(* The main loop calls lwcan_timeouts_handler for ever, so every pending    *)
(* timeout expires; the driver calls isotp_sent for every frame it took.    *)
Fairness ==
  /\ WF_vars(isotp_out_flow_output)
  /\ WF_vars(isotp_output_error_handler)
  /\ WF_vars(isotp_in_flow_output)
  /\ WF_vars(isotp_input_error_handler)
  /\ WF_vars(isotp_sent /\ tx'["output"] # tx["output"])
  /\ WF_vars(isotp_sent /\ tx'["input"] # tx["input"])

FairSpec == Spec /\ Fairness
-----------------------------------------------------------------------------
(* What the connection must never get wrong.                               *)

(* Every variable has its type; the type of a frame is what the layout of   *)
(* isotp_private.h can express, so no field of a built frame is out of its  *)
(* bits: sn stays below 16, dl of a first frame above 7.                    *)
TypeOK ==
  /\ output_flow \in OutputFlow
  /\ input_flow \in InputFlow
  /\ timeouts \in [Handler -> Nat]
  /\ tx \in [Flow -> Seq(Frame)]
  /\ held \subseteq BufferId
  /\ attached \in BOOLEAN
  /\ outcome \in {"none", "pending", "sent", "error", "reported twice"}
  /\ unacked \in DataLength

(* The state of the sender tells what drives it: exactly one output timeout *)
(* or frame in the driver while it transmits, exactly one N_Bs timeout      *)
(* while it waits, nothing and no buffer when idle.  So isotp_sent and the  *)
(* timeouts always find the state they were meant for, and nothing a        *)
(* finished message left behind can reach the next one.  Only a removed     *)
(* interface leaves a transmitting flow with nothing to drive it.           *)
Driven(n, transmitting) ==
  /\ n <= (IF transmitting THEN 1 ELSE 0)
  /\ transmitting /\ attached => n = 1

OutputDriven ==
  /\ Driven(timeouts["isotp_out_flow_output"] + Len(tx["output"]),
            output_flow.state \in Transmitting)
  /\ timeouts["isotp_output_error_handler"]
       = (IF output_flow.state = "WAIT_FC" THEN 1 ELSE 0)
  /\ Len(output_flow.buffer) = (IF output_flow.state = "IDLE" THEN 0 ELSE 1)

(* The same of the receiver: exactly one timeout or flow control frame in   *)
(* the driver while TX_FC, exactly one N_Cr timeout while WAIT_CF.         *)
InputDriven ==
  /\ Driven(timeouts["isotp_in_flow_output"] + Len(tx["input"]),
            input_flow.state = "TX_FC")
  /\ timeouts["isotp_input_error_handler"]
       = (IF input_flow.state = "WAIT_CF" THEN 1 ELSE 0)

(* One connection never has more than two timeouts pending, so with two     *)
(* slots for it lwcan_timeout never drops one.                              *)
TimersFit == Pending(timeouts) <= 2

(* The application is told of each message once, by sent or by error, and   *)
(* the sender is idle exactly when nothing is left to tell.                 *)
ReportedOnce ==
  /\ outcome # "reported twice"
  /\ outcome = "pending" <=> output_flow.state # "IDLE"

(* sent is called only when the driver confirmed every byte of the message, *)
(* error only when some are missing.                                       *)
SentMeansTransmitted ==
  /\ outcome = "sent" => unacked = 0
  /\ outcome = "error" => unacked > 0

(* options.h: a block is bs consecutive frames, then the sender waits for    *)
(* flow control.  Stated for a peer whose flow control always says the same *)
(* bs, so that every block ends at a multiple of it.                       *)
ConsecutiveSent ==
  (Message.length - FfData - output_flow.remaining_data + CfData - 1) \div CfData

BlockSizeKept ==
  [][output_flow.state = "TX_CF" /\ output_flow'.state = "WAIT_FC"
       => ConsecutiveSent % output_flow.bs = 0]_vars

(* While the message of the head buffer comes in the buffer is the stack's. *)
Receiving ==
  \/ input_flow.state = "WAIT_CF"
  \/ input_flow.state = "TX_FC" /\ input_flow.fs = "READY"

(* Every buffer in the list belongs to the application or to the reception  *)
(* in progress: none leaks, and none the application holds was freed.       *)
BuffersOwned ==
  held = IF Receiving THEN Ids(HeadRemoved(input_flow.buffer))
                      ELSE Ids(input_flow.buffer)

Filled(buffer, n) ==
  /\ \A i \in DOMAIN buffer.payload :
       buffer.payload[i].at
         = IF i = 1 THEN 0
           ELSE buffer.payload[i - 1].at + buffer.payload[i - 1].len
  /\ LET last == buffer.payload[Len(buffer.payload)] IN last.at + last.len = n

(* A buffer the application holds was filled from its first byte to its     *)
(* last without a gap or an overlap.                                       *)
HeldComplete ==
  \A i \in DOMAIN input_flow.buffer :
    LET buffer == input_flow.buffer[i] IN
    buffer.id \in held => Filled(buffer, buffer.length)

(* Nothing is written to a buffer between its delivery and isotp_received.  *)
HeldStable ==
  [][\A i \in DOMAIN input_flow.buffer :
       LET buffer == input_flow.buffer[i] IN
       buffer.id \in held \cap held'
         => \E j \in DOMAIN input_flow'.buffer : input_flow'.buffer[j] = buffer]_vars

(* LWCAN_ASSERT("buffer != NULL") of isotp_remove_buffer, where a flow       *)
(* control frame the driver refuses has the head of the list freed.        *)
RefusalFreesABuffer ==
  [][input_flow.state = "TX_FC" /\ flow_control_refused
       => input_flow.buffer # <<>>]_vars

(* A message is always disposed of, whatever the peer and the driver do:    *)
(* while the interface stays the sender cannot hang and answer              *)
(* ERROR_INPROGRESS for ever.                                              *)
OutputReturns ==
  output_flow.state # "IDLE" ~> output_flow.state = "IDLE" \/ ~attached

(* A reception always ends.                                                *)
InputReturns ==
  input_flow.state # "IDLE" ~> input_flow.state = "IDLE" \/ ~attached
=============================================================================
