----------------------------- MODULE IsoTpNode -----------------------------
(***************************************************************************)
(* An IsoTp connection seen from the bus and from its application: the      *)
(* frames a step hands to the driver, and the messages a frame completes.   *)
(***************************************************************************)
EXTENDS IsoTp

(* Frames the driver took and has not reported with isotp_sent.            *)
Unconfirmed == {tx["output"][i] : i \in DOMAIN tx["output"]}
                 \cup {tx["input"][i] : i \in DOMAIN tx["input"]}

(* The frame isotp_out_flow_output or isotp_in_flow_output has the driver   *)
(* take.                                                                   *)
Emitted ==
  LET taken(flow) == IF Len(tx'[flow]) > Len(tx[flow])
                     THEN <<tx'[flow][Len(tx'[flow])]>> ELSE <<>>
  IN taken("output") \o taken("input")

(* No message.                                                             *)
Garbled == [id |-> 0, length |-> 0]

(* The message a complete buffer holds: one of those sent, if every chunk   *)
(* is that message's and where it belongs.                                 *)
Reassembled(buffer) ==
  LET msg == buffer.payload[1].data.msg
      last == buffer.payload[Len(buffer.payload)]
  IN IF /\ \A i \in DOMAIN buffer.payload :
             /\ buffer.payload[i].data.msg = msg
             /\ buffer.payload[i].data.off = buffer.payload[i].at
             /\ buffer.payload[i].len > 0
        /\ Filled(buffer, msg.length)
        /\ last.at + last.len = buffer.length
     THEN msg
     ELSE Garbled

(* What the receive callback is given when isotp_input takes the frame.     *)
Received(frame) ==
  CASE frame.type = "SF" /\ input_flow.state = "IDLE" /\ FreeBuffers # {} ->
         <<Reassembled(NewBuffer(CHOOSE b \in FreeBuffers : TRUE, frame.dl,
                                 [at |-> 0, len |-> frame.dl, data |-> frame.data]))>>
    [] CfMatches(frame) /\ input_flow.remaining_data = StoredLength ->
         <<Reassembled(Head(Stored(frame.data)))>>
    [] OTHER -> <<>>

(* No timeout but N_Bs or N_Cr will do something.                          *)
OnlyErrorTimeouts ==
  /\ timeouts["isotp_out_flow_output"] = 0
  /\ timeouts["isotp_in_flow_output"] = 0
=============================================================================
