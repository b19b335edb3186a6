--------------------------- MODULE IsoTpReentrant ---------------------------
(***************************************************************************)
(* IsoTp with an error callback that sends the next message.  isotp_sent    *)
(* goes on after it reported an error, and its switch acts on the state the *)
(* callback left: it takes the new message's frame, which the driver never  *)
(* got, for confirmed.                                                     *)
(***************************************************************************)
EXTENDS IsoTp

(* isotp_sent(&pcb->output_flow, error) whose callback calls isotp_send(m). *)
isotp_sent_error_resend(m) ==
  /\ "output" \in FailingFlows
  /\ Confirm("output")
  /\ LET buffers == <<m>> \o HeadRemoved(output_flow.buffer)
         sending == Armed(timeouts, "isotp_out_flow_output") IN
     \/ /\ m.length <= SfData              \* on to sent_sf
        /\ output_flow' = [output_flow EXCEPT
             !.state = "IDLE", !.buffer = HeadRemoved(buffers),
             !.remaining_data = m.length]
        /\ timeouts' = sending
        /\ outcome' = "sent"
     \/ /\ m.length > SfData               \* on to sent_ff
        /\ output_flow' = [output_flow EXCEPT
             !.state = "WAIT_FC", !.buffer = buffers,
             !.remaining_data = m.length, !.cf_sn = 1, !.n_wft = ISOTP_N_WFT]
        /\ timeouts' = Armed(sending, "isotp_output_error_handler")
        /\ outcome' = "pending"
  /\ unacked' = m.length
  /\ UNCHANGED <<input_flow, held, attached>>

ReentrantNext == Next \/ \E m \in Outgoing : isotp_sent_error_resend(m)

ReentrantSpec == Init /\ [][ReentrantNext]_vars
=============================================================================
