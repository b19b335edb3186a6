----------------------------- MODULE UdsClient -----------------------------
(***************************************************************************)
(* The UDS client (apps/uds/uds_client.c) over its ISO-TP connection: what  *)
(* the application asks of it, its four timeouts and the four callbacks the *)
(* connection calls it with.                                               *)
(*                                                                         *)
(* Of the connection the client sees whether a message is being sent and    *)
(* whether a segmented one is coming in (IsoTp models the rest).  Time is   *)
(* abstracted: a pending timeout may expire in any state.  The session      *)
(* context is taken to be set from initialisation on, and the application   *)
(* not to call the client from within its callbacks, where                  *)
(* uds_client_connect and uds_send_request are refused unless               *)
(* uds_client_disconnect came first.                                       *)
(***************************************************************************)
EXTENDS Integers

CONSTANTS
  UDS_CONNECT_RETRY_NUM,  \* attempts to connect
  UDS_KEEP_SESSION,       \* whether S3 sends a tester present request
  Chunks,                 \* those of the pool of timeouts (LWCAN_TIMEOUTS_NUM)
                          \* that nobody else takes
  Disturbances            \* what the client has to put up with

Timer    == {"connect_try", "p2", "p2_star", "s3"}
UdsState == {"IDLE", "CONNECTING", "SENDING_REQUEST", "WAIT_RESPONSE",
             "WAIT_SEGMENTED_RESPONSE", "RESPONSE_PENDING"}
Response == {"positive", "negative", "pending"}
Uint8    == 0..255

(* isotp_send finds no memory; the connection finds none for a response;     *)
(* responses come that are not awaited; the application connects when       *)
(* connected.                                                              *)
Disturbance == {"memory short", "no room", "unexpected response",
                "connect again"}

(* A request the application or S3 has under way.                          *)
Requesting == {"SENDING_REQUEST", "WAIT_RESPONSE", "WAIT_SEGMENTED_RESPONSE",
               "RESPONSE_PENDING"}

ASSUME UdsAssumption ==
  /\ UDS_CONNECT_RETRY_NUM \in Uint8
  /\ UDS_CONNECT_RETRY_NUM > 0
  /\ UDS_KEEP_SESSION \in BOOLEAN
  /\ Chunks \in Nat
  /\ Chunks >= 2
  /\ Disturbances \subseteq Disturbance

VARIABLES
  initialized, \* uds_state.isotp_pcb is not NULL
  uds,         \* uds_state: state, is_connected, connect_try_num,
               \* with_response, and whether connect_cb is set
  timers,      \* how many timeouts of each handler are pending
  dropped,     \* the latest one started for the state found no chunk
  sending,     \* the connection is sending a message
  receiving,   \* a segmented message is coming in
  connection,  \* what the application was told of its latest connect
  request,     \* what it was told of the latest request
  asked,       \* the server has yet to answer the latest attempt to connect
  leftover,    \* which of "sending" and "receiving" the client is idle of;
               \* "overflow" when the response is being refused
  confused,    \* it took for the answer what was none, or goes on to connect
               \* with P2 running
  session      \* "kept" from the first request on, "lapsed" when S3 was not
               \* started again

told == <<connection, request>>
timeouts == <<timers, dropped>>
vars == <<initialized, uds, timeouts, sending, receiving, told, asked,
          leftover, confused, session>>

UdsRecord == [state : UdsState, is_connected : BOOLEAN,
              connect_try_num : Uint8, with_response : BOOLEAN,
              connect_cb : BOOLEAN]

Cleared == [state |-> "IDLE", is_connected |-> FALSE, connect_try_num |-> 0,
            with_response |-> FALSE, connect_cb |-> FALSE]

Init ==
  /\ initialized = FALSE
  /\ uds = Cleared
  /\ timers = [t \in Timer |-> 0]
  /\ dropped = FALSE
  /\ sending = FALSE
  /\ receiving = FALSE
  /\ connection = "none"
  /\ request = "none"
  /\ asked = FALSE
  /\ leftover = {}
  /\ confused = FALSE
  /\ session = "none"
-----------------------------------------------------------------------------
(* Mutant: a timeout is not started.                                       *)
StartedNever(ts, t) == ts

Pending(ts) == ts["connect_try"] + ts["p2"] + ts["p2_star"] + ts["s3"]
Exhausted(ts) == Pending(ts) >= Chunks

(* Mutant: nobody looks whether there is a chunk.                          *)
StartedAnyway(ts, t) == [ts EXCEPT ![t] = @ + 1]

Started(ts, t) == IF Exhausted(ts) THEN ts ELSE [ts EXCEPT ![t] = @ + 1]
Stopped(ts, t) == [ts EXCEPT ![t] = IF @ > 0 THEN @ - 1 ELSE 0]

(* Mutant: the answer does not stop it.                                    *)
AnswerTimerRunsOn == timers

SessionTimerRestarted(ts) == Started(Stopped(ts, "s3"), "s3")

(* The timeout, if any, that a callback of the connection stops.            *)
AnswerTimerStopped ==
  CASE uds.state = "WAIT_RESPONSE"    -> Stopped(timers, "p2")
    [] uds.state = "RESPONSE_PENDING" -> Stopped(timers, "p2_star")
    [] OTHER                          -> timers

(* uds_state.connect_cb is called; after uds_client_deinit it is NULL.      *)
ConnectReport(verdict) ==
  connection' = CASE ~uds.connect_cb         -> "no callback"
                  [] connection = "pending"  -> verdict
                  [] OTHER                   -> "reported twice"

(* A callback of the context, if there is one, is called about the request. *)
Report(verdict) ==
  request' = CASE ~initialized -> request
               [] request = "open" \/ (request = "silent" /\ verdict = "error")
                               -> verdict
               [] OTHER        -> "reported twice"

Idle == [uds EXCEPT !.state = "IDLE"]

CanSend == ~sending
SendFails == sending \/ "memory short" \in Disturbances

(* Mutant: connect_try never gives up.                                      *)
AttemptsNeverUsedUp(u) == FALSE

AttemptsUsedUp(u) == ~u.is_connected /\ u.connect_try_num = 0

(* connect_try, called with the client's state u: the attempts are used up, *)
(* or a tester present request is sent, or isotp_send refuses it.           *)
ConnectTry(u) ==
  \/ /\ AttemptsUsedUp(u)
     /\ uds' = [u EXCEPT !.state = "IDLE"]
     /\ ConnectReport("failed")
     /\ UNCHANGED sending
  \/ /\ ~AttemptsUsedUp(u)
     /\ LET tried == [u EXCEPT !.connect_try_num = (@ - 1) % 256] IN
        \/ /\ CanSend
           /\ uds' = tried
           /\ sending' = TRUE
           /\ UNCHANGED connection
        \/ /\ SendFails
           /\ uds' = [tried EXCEPT !.state = "IDLE"]
           /\ ConnectReport("failed")
           /\ UNCHANGED sending

(* uds_send_request when connected and idle; its result goes to the caller.  *)
RequestTaken(with_response) ==
  /\ CanSend
  /\ sending' = TRUE
  /\ request' = IF with_response THEN "open" ELSE "silent"

RequestRefused == SendFails /\ UNCHANGED <<sending, request>>

Requested(with_response) ==
  /\ uds' = [uds EXCEPT !.with_response = with_response, !.state = "SENDING_REQUEST"]
  /\ dropped' = FALSE
-----------------------------------------------------------------------------
(* The application.                                                        *)

uds_client_init ==
  /\ ~initialized
  /\ initialized' = TRUE
  /\ uds' = Cleared
  /\ UNCHANGED <<timeouts, sending, receiving, told, asked, leftover, confused,
                 session>>

(* isotp_remove does not look whether the connection has something under    *)
(* way: that it has not is the duty of the application, which IdleIsQuiet   *)
(* says is done unless it disconnected in the middle of a message.         *)
uds_client_deinit ==
  /\ initialized
  /\ uds.state = "IDLE"
  /\ ~sending /\ ~receiving
  /\ initialized' = FALSE
  /\ timers' = IF uds.is_connected THEN Stopped(timers, "s3") ELSE timers
  /\ uds' = Cleared
  /\ session' = "none"
  /\ UNCHANGED <<dropped, sending, receiving, told, asked, leftover, confused>>

uds_client_connect ==
  /\ initialized
  /\ uds.state = "IDLE"
  /\ ~uds.is_connected \/ "connect again" \in Disturbances
  /\ LET tried == [uds EXCEPT !.connect_try_num = UDS_CONNECT_RETRY_NUM - 1,
                              !.connect_cb = TRUE] IN
     \/ /\ CanSend
        /\ uds' = [tried EXCEPT !.state = "CONNECTING"]
        /\ sending' = TRUE
        /\ connection' = "pending"
     \/ /\ SendFails
        /\ uds' = tried
        /\ connection' = "failed"
        /\ UNCHANGED sending
  /\ dropped' = FALSE
  /\ UNCHANGED <<initialized, timers, receiving, request, asked, leftover, confused,
                 session>>

uds_client_disconnect ==
  /\ uds.is_connected
  /\ uds' = [uds EXCEPT !.state = "IDLE", !.is_connected = FALSE]
  /\ timers' = Stopped(Stopped(Stopped(timers, "p2"), "p2_star"), "s3")
  /\ connection' = IF connection = "pending" THEN "disconnected" ELSE connection
  /\ request' = IF request \in {"open", "silent"} THEN "disconnected" ELSE request
  /\ leftover' = (leftover \cap {"overflow"})
                  \cup {m \in {"sending", "receiving"} :
                          IF m = "sending" THEN sending ELSE receiving}
  /\ session' = "none"
  /\ UNCHANGED <<initialized, dropped, sending, receiving, asked, confused>>

uds_send_request(with_response) ==
  /\ uds.is_connected
  /\ uds.state = "IDLE"
  /\ Requested(with_response)
  /\ RequestTaken(with_response) \/ RequestRefused
  /\ UNCHANGED <<initialized, timers, receiving, connection, asked, leftover, confused,
                 session>>

(* The timeouts.                                                           *)
connect_try ==
  /\ timers["connect_try"] > 0
  /\ timers' = Stopped(timers, "connect_try")
  /\ ConnectTry(uds)
  /\ UNCHANGED <<initialized, dropped, receiving, request, asked, leftover, confused,
                 session>>

s3_timer_handler ==
  /\ timers["s3"] > 0
  /\ timers' = Stopped(timers, "s3")
  /\ \/ /\ UDS_KEEP_SESSION
        /\ uds.is_connected /\ uds.state = "IDLE"
        /\ Requested(FALSE)
        /\ \/ RequestTaken(FALSE) /\ UNCHANGED session
           \/ RequestRefused /\ session' = "lapsed"
     \/ /\ UDS_KEEP_SESSION
        /\ ~uds.is_connected \/ uds.state # "IDLE"
        /\ session' = IF uds.state = "SENDING_REQUEST" /\ sending THEN session
                      ELSE "lapsed"
        /\ UNCHANGED <<uds, dropped, sending, request>>
     \/ /\ ~UDS_KEEP_SESSION
        /\ uds' = [uds EXCEPT !.is_connected = FALSE]
        /\ session' = "none"
        /\ UNCHANGED <<dropped, sending, request>>
  /\ UNCHANGED <<initialized, receiving, connection, asked, leftover, confused>>

p2_timer_handler ==
  /\ timers["p2"] > 0
  /\ LET quiet == Stopped(timers, "p2") IN
     \/ /\ uds.state = "CONNECTING"
        /\ timers' = Started(quiet, "connect_try")
        /\ UNCHANGED <<uds, request>>
     \/ /\ uds.state # "CONNECTING"
        /\ timers' = quiet
        /\ uds' = Idle
        /\ Report("error")
  /\ asked' = FALSE
  /\ UNCHANGED <<initialized, dropped, sending, receiving, connection, leftover, confused,
                 session>>

p2_star_timer_handler ==
  /\ timers["p2_star"] > 0
  /\ timers' = Stopped(timers, "p2_star")
  /\ uds' = Idle
  /\ Report("error")
  /\ UNCHANGED <<initialized, dropped, sending, receiving, connection, asked, leftover,
                 confused, session>>
-----------------------------------------------------------------------------
(* The callbacks of the connection.                                        *)

uds_sent ==
  /\ sending
  /\ sending' = FALSE
  /\ asked' = (uds.state = "CONNECTING")
  /\ leftover' = leftover \ {"sending"}
  /\ \/ /\ uds.state = "CONNECTING"
        /\ timers' = Started(timers, "p2")
        /\ dropped' = Exhausted(timers)
        /\ UNCHANGED <<uds, request, session>>
     \/ /\ uds.state = "SENDING_REQUEST"
        /\ session' = "kept"
        /\ \/ /\ uds.with_response
              /\ uds' = [uds EXCEPT !.state = "WAIT_RESPONSE"]
              /\ timers' = SessionTimerRestarted(Started(timers, "p2"))
              /\ dropped' = Exhausted(timers)
              /\ UNCHANGED request
           \/ /\ ~uds.with_response
              /\ uds' = Idle
              /\ timers' = SessionTimerRestarted(timers)
              /\ request' = "sent"
              /\ UNCHANGED dropped
     \/ /\ uds.state \notin {"CONNECTING", "SENDING_REQUEST"}
        /\ UNCHANGED <<uds, timeouts, request, session>>
  /\ UNCHANGED <<initialized, receiving, connection, confused>>

uds_error ==
  /\ \/ uds.state = "CONNECTING"
        /\ timers' = Started(timers, "connect_try")
        /\ dropped' = Exhausted(timers)
        /\ UNCHANGED <<uds, request>>
     \/ uds.state = "IDLE"
        /\ UNCHANGED <<uds, timeouts, request>>
     \/ uds.state \in Requesting
        /\ timers' = AnswerTimerStopped
        /\ uds' = Idle
        /\ Report("error")
        /\ UNCHANGED dropped
  /\ UNCHANGED <<initialized, connection>>

(* The server answers what the client waits for, tester present in a single *)
(* frame; or anything comes at any time.                                    *)
Awaited ==
  \/ uds.state \in {"WAIT_RESPONSE", "RESPONSE_PENDING"}
  \/ uds.state = "CONNECTING" /\ ~sending /\ asked

Expected == initialized /\ (Awaited \/ "unexpected response" \in Disturbances)

(* What arrives now is the answer the client waits for, or its end.        *)
Answer == IF receiving THEN uds.state = "WAIT_SEGMENTED_RESPONSE" ELSE Awaited

TakenForAnswer(is_one) ==
  confused' = (confused \/ (uds.state # "IDLE" /\ ~is_one))

(* The connection gives up what it sends; or what it receives; or it has no  *)
(* memory for a response, which of a segmented one it reports once more     *)
(* when the overflow frame was sent, until then counted as received.        *)
send_error ==
  /\ sending
  /\ sending' = FALSE
  /\ asked' = FALSE
  /\ uds_error
  /\ leftover' = leftover \ {"sending"}
  /\ session' = IF uds.state = "SENDING_REQUEST" /\ timers["s3"] = 0 /\ session = "kept"
                THEN "lapsed" ELSE session
  /\ UNCHANGED <<receiving, confused>>

receive_error ==
  /\ \/ /\ receiving /\ receiving' = FALSE
        /\ leftover' = leftover \ {"receiving", "overflow"}
        /\ UNCHANGED asked
     \/ /\ ~receiving /\ Expected /\ "no room" \in Disturbances
        /\ asked' = FALSE
        /\ receiving' \in BOOLEAN
        /\ receiving' /\ uds.state = "CONNECTING" => "unexpected response" \in Disturbances
        /\ leftover' = IF receiving' THEN leftover \cup {"receiving", "overflow"}
                                     ELSE leftover
  /\ uds_error
  /\ TakenForAnswer(Answer /\ uds.state # "CONNECTING")
  /\ UNCHANGED <<sending, session>>

uds_receive_ff ==
  /\ ~receiving
  /\ Expected
  /\ uds.state # "CONNECTING" \/ "unexpected response" \in Disturbances
  /\ receiving' = TRUE
  /\ IF uds.state = "IDLE"
     THEN /\ leftover' = leftover \cup {"receiving"}
          /\ UNCHANGED <<uds, timeouts>>
     ELSE /\ timers' = AnswerTimerStopped
          /\ uds' = [uds EXCEPT !.state = "WAIT_SEGMENTED_RESPONSE"]
          /\ UNCHANGED <<dropped, leftover>>
  /\ TakenForAnswer(Answer /\ uds.state # "CONNECTING")
  /\ asked' = FALSE
  /\ UNCHANGED <<initialized, sending, told, session>>

(* The response comes in a single frame or is the segmented one.            *)
uds_receive(response) ==
  /\ IF receiving THEN "overflow" \notin leftover ELSE Expected
  /\ receiving' = FALSE
  /\ leftover' = leftover \ {"receiving"}
  /\ TakenForAnswer(Answer)
  /\ LET quiet == IF uds.state = "CONNECTING" THEN Stopped(timers, "p2")
                                              ELSE AnswerTimerStopped
     IN
     \/ /\ uds.state = "IDLE"
        /\ UNCHANGED <<uds, timeouts, told>>
     \/ /\ uds.state = "CONNECTING"
        /\ timers' = quiet
        /\ uds' = [Idle EXCEPT !.is_connected = @ \/ response = "positive"]
        /\ ConnectReport(IF response = "positive" THEN "connected" ELSE "failed")
        /\ UNCHANGED <<dropped, request>>
     \/ /\ uds.state \in Requesting
        /\ response = "pending"
        /\ uds' = [uds EXCEPT !.state = "RESPONSE_PENDING"]
        /\ timers' = Started(quiet, "p2_star")
        /\ dropped' = Exhausted(quiet)
        /\ UNCHANGED told
     \/ /\ uds.state \in Requesting
        /\ response # "pending"
        /\ uds' = Idle
        /\ timers' = quiet
        /\ Report("answered")
        /\ UNCHANGED <<dropped, connection>>
  /\ asked' = FALSE
  /\ UNCHANGED <<initialized, sending, session>>

Application ==
  \/ uds_client_init
  \/ uds_client_deinit
  \/ uds_client_connect
  \/ uds_client_disconnect
  \/ \E with_response \in BOOLEAN : uds_send_request(with_response)

lwcan_timeouts_handler ==
  \/ connect_try
  \/ s3_timer_handler
  \/ p2_timer_handler
  \/ p2_star_timer_handler

Connection ==
  \/ uds_sent
  \/ send_error
  \/ receive_error
  \/ uds_receive_ff
  \/ \E response \in Response : uds_receive(response)

(* The call of connect_cb through NULL is the end.                          *)
Crashed == connection = "no callback"

Step == ~Crashed /\ (Application \/ lwcan_timeouts_handler \/ Connection)

Next == Step \/ (Crashed /\ UNCHANGED vars)

Spec == Init /\ [][Next]_vars

(* Every timeout expires, the connection disposes of what it sends and of   *)
(* what it receives (OutputReturns and InputReturns of IsoTp).              *)
Fairness ==
  /\ WF_vars(~Crashed /\ connect_try)
  /\ WF_vars(~Crashed /\ p2_timer_handler)
  /\ WF_vars(~Crashed /\ (uds_sent \/ send_error))
  /\ WF_vars(~Crashed /\ receiving /\ receiving' = FALSE /\ Connection)

FairSpec == Spec /\ Fairness
-----------------------------------------------------------------------------
(* Every variable keeps its type.  The attempts left are eight bits, which   *)
(* a connect_try left over takes past zero when the client is connected     *)
(* (uds_client.c:83, see AttemptsCounted); more timeouts are never pending  *)
(* than there are chunks.                                                  *)
TypeOK ==
  /\ initialized \in BOOLEAN
  /\ uds \in UdsRecord
  /\ timers \in [Timer -> Nat]
  /\ Pending(timers) <= Chunks
  /\ dropped \in BOOLEAN
  /\ sending \in BOOLEAN
  /\ receiving \in BOOLEAN
  /\ connection \in {"none", "pending", "connected", "failed", "disconnected",
                     "reported twice", "no callback"}
  /\ request \in {"none", "open", "silent", "answered", "error", "sent",
                  "disconnected", "reported twice"}
  /\ asked \in BOOLEAN
  /\ leftover \subseteq {"sending", "receiving", "overflow"}
  /\ confused \in BOOLEAN
  /\ session \in {"none", "kept", "lapsed"}

(* uds_send_request leaves this state behind when isotp_send refuses the     *)
(* request: nothing but uds_client_disconnect ends it.                     *)
Stuck == uds.state = "SENDING_REQUEST" /\ ~sending

(* No state but Stuck is without what ends it, whatever the server, the     *)
(* connection and timeouts left over do, unless the pool had no chunk for   *)
(* its timeout (timeouts.c:147): what the client waits for has a timeout    *)
(* (uds_client.c:137, 180, 296, 334, 348), or the connection ends it.       *)
WaitsDriven ==
  /\ uds.state = "CONNECTING" =>
       sending \/ timers["connect_try"] + timers["p2"] > 0 \/ dropped
  /\ uds.state = "WAIT_RESPONSE" => timers["p2"] > 0 \/ dropped
  /\ uds.state = "RESPONSE_PENDING" => timers["p2_star"] > 0 \/ dropped
  /\ uds.state = "WAIT_SEGMENTED_RESPONSE" => receiving

(* The application is told of each request once, by positive_response,      *)
(* negative_response or error, and the client takes the next when it is,    *)
(* until it took for the answer what was none, a response nobody asked for  *)
(* or the end of one whose request is over (uds_client.c:219), or had no     *)
(* memory for the answer to connect, when P2 goes on to report an error of  *)
(* no request (uds_client.c:296).                                          *)
AnsweredOnce ==
  ~confused =>
    /\ request # "reported twice"
    /\ request \in {"open", "silent"} <=> uds.state \in Requesting /\ ~Stuck

(* connect_cb is called once for each connect, and ends it, with the same    *)
(* exceptions; and what ends it after them is connect_try alone, which calls *)
(* connect_cb again, or through NULL after uds_client_deinit, when it was    *)
(* left over (uds_client.c:229): no answer is ever reported to an           *)
(* application that does not wait for it.                                   *)
ConnectReportedOnce ==
  /\ uds.state = "CONNECTING" => uds.connect_cb /\ connection = "pending"
  /\ ~confused =>
       /\ connection \notin {"reported twice", "no callback"}
       /\ connection = "pending" => uds.state = "CONNECTING"

(* A connect makes no more attempts than the 'Number of attempts to connect  *)
(* the client to the server' (uds_options.h:40), with the same exceptions:   *)
(* a connect_try left over that finds the client connected with no attempt  *)
(* left takes connect_try_num from 0 to 255 (uds_client.c:83).              *)
AttemptsCounted ==
  ~confused => uds.connect_try_num < UDS_CONNECT_RETRY_NUM

(* Every connect comes to its end: so many attempts, then one report.       *)
ConnectEnds == ConnectReportedOnce /\ AttemptsCounted

(* S3 runs at most once and, in a build that keeps the session (the default; *)
(* uds_client.c:110 is the other), only in one.  Each other timeout is      *)
(* pending exactly in the state that waits for it, so that none ends a      *)
(* later connect or request or outlives uds_client_deinit, but not for a    *)
(* client that had no memory for the answer to connect, which leaves P2     *)
(* beside connect_try (uds_client.c:296), or that took for an answer what   *)
(* was none: one that is late while the client connects leaves connect_try  *)
(* (uds_client.c:229), one that comes in another state the timeout of that.  *)
TimersMatchState ==
  /\ timers["s3"] = 0 \/ (timers["s3"] = 1 /\ uds.is_connected /\ initialized)
  /\ ~confused =>
       /\ timers["p2_star"] = (IF uds.state = "RESPONSE_PENDING" THEN 1 ELSE 0)
       /\ timers["connect_try"] + timers["p2"]
            = (IF \/ uds.state = "WAIT_RESPONSE"
                  \/ uds.state = "CONNECTING" /\ ~sending THEN 1 ELSE 0)
       /\ timers["connect_try"] > 0 => uds.state = "CONNECTING"
       /\ ~dropped

(* The connection of an idle client sends and receives nothing, so that it  *)
(* can be removed or bound anew (uds_client.c:407, 441), but for a message   *)
(* that uds_client_disconnect interrupted, one nobody asked for or one      *)
(* there was no memory for, and not for a client that was confused.         *)
IdleIsQuiet ==
  uds.state = "IDLE" /\ ~confused =>
    /\ sending => "sending" \in leftover
    /\ receiving => "receiving" \in leftover

(* From the first request of a session on S3 runs or the request that will  *)
(* start it again is being sent, until S3 expires while a response is       *)
(* outstanding, or the request is refused or given up (uds_client.c:108),   *)
(* or the client was confused.                                             *)
SessionKept ==
  session = "kept" /\ ~confused =>
    \/ timers["s3"] = 1
    \/ uds.state = "SENDING_REQUEST" /\ sending

(* Each timeout of the client is pending when it has to be and only then.    *)
TimersRight == TimersMatchState /\ SessionKept

(* No state but RESPONSE_PENDING, which the server may prolong, lasts, even  *)
(* for a client that was confused: unless the request was refused or the    *)
(* pool of timeouts was exhausted.                                         *)
StateLeft ==
  \A s \in UdsState \ {"IDLE", "RESPONSE_PENDING"} :
    uds.state = s /\ ~Stuck /\ ~dropped ~> uds.state # s \/ dropped

=============================================================================
