-------------------------- MODULE UdsClientProofs --------------------------
(***************************************************************************)
(* Theorems about the UDS client, for every number of attempts to connect,  *)
(* every number of timeouts (two at least) and every combination of what    *)
(* may disturb it.  Always holds of every client of a build that keeps the  *)
(* session (the default), whatever it took for an answer; Inv is what       *)
(* relates timeouts, reports and the connection until it is confused, for   *)
(* an application that does not connect when connected.                     *)
(***************************************************************************)
EXTENDS UdsClient, TLAPS

Settings == UDS_KEEP_SESSION /\ "connect again" \notin Disturbances

(* The timeouts that can be pending at once.                               *)
Pool == {ts \in [Timer -> Nat] : Pending(ts) <= Chunks}

(* S3 runs at most once, and only in a session.                            *)
SessionTimer == timers["s3"] = 0 \/ (timers["s3"] = 1 /\ uds.is_connected /\ initialized)

(* A client that is not initialised is cleared and its connection has       *)
(* nothing under way; one that connects has a callback and a connect to      *)
(* report; one that sends a request is connected.                          *)
Ordered ==
  /\ ~initialized => uds = Cleared /\ ~sending /\ ~receiving
  /\ uds.state = "CONNECTING" => uds.connect_cb /\ connection = "pending"
  /\ uds.state = "SENDING_REQUEST" => uds.is_connected

(* What holds of every client, confused or not.                            *)
Always ==
  /\ TypeOK
  /\ WaitsDriven
  /\ SessionTimer
  /\ Ordered

(* What relates the state of a client that is not confused to the           *)
(* connection and to the application, besides the properties.               *)
Consistent ==
  ~confused =>
    /\ uds.state = "CONNECTING" => ~uds.is_connected
    /\ uds.state = "CONNECTING" /\ ~sending /\ asked => timers["connect_try"] = 0
    /\ uds.state \in Requesting => uds.is_connected
    /\ ~initialized => uds.state = "IDLE" /\ ~uds.is_connected
    /\ sending => \/ uds.state \in {"CONNECTING", "SENDING_REQUEST"}
                  \/ /\ uds.state = "IDLE" /\ ~uds.is_connected
                     /\ "sending" \in leftover
    /\ receiving => \/ uds.state = "WAIT_SEGMENTED_RESPONSE"
                    \/ "receiving" \in leftover
    /\ uds.state = "SENDING_REQUEST" /\ sending =>
         (uds.with_response <=> request = "open")
    /\ uds.state \in Requesting \ {"SENDING_REQUEST"} => request = "open"

(* What of ConnectReportedOnce Ordered does not say.                       *)
ReportedOnce ==
  ~confused =>
    /\ connection \notin {"reported twice", "no callback"}
    /\ connection = "pending" <=> uds.state = "CONNECTING"

Inv ==
  /\ Always
  /\ AnsweredOnce
  /\ ReportedOnce
  /\ TimersMatchState
  /\ IdleIsQuiet
  /\ SessionKept
  /\ Consistent
-----------------------------------------------------------------------------

(* What is known of the number of attempts and of the pool of timeouts.     *)
LEMMA Numbers ==
  /\ UDS_CONNECT_RETRY_NUM \in Nat
  /\ UDS_CONNECT_RETRY_NUM > 0
  /\ UDS_CONNECT_RETRY_NUM < 256
  /\ Chunks \in Nat /\ Chunks >= 2
BY UdsAssumption DEF UdsAssumption, Uint8

(* A record of the client stays one when a field is assigned a value of its *)
(* type.                                                                    *)
LEMMA FieldTyped ==
  ASSUME NEW u \in UdsRecord
  PROVE  /\ \A s \in UdsState : [u EXCEPT !.state = s] \in UdsRecord
         /\ \A n \in Uint8 : [u EXCEPT !.connect_try_num = n] \in UdsRecord
         /\ \A b \in BOOLEAN : /\ [u EXCEPT !.is_connected = b] \in UdsRecord
                               /\ [u EXCEPT !.with_response = b] \in UdsRecord
                               /\ [u EXCEPT !.connect_cb = b] \in UdsRecord
BY DEF UdsRecord

(* What the operators on timers do to a timer.                             *)

(* lwcan_timeout adds one timeout when there is a chunk for it, and leaves   *)
(* those of other handlers alone.                                           *)
LEMMA StartedTimer ==
  ASSUME NEW ts \in Pool, NEW t \in Timer
  PROVE  /\ Started(ts, t) \in Pool
         /\ \A u \in Timer : Started(ts, t)[u] =
              IF u = t /\ ~Exhausted(ts) THEN ts[u] + 1 ELSE ts[u]
<1>1. ts \in [Timer -> Nat] /\ Pending(ts) <= Chunks
  BY DEF Pool
<1>2. Started(ts, t) \in [Timer -> Nat]
  BY <1>1 DEF Started
<1>3. \A u \in Timer : Started(ts, t)[u] =
        IF u = t /\ ~Exhausted(ts) THEN ts[u] + 1 ELSE ts[u]
  BY <1>1 DEF Started
<1>4. Pending(Started(ts, t)) <= Chunks
  <2>1. CASE Exhausted(ts)
    BY <1>1, <2>1 DEF Started
  <2>2. CASE ~Exhausted(ts)
    <3>1. Pending(Started(ts, t)) = Pending(ts) + 1
      BY <1>1, <1>3, <2>2 DEF Pending, Timer
    <3>2. Pending(ts) \in Nat
      BY <1>1 DEF Pending, Timer
    <3> QED
      BY <2>2, <3>1, <3>2, Numbers DEF Exhausted
  <2> QED
    BY <2>1, <2>2
<1> QED
  BY <1>2, <1>3, <1>4 DEF Pool

(* lwcan_untimeout takes one away, if there is one, and gives its chunk      *)
(* back.                                                                    *)
LEMMA StoppedTimer ==
  ASSUME NEW ts \in Pool, NEW t \in Timer
  PROVE  /\ Stopped(ts, t) \in Pool
         /\ \A u \in Timer : Stopped(ts, t)[u] =
              IF u = t THEN (IF ts[u] > 0 THEN ts[u] - 1 ELSE 0) ELSE ts[u]
         /\ ts[t] > 0 => ~Exhausted(Stopped(ts, t))
<1>1. ts \in [Timer -> Nat] /\ Pending(ts) <= Chunks
  BY DEF Pool
<1>2. Stopped(ts, t) \in [Timer -> Nat]
  BY <1>1 DEF Stopped
<1>3. \A u \in Timer : Stopped(ts, t)[u] =
        IF u = t THEN (IF ts[u] > 0 THEN ts[u] - 1 ELSE 0) ELSE ts[u]
  BY <1>1 DEF Stopped
<1>4. Pending(ts) \in Nat
  BY <1>1 DEF Pending, Timer
<1>5. Pending(Stopped(ts, t)) = IF ts[t] > 0 THEN Pending(ts) - 1 ELSE Pending(ts)
  BY <1>1, <1>3 DEF Pending, Timer
<1> QED
  BY <1>1, <1>2, <1>3, <1>4, <1>5, Numbers DEF Pool, Exhausted

(* S3 is pending once at most when it was and is started anew.              *)
LEMMA RestartedTimer ==
  ASSUME NEW ts \in Pool
  PROVE  /\ SessionTimerRestarted(ts) \in Pool
         /\ \A u \in Timer \ {"s3"} : SessionTimerRestarted(ts)[u] = ts[u]
         /\ ts["s3"] <= 1 => SessionTimerRestarted(ts)["s3"] \in {0, 1}
         /\ ts["s3"] <= 1 /\ ~Exhausted(Stopped(ts, "s3"))
              => SessionTimerRestarted(ts)["s3"] = 1
<1>1. "s3" \in Timer /\ ts["s3"] \in Nat
  BY DEF Timer, Pool
<1>2. Stopped(ts, "s3") \in Pool
  BY <1>1, StoppedTimer
<1> QED
  BY <1>1, <1>2, StoppedTimer, StartedTimer DEF SessionTimerRestarted

(* With one timeout pending there is a chunk for another.                   *)
LEMMA RoomLeft ==
  ASSUME NEW ts \in Pool,
         ts["connect_try"] + ts["p2"] + ts["p2_star"] + ts["s3"] <= 1
  PROVE  ~Exhausted(ts)
<1>1. Pending(ts) \in Nat
  BY DEF Pool, Pending, Timer
<1> QED
  BY <1>1, Numbers DEF Exhausted, Pending

(* The timeout of the state is stopped, and no other.                       *)
LEMMA AnswerTimer ==
  ASSUME TypeOK
  PROVE  /\ AnswerTimerStopped \in Pool
         /\ AnswerTimerStopped["s3"] = timers["s3"]
         /\ AnswerTimerStopped["connect_try"] = timers["connect_try"]
         /\ AnswerTimerStopped["p2"] =
              IF uds.state = "WAIT_RESPONSE" /\ timers["p2"] > 0
              THEN timers["p2"] - 1 ELSE timers["p2"]
         /\ AnswerTimerStopped["p2_star"] =
              IF uds.state = "RESPONSE_PENDING" /\ timers["p2_star"] > 0
              THEN timers["p2_star"] - 1 ELSE timers["p2_star"]
<1>1. timers \in Pool /\ timers \in [Timer -> Nat]
  BY DEF TypeOK, Pool
<1>2. /\ "s3" \in Timer /\ "connect_try" \in Timer
      /\ "p2" \in Timer /\ "p2_star" \in Timer
  BY DEF Timer
<1>3. timers["p2"] \in Nat /\ timers["p2_star"] \in Nat
  BY <1>1, <1>2
<1>4. CASE uds.state = "WAIT_RESPONSE"
  <2>1. AnswerTimerStopped = Stopped(timers, "p2")
    BY <1>4 DEF AnswerTimerStopped
  <2>2. /\ AnswerTimerStopped \in Pool
        /\ \A u \in Timer : AnswerTimerStopped[u] =
             IF u = "p2" THEN (IF timers[u] > 0 THEN timers[u] - 1 ELSE 0) ELSE timers[u]
    BY <1>1, <1>2, <2>1, StoppedTimer
  <2> QED
    BY <1>2, <1>4, <1>3, <2>2
<1>5. CASE uds.state = "RESPONSE_PENDING"
  <2>1. AnswerTimerStopped = Stopped(timers, "p2_star")
    BY <1>5 DEF AnswerTimerStopped
  <2>2. /\ AnswerTimerStopped \in Pool
        /\ \A u \in Timer : AnswerTimerStopped[u] =
             IF u = "p2_star" THEN (IF timers[u] > 0 THEN timers[u] - 1 ELSE 0) ELSE timers[u]
    BY <1>1, <1>2, <2>1, StoppedTimer
  <2> QED
    BY <1>2, <1>5, <1>3, <2>2
<1>6. CASE uds.state \notin {"WAIT_RESPONSE", "RESPONSE_PENDING"}
  <2>1. AnswerTimerStopped = timers
    BY <1>6 DEF AnswerTimerStopped
  <2> QED
    BY <1>1, <1>6, <2>1
<1> QED
  BY <1>4, <1>5, <1>6


(* The verdicts of the two reports, and what else a step may leave in the    *)
(* variables, are of their types.                                          *)
LEMMA TypedNext ==
  ASSUME TypeOK,
         uds' \in UdsRecord, timers' \in Pool, dropped' \in BOOLEAN,
         sending' \in BOOLEAN, receiving' \in BOOLEAN, asked' \in BOOLEAN,
         initialized' = initialized, confused' \in BOOLEAN,
         connection' \in {connection, "connected", "failed", "reported twice",
                          "no callback"},
         request' \in {request, "open", "silent", "answered", "sent", "error",
                      "reported twice"},
         leftover' \subseteq leftover \cup {"receiving", "overflow"},
         session' \in {session, "kept", "lapsed"}
  PROVE  TypeOK'
<1>1. timers' \in [Timer -> Nat] /\ Pending(timers)' <= Chunks
  BY DEF Pool, Pending
<1>2. (connection \in {"none", "pending", "connected", "failed", "disconnected",
                       "reported twice", "no callback"})'
  BY DEF TypeOK
<1>3. (request \in {"none", "open", "silent", "answered", "error", "sent",
                    "disconnected", "reported twice"})'
  BY DEF TypeOK
<1>4. (leftover \subseteq {"sending", "receiving", "overflow"})'
  BY DEF TypeOK
<1>5. (session \in {"none", "kept", "lapsed"})'
  BY DEF TypeOK
<1>6. initialized' \in BOOLEAN
  BY DEF TypeOK
<1> QED
  BY <1>1, <1>2, <1>3, <1>4, <1>5, <1>6 DEF TypeOK
-----------------------------------------------------------------------------
(* One lemma for each action: it preserves what holds of every client.     *)

LEMMA AlwaysInitially == Init => Always
<1> SUFFICES ASSUME Init PROVE Always
  OBVIOUS
<1>1. uds \in UdsRecord
  BY DEF Init, UdsRecord, Cleared, UdsState, Uint8
<1>2. timers \in [Timer -> Nat] /\ Pending(timers) = 0 /\ timers["s3"] = 0
  BY DEF Init, Timer, Pending
<1>3. TypeOK
  <2>1. Pending(timers) <= Chunks
    BY <1>2, Numbers
  <2> QED
    BY <1>1, <1>2, <2>1 DEF Init, TypeOK
<1>4. WaitsDriven
  BY DEF Init, WaitsDriven, Cleared
<1> QED
  BY <1>2, <1>3, <1>4 DEF Init, Always, SessionTimer, Ordered, Cleared

LEMMA InitAlways ==
  ASSUME Always, uds_client_init
  PROVE  Always'
<1>1. uds = Cleared /\ uds' = Cleared
  BY DEF Always, Ordered, uds_client_init
<1>2. TypeOK'
  BY <1>1 DEF Always, TypeOK, uds_client_init, timeouts, told
<1>3. WaitsDriven'
  BY <1>1 DEF WaitsDriven, Cleared
<1>4. SessionTimer'
  BY <1>1 DEF Always, SessionTimer, uds_client_init, Cleared, timeouts
<1>5. Ordered'
  BY <1>1 DEF Always, Ordered, uds_client_init, Cleared
<1> QED
  BY <1>2, <1>3, <1>4, <1>5 DEF Always

(* Deinitialisation stops S3, which runs only for a connected client.       *)
LEMMA DeinitAlways ==
  ASSUME Always, uds_client_deinit
  PROVE  Always'
<1>1. timers \in Pool
  BY DEF Always, TypeOK, Pool
<1>2. timers' \in Pool /\ timers'["s3"] = 0
  <2>1. CASE uds.is_connected
    BY <1>1, <2>1, StoppedTimer DEF Always, SessionTimer, uds_client_deinit, Timer
  <2>2. CASE ~uds.is_connected
    BY <1>1, <2>2 DEF Always, SessionTimer, uds_client_deinit
  <2> QED
    BY <2>1, <2>2
<1>3. uds' = Cleared /\ Cleared \in UdsRecord
  BY DEF uds_client_deinit, Cleared, UdsRecord, UdsState, Uint8
<1>4. TypeOK'
  BY <1>2, <1>3 DEF Always, TypeOK, Pool, uds_client_deinit, told
<1>5. WaitsDriven'
  BY <1>3 DEF WaitsDriven, Cleared
<1>6. Ordered'
  BY <1>3 DEF Ordered, uds_client_deinit, Cleared
<1> QED
  BY <1>2, <1>4, <1>5, <1>6 DEF Always, SessionTimer

LEMMA ConnectAlways ==
  ASSUME Always, uds_client_connect
  PROVE  Always'
<1>1. uds \in UdsRecord
  BY DEF Always, TypeOK
<1> DEFINE tried == [uds EXCEPT !.connect_try_num = UDS_CONNECT_RETRY_NUM - 1,
                                !.connect_cb = TRUE]
<1>2. /\ tried \in UdsRecord /\ tried.connect_cb /\ tried.state = "IDLE"
      /\ tried.is_connected = uds.is_connected
  <2>1. UDS_CONNECT_RETRY_NUM - 1 \in Uint8
    BY Numbers DEF Uint8
  <2> QED
    BY <1>1, <2>1 DEF UdsRecord, uds_client_connect
<1>3. \/ uds' = [tried EXCEPT !.state = "CONNECTING"] /\ sending' /\ connection' = "pending"
      \/ uds' = tried /\ sending' = sending
  BY DEF uds_client_connect
<1> HIDE DEF tried
<1>4. /\ uds' \in UdsRecord
      /\ uds'.connect_cb /\ uds'.is_connected = uds.is_connected
      /\ \/ uds'.state = "CONNECTING" /\ sending' /\ connection' = "pending"
         \/ uds'.state = "IDLE" /\ sending' = sending
  BY <1>2, <1>3 DEF UdsRecord, UdsState
<1>5. TypeOK'
  BY <1>4 DEF Always, TypeOK, uds_client_connect
<1>6. WaitsDriven'
  BY <1>4 DEF WaitsDriven
<1>7. SessionTimer' /\ Ordered'
  BY <1>4 DEF Always, SessionTimer, Ordered, uds_client_connect
<1> QED
  BY <1>5, <1>6, <1>7 DEF Always

LEMMA DisconnectAlways ==
  ASSUME Always, uds_client_disconnect
  PROVE  Always'
<1>1. uds \in UdsRecord /\ timers \in Pool
  BY DEF Always, TypeOK, Pool
<1>2. uds' \in UdsRecord /\ uds'.state = "IDLE"
  BY <1>1 DEF uds_client_disconnect, UdsState, UdsRecord
<1> DEFINE twice == Stopped(Stopped(timers, "p2"), "p2_star")
<1>3. twice \in Pool /\ twice["s3"] = timers["s3"]
  BY <1>1, StoppedTimer DEF Timer
<1>4. timers' = Stopped(twice, "s3")
  BY DEF uds_client_disconnect
<1> HIDE DEF twice
<1>5. timers' \in Pool /\ timers'["s3"] = 0
  BY <1>3, <1>4, StoppedTimer DEF Always, SessionTimer, Timer
<1>6. TypeOK'
  BY <1>2, <1>5 DEF Always, TypeOK, Pool, uds_client_disconnect
<1>7. WaitsDriven'
  BY <1>2 DEF WaitsDriven
<1>8. Ordered'
  BY <1>2 DEF Always, Ordered, Cleared, uds_client_disconnect
<1> QED
  BY <1>5, <1>6, <1>7, <1>8 DEF Always, SessionTimer

LEMMA RequestAlways ==
  ASSUME Always, NEW with_response \in BOOLEAN, uds_send_request(with_response)
  PROVE  Always'
<1>1. /\ uds' \in UdsRecord /\ uds'.state = "SENDING_REQUEST"
      /\ uds'.is_connected /\ uds.is_connected
  BY DEF Always, TypeOK, uds_send_request, Requested, UdsRecord, UdsState
<1>2. initialized
  BY <1>1 DEF Always, Ordered, Cleared
<1>3. TypeOK'
  <2>1. timers' \in Pool
    BY DEF Always, TypeOK, Pool, uds_send_request
  <2>2. dropped' = FALSE /\ sending' \in {TRUE, sending} /\ request' \in {request, "open", "silent"}
    BY DEF uds_send_request, Requested, RequestTaken, RequestRefused
  <2>3. UNCHANGED <<initialized, receiving, connection, asked, leftover, confused, session>>
    BY DEF uds_send_request
  <2> QED
    BY <1>1, <2>1, <2>2, <2>3, TypedNext DEF Always, TypeOK
<1>4. WaitsDriven'
  BY <1>1 DEF WaitsDriven
<1>5. SessionTimer' /\ Ordered'
  BY <1>1, <1>2 DEF Always, SessionTimer, Ordered, uds_send_request
<1> QED
  BY <1>3, <1>4, <1>5 DEF Always

(* connect_try goes on sending, or leaves an idle client; left over, it      *)
(* finds a client in any state.                                            *)
LEMMA ConnectTryAlways ==
  ASSUME Always, connect_try
  PROVE  Always'
<1>1. uds \in UdsRecord /\ timers \in Pool
  BY DEF Always, TypeOK, Pool
<1>2. /\ timers' \in Pool
      /\ timers'["p2"] = timers["p2"] /\ timers'["p2_star"] = timers["p2_star"]
      /\ timers'["s3"] = timers["s3"]
  BY <1>1, StoppedTimer DEF connect_try, Timer
<1> DEFINE tried == [uds EXCEPT !.connect_try_num = (@ - 1) % 256]
<1>3. /\ tried \in UdsRecord /\ tried.state = uds.state
      /\ tried.is_connected = uds.is_connected /\ tried.connect_cb = uds.connect_cb
  <2>1. uds.connect_try_num \in 0..255
    BY <1>1 DEF UdsRecord, Uint8
  <2>2. (uds.connect_try_num - 1) % 256 \in Uint8
    BY <2>1 DEF Uint8
  <2> QED
    BY <1>1, <2>2 DEF UdsRecord
<1>4. \/ uds' = [uds EXCEPT !.state = "IDLE"] /\ AttemptsUsedUp(uds) /\ sending' = sending
      \/ /\ uds' = tried /\ sending' /\ ~AttemptsUsedUp(uds)
         /\ connection' = connection
      \/ uds' = [tried EXCEPT !.state = "IDLE"] /\ sending' = sending /\ ~AttemptsUsedUp(uds)
  BY DEF connect_try, ConnectTry
<1> HIDE DEF tried
<1>5. /\ uds' \in UdsRecord
      /\ uds'.is_connected = uds.is_connected /\ uds'.connect_cb = uds.connect_cb
      /\ \/ uds'.state = "IDLE"
         \/ uds'.state = uds.state /\ sending' /\ connection' = connection
  BY <1>1, <1>3, <1>4 DEF UdsRecord, UdsState
<1>6. ~initialized => uds' = Cleared /\ sending' = sending
  <2> SUFFICES ASSUME ~initialized
               PROVE  uds' = Cleared /\ sending' = sending
    OBVIOUS
  <2>1. uds = Cleared
    BY DEF Always, Ordered
  <2>2. AttemptsUsedUp(uds)
    BY <2>1 DEF AttemptsUsedUp, Cleared
  <2> QED
    BY <1>4, <2>1, <2>2 DEF Cleared
<1>7. TypeOK'
  <2>1. connection' \in {connection, "failed", "reported twice", "no callback"}
    BY DEF connect_try, ConnectTry, ConnectReport
  <2>2. sending' \in BOOLEAN
    BY <1>4 DEF Always, TypeOK
  <2>3. UNCHANGED <<initialized, dropped, receiving, request, asked, leftover, confused,
                   session>>
    BY DEF connect_try
  <2> QED
    BY <1>2, <1>5, <2>1, <2>2, <2>3, TypedNext DEF Always, TypeOK
<1>8. WaitsDriven'
  BY <1>2, <1>5 DEF Always, WaitsDriven, connect_try
<1>9. SessionTimer' /\ Ordered'
  BY <1>2, <1>5, <1>6 DEF Always, SessionTimer, Ordered, connect_try
<1> QED
  BY <1>7, <1>8, <1>9 DEF Always

LEMMA S3Always ==
  ASSUME UDS_KEEP_SESSION, Always, s3_timer_handler
  PROVE  Always'
<1>1. uds \in UdsRecord /\ timers \in Pool
  BY DEF Always, TypeOK, Pool
<1>2. /\ timers' \in Pool /\ timers'["s3"] = 0
      /\ timers'["p2"] = timers["p2"] /\ timers'["p2_star"] = timers["p2_star"]
      /\ timers'["connect_try"] = timers["connect_try"]
  BY <1>1, StoppedTimer DEF Always, SessionTimer, s3_timer_handler, Timer
<1>3. uds.is_connected /\ initialized
  BY DEF Always, SessionTimer, s3_timer_handler
<1>4. \/ uds' \in UdsRecord /\ uds'.state = "SENDING_REQUEST" /\ uds'.is_connected
      \/ uds' = uds /\ dropped' = dropped /\ sending' = sending
  BY <1>1, <1>3 DEF s3_timer_handler, Requested, UdsRecord, UdsState
<1>5. TypeOK'
  <2>1. /\ sending' \in {TRUE, sending} /\ dropped' \in {FALSE, dropped}
        /\ request' \in {request, "silent"} /\ session' \in {session, "lapsed"}
    BY DEF s3_timer_handler, Requested, RequestTaken, RequestRefused
  <2>2. uds' \in UdsRecord
    BY <1>1, <1>4
  <2>3. UNCHANGED <<initialized, receiving, connection, asked, leftover, confused>>
    BY DEF s3_timer_handler
  <2> QED
    BY <1>2, <2>1, <2>2, <2>3, TypedNext DEF Always, TypeOK
<1>6. WaitsDriven'
  BY <1>2, <1>4 DEF Always, WaitsDriven, s3_timer_handler
<1>7. SessionTimer' /\ Ordered'
  BY <1>2, <1>3, <1>4 DEF Always, SessionTimer, Ordered, s3_timer_handler
<1> QED
  BY <1>5, <1>6, <1>7 DEF Always

(* The chunk P2 gives back is there for connect_try.                        *)
LEMMA P2Always ==
  ASSUME Always, p2_timer_handler
  PROVE  Always'
<1>1. uds \in UdsRecord /\ timers \in Pool
  BY DEF Always, TypeOK, Pool
<1> DEFINE quiet == Stopped(timers, "p2")
<1>2. /\ quiet \in Pool /\ ~Exhausted(quiet)
      /\ quiet["s3"] = timers["s3"]
  BY <1>1, StoppedTimer DEF p2_timer_handler, Timer
<1>3. \/ /\ uds.state = "CONNECTING" /\ timers' = Started(quiet, "connect_try")
         /\ uds' = uds /\ request' = request
      \/ uds.state # "CONNECTING" /\ timers' = quiet /\ uds' = Idle
  BY DEF p2_timer_handler
<1> HIDE DEF quiet
<1>4. /\ timers' \in Pool /\ timers'["s3"] = timers["s3"]
      /\ uds.state = "CONNECTING" => timers'["connect_try"] + timers'["p2"] > 0
  <2>1. "connect_try" \in Timer /\ "s3" \in Timer /\ "p2" \in Timer
    BY DEF Timer
  <2>2. CASE uds.state = "CONNECTING"
    <3>1. timers' = Started(quiet, "connect_try")
      BY <1>3, <2>2
    <3>2. /\ timers' \in Pool /\ timers'["s3"] = timers["s3"]
          /\ timers'["connect_try"] = quiet["connect_try"] + 1
      BY <1>2, <2>1, <3>1, StartedTimer
    <3>3. quiet["connect_try"] \in Nat /\ timers'["p2"] \in Nat
      BY <1>2, <2>1, <3>2 DEF Pool
    <3> QED
      BY <3>2, <3>3
  <2>3. CASE uds.state # "CONNECTING"
    BY <1>2, <1>3, <2>3
  <2> QED
    BY <2>2, <2>3
<1>5. /\ uds' \in UdsRecord /\ uds'.is_connected = uds.is_connected
      /\ uds'.connect_cb = uds.connect_cb
      /\ \/ uds.state = "CONNECTING" /\ uds' = uds
         \/ uds'.state = "IDLE"
  BY <1>1, <1>3 DEF Idle, UdsRecord, UdsState
<1>6. uds = Cleared => uds' = Cleared
  BY <1>3 DEF Idle, Cleared
<1>7. TypeOK'
  <2>1. request' \in {request, "error", "reported twice"}
    BY DEF p2_timer_handler, Report
  <2>2. /\ asked' = FALSE
        /\ UNCHANGED <<initialized, dropped, sending, receiving, connection, leftover,
                       confused, session>>
    BY DEF p2_timer_handler
  <2> QED
    BY <1>4, <1>5, <2>1, <2>2, TypedNext DEF Always, TypeOK
<1>8. WaitsDriven'
  BY <1>4, <1>5 DEF WaitsDriven
<1>9. SessionTimer' /\ Ordered'
  BY <1>4, <1>5, <1>6 DEF Always, SessionTimer, Ordered, p2_timer_handler
<1> QED
  BY <1>7, <1>8, <1>9 DEF Always

LEMMA P2StarAlways ==
  ASSUME Always, p2_star_timer_handler
  PROVE  Always'
<1>1. uds \in UdsRecord /\ timers \in Pool
  BY DEF Always, TypeOK, Pool
<1>2. timers' \in Pool /\ timers'["s3"] = timers["s3"]
  BY <1>1, StoppedTimer DEF p2_star_timer_handler, Timer
<1>3. /\ uds' \in UdsRecord /\ uds'.state = "IDLE"
      /\ uds'.is_connected = uds.is_connected
  BY <1>1 DEF p2_star_timer_handler, Idle, UdsRecord, UdsState
<1>4. uds = Cleared => uds' = Cleared
  BY DEF p2_star_timer_handler, Idle, Cleared
<1>5. TypeOK'
  BY <1>2, <1>3 DEF Always, TypeOK, Pool, p2_star_timer_handler, Report
<1>6. WaitsDriven'
  BY <1>3 DEF WaitsDriven
<1>7. SessionTimer' /\ Ordered'
  BY <1>2, <1>3, <1>4 DEF Always, SessionTimer, Ordered, p2_star_timer_handler
<1> QED
  BY <1>5, <1>6, <1>7 DEF Always

LEMMA SentAlways ==
  ASSUME Always, uds_sent
  PROVE  Always'
<1>1. uds \in UdsRecord /\ timers \in Pool
  BY DEF Always, TypeOK, Pool
<1>2. /\ "s3" \in Timer /\ "p2" \in Timer /\ "p2_star" \in Timer
      /\ "connect_try" \in Timer /\ timers["s3"] <= 1
  BY DEF Always, SessionTimer, Timer
<1>3. sending /\ initialized
  BY DEF Always, Ordered, uds_sent
<1> DEFINE answered == Started(timers, "p2")
<1>4. /\ answered \in Pool /\ answered["s3"] = timers["s3"]
      /\ answered["p2_star"] = timers["p2_star"]
      /\ answered["connect_try"] = timers["connect_try"]
      /\ answered["p2"] = IF Exhausted(timers) THEN timers["p2"] ELSE timers["p2"] + 1
  BY <1>1, <1>2, StartedTimer
<1> HIDE DEF answered
<1>5. \A ts \in {timers, answered} :
        /\ SessionTimerRestarted(ts) \in Pool
        /\ SessionTimerRestarted(ts)["s3"] \in {0, 1}
        /\ SessionTimerRestarted(ts)["p2"] = ts["p2"]
        /\ SessionTimerRestarted(ts)["p2_star"] = ts["p2_star"]
  BY <1>1, <1>2, <1>4, RestartedTimer
<1>6. \/ /\ uds.state = "CONNECTING" /\ uds' = uds
         /\ timers' = answered /\ dropped' = Exhausted(timers)
      \/ /\ uds.state = "SENDING_REQUEST"
         /\ uds' = [uds EXCEPT !.state = "WAIT_RESPONSE"]
         /\ timers' = SessionTimerRestarted(answered) /\ dropped' = Exhausted(timers)
      \/ /\ uds.state = "SENDING_REQUEST" /\ uds' = Idle
         /\ timers' = SessionTimerRestarted(timers) /\ dropped' = dropped
      \/ /\ uds.state \notin {"CONNECTING", "SENDING_REQUEST"}
         /\ uds' = uds /\ timers' = timers /\ dropped' = dropped
  BY DEF uds_sent, answered, timeouts
<1>7. /\ uds' \in UdsRecord /\ uds'.is_connected = uds.is_connected
      /\ uds'.connect_cb = uds.connect_cb
      /\ uds'.state = uds.state \/ uds'.state \in {"WAIT_RESPONSE", "IDLE"}
  BY <1>1, <1>6 DEF Idle, UdsRecord, UdsState
<1>8. timers' \in Pool /\ dropped' \in BOOLEAN
  <2>1. Exhausted(timers) \in BOOLEAN
    BY DEF Exhausted
  <2>2. dropped \in BOOLEAN
    BY DEF Always, TypeOK
  <2> QED
    BY <1>1, <1>4, <1>5, <1>6, <2>1, <2>2
<1>9. TypeOK'
  <2>1. /\ sending' = FALSE /\ asked' \in BOOLEAN
        /\ leftover' = leftover \ {"sending"}
        /\ request' \in {request, "sent"} /\ session' \in {session, "kept"}
        /\ UNCHANGED <<initialized, receiving, connection, confused>>
    BY DEF uds_sent
  <2> QED
    BY <1>7, <1>8, <2>1, TypedNext DEF Always, TypeOK
<1>10. WaitsDriven'
  <2>1. /\ timers["p2"] \in Nat /\ timers["connect_try"] \in Nat
        /\ timers["p2_star"] \in Nat
    BY <1>1, <1>2 DEF Pool
  <2>2. ~Exhausted(timers) => answered["p2"] > 0
    BY <1>4, <2>1
  <2>3. receiving' = receiving
    BY DEF uds_sent
  <2> QED
    BY <1>1, <1>4, <1>5, <1>6, <2>1, <2>2, <2>3 DEF Always, WaitsDriven, Idle, UdsRecord
<1>11. SessionTimer'
  <2>1. initialized' = initialized
    BY DEF uds_sent
  <2>2. CASE uds.state = "SENDING_REQUEST"
    BY <1>3, <1>5, <1>6, <1>7, <2>1, <2>2 DEF Always, Ordered, SessionTimer
  <2>3. CASE uds.state # "SENDING_REQUEST"
    BY <1>4, <1>6, <1>7, <2>1, <2>3 DEF Always, SessionTimer
  <2> QED
    BY <2>2, <2>3
<1>12. Ordered'
  BY <1>3, <1>7 DEF Always, Ordered, uds_sent
<1> QED
  BY <1>9, <1>10, <1>11, <1>12 DEF Always

(* What uds_error does, of either error of the connection.                 *)
LEMMA ErrorAlways ==
  ASSUME Always, uds_error
  PROVE  /\ timers' \in Pool /\ timers'["s3"] = timers["s3"]
         /\ uds' \in UdsRecord /\ dropped' \in BOOLEAN
         /\ uds'.is_connected = uds.is_connected /\ uds'.connect_cb = uds.connect_cb
         /\ \/ uds.state = uds'.state /\ uds.state \in {"CONNECTING", "IDLE"}
            \/ uds'.state = "IDLE"
         /\ uds = Cleared => uds' = Cleared
         /\ uds'.state = "CONNECTING" =>
              timers'["connect_try"] + timers'["p2"] > 0 \/ dropped'
         /\ request' \in {request, "error", "reported twice"}
         /\ initialized' = initialized /\ connection' = connection
<1>1. uds \in UdsRecord /\ timers \in Pool /\ dropped \in BOOLEAN
  BY DEF Always, TypeOK, Pool
<1>2. /\ "s3" \in Timer /\ "p2" \in Timer /\ "connect_try" \in Timer
  BY DEF Timer
<1> DEFINE again == Started(timers, "connect_try")
<1>3. \/ /\ uds.state = "CONNECTING" /\ uds' = uds /\ request' = request
         /\ timers' = again /\ dropped' = Exhausted(timers)
      \/ /\ uds.state = "IDLE" /\ uds' = uds /\ request' = request
         /\ timers' = timers /\ dropped' = dropped
      \/ /\ uds.state \in Requesting /\ uds' = Idle /\ Report("error")
         /\ timers' = AnswerTimerStopped /\ dropped' = dropped
  BY DEF uds_error, timeouts
<1>4. /\ again \in Pool /\ again["s3"] = timers["s3"]
      /\ ~Exhausted(timers) => again["connect_try"] = timers["connect_try"] + 1
      /\ again["p2"] = timers["p2"]
  BY <1>1, <1>2, StartedTimer
<1> HIDE DEF again
<1>5. AnswerTimerStopped \in Pool /\ AnswerTimerStopped["s3"] = timers["s3"]
  BY AnswerTimer DEF Always
<1>6. timers' \in Pool /\ timers'["s3"] = timers["s3"] /\ dropped' \in BOOLEAN
  <2>1. Exhausted(timers) \in BOOLEAN
    BY DEF Exhausted
  <2> QED
    BY <1>1, <1>3, <1>4, <1>5, <2>1
<1>7. /\ uds' \in UdsRecord
      /\ uds'.is_connected = uds.is_connected /\ uds'.connect_cb = uds.connect_cb
      /\ \/ uds.state = uds'.state /\ uds.state \in {"CONNECTING", "IDLE"}
         \/ uds'.state = "IDLE"
  BY <1>1, <1>3 DEF Idle, UdsRecord, UdsState
<1>8. uds = Cleared => uds' = Cleared
  BY <1>3 DEF Cleared, Requesting
<1>9. uds'.state = "CONNECTING" =>
        timers'["connect_try"] + timers'["p2"] > 0 \/ dropped'
  <2>1. timers["p2"] \in Nat /\ timers["connect_try"] \in Nat
    BY <1>1, <1>2 DEF Pool
  <2>2. ~Exhausted(timers) => again["connect_try"] + again["p2"] > 0
    BY <1>4, <2>1
  <2>3. uds'.state = "CONNECTING" => timers' = again /\ dropped' = Exhausted(timers)
    BY <1>1, <1>3 DEF Idle, UdsRecord
  <2> QED
    BY <2>2, <2>3
<1>10. request' \in {request, "error", "reported twice"}
  BY <1>3 DEF Report
<1>11. initialized' = initialized /\ connection' = connection
  BY DEF uds_error
<1> QED
  BY <1>6, <1>7, <1>8, <1>9, <1>10, <1>11

LEMMA SendErrorAlways ==
  ASSUME Always, send_error
  PROVE  Always'
<1>1. uds_error
  BY DEF send_error
<1>2. /\ ~sending' /\ sending' \in BOOLEAN /\ asked' = FALSE
      /\ leftover' = leftover \ {"sending"} /\ session' \in {session, "lapsed"}
      /\ receiving' = receiving /\ confused' = confused
  BY DEF send_error
<1>3. TypeOK'
  BY <1>1, <1>2, ErrorAlways, TypedNext DEF Always, TypeOK
<1>4. WaitsDriven'
  BY <1>1, <1>2, ErrorAlways DEF WaitsDriven
<1>5. SessionTimer' /\ Ordered'
  BY <1>1, <1>2, ErrorAlways DEF Always, SessionTimer, Ordered
<1> QED
  BY <1>3, <1>4, <1>5 DEF Always

LEMMA ReceiveErrorAlways ==
  ASSUME Always, receive_error
  PROVE  Always'
<1>1. uds_error
  BY DEF receive_error
<1>2. /\ receiving' \in BOOLEAN /\ asked' \in {FALSE, asked}
      /\ leftover' \in {leftover, leftover \ {"receiving", "overflow"},
                        leftover \cup {"receiving", "overflow"}}
      /\ sending' = sending /\ session' = session
      /\ confused' \in BOOLEAN
      /\ ~receiving /\ receiving' => initialized
  BY DEF receive_error, TakenForAnswer, Expected
<1>3. TypeOK'
  BY <1>1, <1>2, ErrorAlways, TypedNext DEF Always, TypeOK
<1>4. WaitsDriven'
  BY <1>1, <1>2, ErrorAlways DEF WaitsDriven
<1>5. SessionTimer'
  BY <1>1, <1>2, ErrorAlways DEF Always, SessionTimer
<1>6. Ordered'
  BY <1>1, <1>2, ErrorAlways DEF Always, Ordered
<1> QED
  BY <1>3, <1>4, <1>5, <1>6 DEF Always

LEMMA ReceiveFfAlways ==
  ASSUME Always, uds_receive_ff
  PROVE  Always'
<1>1. uds \in UdsRecord /\ timers \in Pool
  BY DEF Always, TypeOK, Pool
<1>2. /\ initialized /\ receiving' = TRUE /\ asked' = FALSE
      /\ leftover' \in {leftover, leftover \cup {"receiving"}}
      /\ confused' \in BOOLEAN
      /\ UNCHANGED <<initialized, sending, connection, request, session, dropped>>
  BY DEF uds_receive_ff, TakenForAnswer, Expected, told, timeouts
<1>3. \/ uds.state = "IDLE" /\ uds' = uds /\ timers' = timers
      \/ /\ timers' = AnswerTimerStopped
         /\ uds' = [uds EXCEPT !.state = "WAIT_SEGMENTED_RESPONSE"]
  BY DEF uds_receive_ff, timeouts
<1>4. AnswerTimerStopped \in Pool /\ AnswerTimerStopped["s3"] = timers["s3"]
  BY AnswerTimer DEF Always
<1>5. timers' \in Pool /\ timers'["s3"] = timers["s3"]
  BY <1>1, <1>3, <1>4
<1>6. /\ uds' \in UdsRecord
      /\ uds'.is_connected = uds.is_connected /\ uds'.connect_cb = uds.connect_cb
      /\ uds'.state \in {"IDLE", "WAIT_SEGMENTED_RESPONSE"}
  BY <1>1, <1>3 DEF UdsRecord, UdsState
<1>7. TypeOK'
  BY <1>2, <1>5, <1>6, TypedNext DEF Always, TypeOK
<1>8. WaitsDriven'
  BY <1>2, <1>6 DEF WaitsDriven
<1>9. SessionTimer' /\ Ordered'
  BY <1>2, <1>5, <1>6 DEF Always, SessionTimer, Ordered
<1> QED
  BY <1>7, <1>8, <1>9 DEF Always

LEMMA ReceiveAlways ==
  ASSUME Always, NEW response \in Response, uds_receive(response)
  PROVE  Always'
<1>1. uds \in UdsRecord /\ timers \in Pool
  BY DEF Always, TypeOK, Pool
<1>2. /\ initialized /\ ~receiving' /\ receiving' \in BOOLEAN /\ asked' = FALSE
      /\ leftover' = leftover \ {"receiving"}
      /\ confused' \in BOOLEAN
      /\ UNCHANGED <<initialized, sending, session>>
  BY DEF uds_receive, TakenForAnswer, Expected, Always, Ordered
<1> DEFINE quiet == IF uds.state = "CONNECTING" THEN Stopped(timers, "p2")
                                               ELSE AnswerTimerStopped
<1>3. "s3" \in Timer /\ "p2" \in Timer /\ "p2_star" \in Timer
  BY DEF Timer
<1>4. quiet \in Pool /\ quiet["s3"] = timers["s3"]
  BY <1>1, <1>3, AnswerTimer, StoppedTimer DEF Always
<1> DEFINE prolonged == Started(quiet, "p2_star")
<1>5. \/ uds.state = "IDLE" /\ uds' = uds /\ timers' = timers /\ dropped' = dropped
      \/ /\ uds.state = "CONNECTING" /\ timers' = quiet /\ dropped' = dropped
         /\ uds' = [Idle EXCEPT !.is_connected = @ \/ response = "positive"]
      \/ /\ uds.state \in Requesting /\ timers' = prolonged
         /\ dropped' = Exhausted(quiet)
         /\ uds' = [uds EXCEPT !.state = "RESPONSE_PENDING"]
      \/ /\ uds.state \in Requesting /\ uds' = Idle /\ timers' = quiet
         /\ dropped' = dropped
  BY DEF uds_receive, timeouts
<1>6. /\ connection' \in {connection, "connected", "failed", "reported twice", "no callback"}
      /\ request' \in {request, "answered", "reported twice"}
  BY DEF uds_receive, told, ConnectReport, Report
<1> HIDE DEF quiet
<1>7. /\ prolonged \in Pool /\ prolonged["s3"] = timers["s3"]
      /\ ~Exhausted(quiet) => prolonged["p2_star"] > 0
  <2>1. quiet["p2_star"] \in Nat
    BY <1>3, <1>4 DEF Pool
  <2> QED
    BY <1>3, <1>4, <2>1, StartedTimer
<1> HIDE DEF prolonged
<1>8. timers' \in Pool /\ timers'["s3"] = timers["s3"] /\ dropped' \in BOOLEAN
  <2>1. Exhausted(quiet) \in BOOLEAN
    BY DEF Exhausted
  <2>2. dropped \in BOOLEAN
    BY DEF Always, TypeOK
  <2> QED
    BY <1>1, <1>4, <1>5, <1>7, <2>1, <2>2
<1>9. /\ uds' \in UdsRecord
      /\ uds.is_connected => uds'.is_connected
      /\ \/ uds'.state = "IDLE"
         \/ /\ uds'.state = "RESPONSE_PENDING" /\ timers' = prolonged
            /\ dropped' = Exhausted(quiet)
  BY <1>1, <1>5 DEF Idle, UdsRecord, UdsState
<1>10. TypeOK'
  BY <1>2, <1>6, <1>8, <1>9, TypedNext DEF Always, TypeOK
<1>11. WaitsDriven'
  BY <1>7, <1>9 DEF WaitsDriven
<1>12. SessionTimer' /\ Ordered'
  BY <1>2, <1>8, <1>9 DEF Always, SessionTimer, Ordered
<1> QED
  BY <1>10, <1>11, <1>12 DEF Always

LEMMA AlwaysUnchanged ==
  ASSUME Always, UNCHANGED vars
  PROVE  Always'
<1>1. TypeOK'
  <2>1. /\ initialized' = initialized /\ uds' = uds /\ timers' = timers
        /\ dropped' = dropped /\ sending' = sending /\ receiving' = receiving
        /\ connection' = connection /\ request' = request /\ asked' = asked
        /\ leftover' = leftover /\ confused' = confused /\ session' = session
    BY DEF vars, timeouts, told
  <2>2. timers' \in Pool /\ uds' \in UdsRecord
    BY <2>1 DEF Always, TypeOK, Pool
  <2>3. /\ dropped' \in BOOLEAN /\ sending' \in BOOLEAN /\ receiving' \in BOOLEAN
        /\ asked' \in BOOLEAN /\ confused' \in BOOLEAN
    BY <2>1 DEF Always, TypeOK
  <2>4. connection' \in {connection, "connected", "failed", "reported twice",
                         "no callback"}
    BY <2>1
  <2>5. request' \in {request, "open", "silent", "answered", "sent", "error",
                      "reported twice"}
    BY <2>1
  <2>6. leftover' \subseteq leftover \cup {"receiving", "overflow"}
    BY <2>1
  <2>7. session' \in {session, "kept", "lapsed"}
    BY <2>1
  <2>8. TypeOK
    BY DEF Always
  <2> QED
    BY <2>1, <2>2, <2>3, <2>4, <2>5, <2>6, <2>7, <2>8, TypedNext
<1>2. WaitsDriven'
  BY DEF vars, timeouts, told, Always, WaitsDriven
<1>3. SessionTimer' /\ Ordered'
  BY DEF vars, timeouts, told, Always, SessionTimer, Ordered
<1> QED
  BY <1>1, <1>2, <1>3 DEF Always

(* Every step of every client preserves it.                                 *)
LEMMA AlwaysInductive ==
  ASSUME UDS_KEEP_SESSION, Always, [Next]_vars
  PROVE  Always'
<1>1. CASE UNCHANGED vars
  BY <1>1, AlwaysUnchanged
<1>2. CASE Step
  <2>1. CASE Application
    BY <2>1, InitAlways, DeinitAlways, ConnectAlways, DisconnectAlways, RequestAlways
       DEF Application
  <2>2. CASE lwcan_timeouts_handler
    BY <2>2, ConnectTryAlways, S3Always, P2Always, P2StarAlways
       DEF lwcan_timeouts_handler
  <2>3. CASE Connection
    BY <2>3, SentAlways, SendErrorAlways, ReceiveErrorAlways, ReceiveFfAlways,
       ReceiveAlways DEF Connection
  <2> QED
    BY <1>2, <2>1, <2>2, <2>3 DEF Step
<1> QED
  BY <1>1, <1>2 DEF Next
-----------------------------------------------------------------------------
(* The actions of a client that is not confused preserve the invariant.     *)

(* A client that was not initialised has nothing under way.                 *)
LEMMA Initially == Init => Inv
<1> SUFFICES ASSUME Init PROVE Inv
  OBVIOUS
<1>2. Always
  BY AlwaysInitially
<1>3. AnsweredOnce
  BY DEF Init, AnsweredOnce, Cleared, Requesting, Stuck, Timer
<1>4. ReportedOnce
  BY DEF Init, ReportedOnce, Cleared, Requesting, Stuck, Timer
<1>5. TimersMatchState
  BY DEF Init, TimersMatchState, Cleared, Requesting, Stuck, Timer
<1>6. IdleIsQuiet
  BY DEF Init, IdleIsQuiet, Cleared, Requesting, Stuck, Timer
<1>7. SessionKept
  BY DEF Init, SessionKept, Cleared, Requesting, Stuck, Timer
<1>8. Consistent
  BY DEF Init, Consistent, Cleared, Requesting, Stuck, Timer
<1> QED
  BY <1>2, <1>3, <1>4, <1>5, <1>6, <1>7, <1>8 DEF Inv

(* The timeouts of a client that is not confused, one by one.              *)
LEMMA TimerBounds ==
  ASSUME Inv, ~confused
  PROVE  /\ timers \in [Timer -> Nat] /\ timers \in Pool /\ ~dropped
         /\ uds.state # "IDLE" => initialized
         /\ timers["s3"] <= 1 /\ timers["p2"] <= 1
         /\ timers["p2_star"] <= 1 /\ timers["connect_try"] <= 1
         /\ timers["p2_star"] = 1 <=> uds.state = "RESPONSE_PENDING"
         /\ timers["connect_try"] = 1 => uds.state = "CONNECTING" /\ ~sending
         /\ timers["p2"] = 1 => \/ uds.state = "WAIT_RESPONSE"
                                \/ uds.state = "CONNECTING" /\ ~sending
         /\ timers["p2"] + timers["connect_try"] <= 1
         /\ timers["s3"] = 1 => uds.is_connected /\ initialized
<1>1. timers \in [Timer -> Nat] /\ timers \in Pool
  BY DEF Inv, Always, TypeOK, Pool
<1>2. TimersMatchState
  BY DEF Inv
<1>3. /\ timers["s3"] \in Nat /\ timers["p2"] \in Nat
      /\ timers["p2_star"] \in Nat /\ timers["connect_try"] \in Nat
  BY <1>1 DEF Timer
<1>4. timers["s3"] <= 1 /\ (timers["s3"] = 1 => uds.is_connected /\ initialized)
  BY <1>2 DEF TimersMatchState
<1>5. /\ timers["p2_star"] <= 1
      /\ timers["p2_star"] = 1 <=> uds.state = "RESPONSE_PENDING"
  BY <1>2 DEF TimersMatchState
<1>6. /\ timers["connect_try"] <= 1 /\ timers["p2"] <= 1
      /\ timers["p2"] + timers["connect_try"] <= 1
  BY <1>2, <1>3 DEF TimersMatchState
<1>7. timers["connect_try"] = 1 => uds.state = "CONNECTING" /\ ~sending
  BY <1>2, <1>3 DEF TimersMatchState
<1>8. timers["p2"] = 1 => \/ uds.state = "WAIT_RESPONSE"
                          \/ uds.state = "CONNECTING" /\ ~sending
  BY <1>2, <1>3 DEF TimersMatchState
<1>9. ~dropped
  BY <1>2 DEF TimersMatchState
<1>10. uds.state # "IDLE" => initialized
  BY DEF Inv, Consistent
<1> QED
  BY <1>1, <1>4, <1>5, <1>6, <1>7, <1>8, <1>9, <1>10

(* Initialisation clears the client, which had nothing under way.           *)
LEMMA InitStep ==
  ASSUME Inv, ~confused, uds_client_init
  PROVE  Inv'
<1>2. Always'
  BY InitAlways DEF Inv
<1>3. AnsweredOnce'
  BY <1>2 DEF Inv, Always, AnsweredOnce, Requesting, Stuck, Consistent, TypeOK,
        UdsRecord, uds_client_init, Cleared, told, timeouts
<1>4. ReportedOnce'
  BY <1>2 DEF Inv, Always, ReportedOnce, Consistent, AnsweredOnce, Requesting,
        TypeOK, UdsRecord, uds_client_init, Cleared, told, timeouts
<1>5. TimersMatchState'
  BY <1>2 DEF Always, SessionTimer, Inv, TimersMatchState, Consistent, AnsweredOnce, Requesting,
        TypeOK, UdsRecord, uds_client_init, Cleared, told, timeouts
<1>6. IdleIsQuiet'
  BY DEF Inv, Always, IdleIsQuiet, Consistent, uds_client_init, Cleared, told, timeouts
<1>7. SessionKept'
  BY <1>2 DEF Inv, Always, SessionKept, Consistent, AnsweredOnce, Requesting, TypeOK,
        UdsRecord, uds_client_init, Cleared, told, timeouts
<1>8. Consistent'
  BY DEF Inv, Always, Consistent, Requesting, uds_client_init, Cleared, told, timeouts
<1> QED
  BY <1>2, <1>3, <1>4, <1>5, <1>6, <1>7, <1>8 DEF Inv

(* Deinitialisation stops S3, the only timeout an idle client can have.     *)
LEMMA DeinitStep ==
  ASSUME Inv, ~confused, uds_client_deinit
  PROVE  Inv'
<1>2. timers \in [Timer -> Nat] /\ timers["s3"] <= 1
  BY TimerBounds
<1>3. ~uds.is_connected => timers["s3"] = 0
  BY <1>2, TimerBounds DEF Timer
<1>4. \/ timers' = Stopped(timers, "s3")
      \/ timers' = timers /\ ~uds.is_connected
  BY DEF uds_client_deinit
<1>5. /\ timers' \in [Timer -> Nat]
      /\ timers'["s3"] = 0
      /\ timers'["p2"] = timers["p2"] /\ timers'["p2_star"] = timers["p2_star"]
      /\ timers'["connect_try"] = timers["connect_try"]
  BY <1>2, <1>3, <1>4 DEF Timer, Stopped
<1>6. Always'
  BY DeinitAlways DEF Inv
<1>7. AnsweredOnce'
  BY <1>5 DEF Inv, Always, AnsweredOnce, Requesting, Stuck, uds_client_deinit,
        Cleared, told, timeouts
<1>8. ReportedOnce'
  BY <1>5 DEF Inv, Always, ReportedOnce, uds_client_deinit, Cleared, told, timeouts
<1>9. TimersMatchState'
  BY <1>5, <1>6 DEF Always, SessionTimer, Inv, TimersMatchState, uds_client_deinit, Cleared, told, timeouts
<1>10. IdleIsQuiet'
  BY <1>5 DEF Inv, Always, IdleIsQuiet, Consistent, uds_client_deinit, Cleared, told, timeouts
<1>11. SessionKept'
  BY <1>5 DEF Inv, Always, SessionKept, uds_client_deinit, Cleared, told, timeouts
<1>12. Consistent'
  BY <1>5 DEF Inv, Always, Consistent, Requesting, uds_client_deinit, Cleared, told, timeouts
<1> QED
  BY <1>6, <1>7, <1>8, <1>9, <1>10, <1>11, <1>12 DEF Inv

(* A client that connects starts its attempts, or stays idle.               *)
LEMMA ConnectStep ==
  ASSUME Inv, ~confused, Settings, uds_client_connect
  PROVE  Inv'
<1>4. Always'
  BY ConnectAlways DEF Inv
<1>5. AnsweredOnce'
  BY DEF Inv, Always, AnsweredOnce, Requesting, Stuck, TypeOK, UdsRecord,
        uds_client_connect, Settings, CanSend, SendFails
<1>6. ReportedOnce'
  BY DEF Inv, Always, ReportedOnce, TypeOK, UdsRecord, uds_client_connect,
        Settings, CanSend, SendFails
<1>7. TimersMatchState'
  BY <1>4 DEF Always, SessionTimer, Inv, TimersMatchState, TypeOK, UdsRecord, uds_client_connect,
        Settings, CanSend, SendFails
<1>8. IdleIsQuiet'
  BY DEF Inv, Always, IdleIsQuiet, Consistent, TypeOK, UdsRecord, uds_client_connect,
        Settings, CanSend, SendFails
<1>9. SessionKept'
  BY DEF Inv, Always, SessionKept, uds_client_connect, Settings, CanSend, SendFails
<1>10. Consistent'
  BY DEF Inv, Always, Consistent, Requesting, TypeOK, UdsRecord, uds_client_connect,
        Settings, CanSend, SendFails
<1> QED
  BY <1>4, <1>5, <1>6, <1>7, <1>8, <1>9, <1>10 DEF Inv

(* Disconnecting stops every timeout and interrupts what is under way.      *)
LEMMA DisconnectStep ==
  ASSUME Inv, ~confused, uds_client_disconnect
  PROVE  Inv'
<1>1. uds \in UdsRecord /\ timers \in [Timer -> Nat]
  BY DEF Inv, Always, TypeOK
<1>3. /\ timers["p2"] <= 1 /\ timers["p2_star"] <= 1 /\ timers["s3"] <= 1
      /\ timers["connect_try"] = 0
  BY <1>1, TimerBounds DEF Inv, Always, Consistent, uds_client_disconnect, Timer
<1> DEFINE once  == Stopped(timers, "p2")
           twice == Stopped(once, "p2_star")
<1>4. /\ once \in [Timer -> Nat]
      /\ once["p2"] = 0 /\ once["p2_star"] <= 1 /\ once["s3"] <= 1
      /\ once["connect_try"] = 0
  BY <1>1, <1>3 DEF Timer, Stopped
<1> HIDE DEF once
<1>5. /\ twice \in [Timer -> Nat]
      /\ twice["p2"] = 0 /\ twice["p2_star"] = 0 /\ twice["s3"] <= 1
      /\ twice["connect_try"] = 0
  BY <1>4 DEF Timer, Stopped
<1>6. timers' = Stopped(twice, "s3")
  BY DEF uds_client_disconnect, once
<1> HIDE DEF twice
<1>7. /\ timers' \in [Timer -> Nat]
      /\ timers'["p2"] = 0 /\ timers'["p2_star"] = 0 /\ timers'["s3"] = 0
      /\ timers'["connect_try"] = 0
  BY <1>5, <1>6 DEF Timer, Stopped
<1>8. uds'.state = "IDLE"
  BY <1>1 DEF uds_client_disconnect, UdsRecord
<1>9. Always'
  BY DisconnectAlways DEF Inv
<1>10. AnsweredOnce'
  BY <1>7 DEF Inv, Always, AnsweredOnce, Requesting, Stuck, TypeOK, UdsRecord,
        uds_client_disconnect
<1>11. ReportedOnce'
  BY <1>7 DEF Inv, Always, ReportedOnce, TypeOK, UdsRecord,
        uds_client_disconnect
<1>12. TimersMatchState'
  <2>1. dropped' = dropped /\ confused' = confused /\ ~dropped
    BY TimerBounds DEF uds_client_disconnect
  <2> QED
    BY <1>7, <1>8, <1>9, <2>1 DEF Always, SessionTimer, TimersMatchState
<1>13. IdleIsQuiet'
  BY <1>7 DEF Inv, Always, IdleIsQuiet, Consistent, uds_client_disconnect
<1>14. SessionKept'
  BY <1>7 DEF Inv, Always, SessionKept, uds_client_disconnect
<1>15. Consistent'
  BY <1>7 DEF Inv, Always, Consistent, Requesting, uds_client_disconnect
<1> QED
  BY <1>9, <1>10, <1>11, <1>12, <1>13, <1>14, <1>15 DEF Inv

(* A request is sent, or refused: the client is Stuck then.                 *)
LEMMA RequestStep ==
  ASSUME Inv, ~confused, NEW with_response \in BOOLEAN,
         uds_send_request(with_response)
  PROVE  Inv'
<1>2. Always'
  BY RequestAlways DEF Inv
<1>3. AnsweredOnce'
  BY <1>2 DEF Inv, Always, AnsweredOnce, Requesting, Stuck, Consistent, TypeOK,
        UdsRecord, uds_send_request, Requested, RequestTaken, RequestRefused,
        CanSend, SendFails
<1>4. ReportedOnce'
  BY DEF Inv, Always, ReportedOnce, TypeOK, UdsRecord, uds_send_request,
        Requested, RequestTaken, RequestRefused, CanSend, SendFails
<1>5. TimersMatchState'
  BY <1>2 DEF Always, SessionTimer, Inv, TimersMatchState, TypeOK, UdsRecord, uds_send_request,
        Requested, RequestTaken, RequestRefused, CanSend, SendFails
<1>6. IdleIsQuiet'
  BY DEF Inv, Always, IdleIsQuiet, Consistent, TypeOK, UdsRecord, uds_send_request,
        Requested, RequestTaken, RequestRefused, CanSend, SendFails
<1>7. SessionKept'
  BY DEF Inv, Always, SessionKept, uds_send_request, Requested, RequestTaken,
        RequestRefused, CanSend, SendFails
<1>8. Consistent'
  BY DEF Inv, Always, Consistent, Requesting, TypeOK, UdsRecord, uds_send_request,
        Requested, RequestTaken, RequestRefused, CanSend, SendFails
<1> QED
  BY <1>2, <1>3, <1>4, <1>5, <1>6, <1>7, <1>8 DEF Inv

(* connect_try runs only while the client connects and nothing is being     *)
(* sent.                                                                    *)
LEMMA ConnectTryStep ==
  ASSUME Inv, ~confused, connect_try
  PROVE  Inv'
<1>1. uds \in UdsRecord /\ timers \in [Timer -> Nat]
  BY DEF Inv, Always, TypeOK
<1>2. /\ uds.state = "CONNECTING" /\ ~sending
      /\ timers["connect_try"] = 1 /\ timers["p2"] = 0
  BY <1>1, TimerBounds DEF connect_try, Timer
<1>3. /\ timers' \in [Timer -> Nat]
      /\ timers'["p2"] = 0 /\ timers'["connect_try"] = 0
      /\ timers'["p2_star"] = timers["p2_star"] /\ timers'["s3"] = timers["s3"]
  BY <1>1, <1>2 DEF connect_try, Timer, Stopped
<1>4. ~uds.is_connected /\ connection = "pending"
  BY <1>2 DEF Inv, Always, Consistent, ReportedOnce
<1>6. \/ uds'.state = "CONNECTING" /\ sending'
      \/ uds'.state = "IDLE"
  BY <1>1, <1>2, <1>4 DEF connect_try, ConnectTry, AttemptsUsedUp, UdsRecord
<1>7. timers["s3"] = 0 /\ timers["p2_star"] = 0
  BY <1>1, <1>2, <1>4, TimerBounds DEF Timer
<1>8. Always'
  BY ConnectTryAlways DEF Inv
<1>9. AnsweredOnce'
  BY <1>2, <1>3, <1>4 DEF Inv, Always, AnsweredOnce, Requesting, Stuck, TypeOK,
        UdsRecord, connect_try, ConnectTry, ConnectReport, AttemptsUsedUp,
        CanSend, SendFails
<1>10. ReportedOnce'
  <2>1. uds.connect_cb
    BY <1>2 DEF Inv, Always, Ordered
  <2>2. confused' = confused
    BY DEF connect_try
  <2>3. \/ uds'.state = "CONNECTING" /\ connection' = connection
        \/ uds'.state = "IDLE" /\ connection' = "failed"
    BY <1>1, <1>2, <1>4, <2>1
       DEF connect_try, ConnectTry, ConnectReport, UdsRecord
  <2> QED
    BY <1>4, <2>2, <2>3 DEF ReportedOnce
<1>11. TimersMatchState'
  <2>1. dropped' = dropped /\ ~dropped
    BY TimerBounds DEF connect_try
  <2> QED
    BY <1>3, <1>6, <1>7, <1>8, <2>1 DEF Always, SessionTimer, TimersMatchState
<1>12. IdleIsQuiet'
  BY <1>2, <1>3, <1>4 DEF Inv, Always, IdleIsQuiet, Consistent, TypeOK, UdsRecord,
        connect_try, ConnectTry, ConnectReport, AttemptsUsedUp, CanSend,
        SendFails
<1>13. SessionKept'
  BY <1>2, <1>3, <1>4 DEF Inv, Always, SessionKept, connect_try, ConnectTry,
        ConnectReport, AttemptsUsedUp, CanSend, SendFails
<1>14. Consistent'
  BY <1>2, <1>3, <1>4 DEF Inv, Always, Consistent, Requesting, TypeOK, UdsRecord,
        connect_try, ConnectTry, ConnectReport, AttemptsUsedUp, CanSend,
        SendFails
<1> QED
  BY <1>8, <1>9, <1>10, <1>11, <1>12, <1>13, <1>14 DEF Inv

(* S3 sends its request, or lets the session lapse.                         *)
LEMMA S3Step ==
  ASSUME Inv, ~confused, Settings, s3_timer_handler
  PROVE  Inv'
<1>1. uds \in UdsRecord /\ timers \in [Timer -> Nat] /\ UDS_KEEP_SESSION
  BY DEF Inv, Always, TypeOK, Settings
<1>2. timers["s3"] = 1
  BY <1>1, TimerBounds DEF s3_timer_handler, Timer
<1>3. /\ timers' \in [Timer -> Nat]
      /\ timers'["s3"] = 0 /\ timers'["p2"] = timers["p2"]
      /\ timers'["p2_star"] = timers["p2_star"]
      /\ timers'["connect_try"] = timers["connect_try"]
  BY <1>1, <1>2 DEF s3_timer_handler, Timer, Stopped
<1>5. \/ /\ uds.state = "IDLE" /\ uds'.state = "SENDING_REQUEST"
         /\ sending' /\ request' = "silent" /\ session' = session
      \/ /\ uds.state = "IDLE" /\ uds'.state = "SENDING_REQUEST" /\ ~sending
         /\ sending' = sending /\ request' = request /\ session' = "lapsed"
      \/ /\ uds' = uds /\ sending' = sending /\ request' = request
         /\ \/ session' = "lapsed"
            \/ session' = session /\ uds.state = "SENDING_REQUEST" /\ sending
  BY <1>1 DEF Inv, Always, Consistent, s3_timer_handler, Requested, RequestTaken,
     RequestRefused, CanSend, UdsRecord
<1>6. confused' = confused
  BY DEF s3_timer_handler
<1>7. Always'
  BY S3Always DEF Inv, Settings, Settings, Settings, Settings
<1>8. AnsweredOnce'
  BY <1>5, <1>6 DEF Inv, Always, AnsweredOnce, Requesting, Stuck
<1>9. ReportedOnce'
  BY <1>1, <1>2, <1>3 DEF Inv, Always, ReportedOnce, TypeOK, UdsRecord,
        s3_timer_handler, Requested, RequestTaken, RequestRefused, CanSend,
        SendFails
<1>10. TimersMatchState'
  BY <1>7, <1>1, <1>2, <1>3 DEF Always, SessionTimer, Inv, TimersMatchState, Consistent,
        AnsweredOnce, Requesting, TypeOK, UdsRecord, s3_timer_handler,
        Requested, RequestTaken, RequestRefused, CanSend, SendFails
<1>11. IdleIsQuiet'
  BY <1>1, <1>2, <1>3 DEF Inv, Always, IdleIsQuiet, Consistent, TypeOK, UdsRecord,
        s3_timer_handler, Requested, RequestTaken, RequestRefused, CanSend,
        SendFails
<1>12. SessionKept'
  BY <1>3, <1>5, <1>6 DEF Inv, Always, SessionKept
<1>13. Consistent'
  <2>1. /\ asked' = asked /\ receiving' = receiving /\ leftover' = leftover
        /\ initialized' = initialized
    BY DEF s3_timer_handler
  <2>2. initialized /\ uds.is_connected
    BY <1>2, TimerBounds
  <2>3. uds'.is_connected = uds.is_connected
    BY <1>1 DEF s3_timer_handler, Requested, UdsRecord
  <2>4. uds'.state = "SENDING_REQUEST" /\ sending' =>
          \/ uds'.with_response = FALSE /\ request' = "silent"
          \/ uds' = uds /\ sending' = sending /\ request' = request
    <3>1. CASE /\ uds.is_connected /\ uds.state = "IDLE"
               /\ Requested(FALSE) /\ (RequestTaken(FALSE) \/ RequestRefused)
      <4>1. uds'.with_response = FALSE
        BY <1>1, <3>1 DEF Requested, UdsRecord
      <4>2. CASE RequestTaken(FALSE)
        BY <4>1, <4>2 DEF RequestTaken
      <4>3. CASE RequestRefused
        BY <1>5, <4>1
      <4> QED
        BY <3>1, <4>2, <4>3
    <3>2. CASE UNCHANGED <<uds, dropped, sending, request>>
      BY <3>2
    <3> QED
      BY <1>1, <3>1, <3>2 DEF s3_timer_handler
  <2> QED
    BY <1>3, <1>5, <1>6, <2>1, <2>2, <2>3, <2>4 DEF Inv, Consistent, Requesting
<1> QED
  BY <1>7, <1>8, <1>9, <1>10, <1>11, <1>12, <1>13 DEF Inv

(* P2 expires in the two states that wait for it.                           *)
LEMMA P2Step ==
  ASSUME Inv, ~confused, p2_timer_handler
  PROVE  Inv'
<1>1. uds \in UdsRecord /\ timers \in [Timer -> Nat]
  BY DEF Inv, Always, TypeOK
<1>2. /\ timers["p2"] = 1 /\ timers["connect_try"] = 0
      /\ \/ uds.state = "WAIT_RESPONSE"
         \/ uds.state = "CONNECTING" /\ ~sending
  BY <1>1, TimerBounds DEF p2_timer_handler, Timer
<1> DEFINE quiet == Stopped(timers, "p2")
<1>3. /\ quiet \in Pool /\ ~Exhausted(quiet)
      /\ quiet["p2"] = 0 /\ quiet["connect_try"] = 0
      /\ quiet["p2_star"] = timers["p2_star"] /\ quiet["s3"] = timers["s3"]
  BY <1>2, TimerBounds, StoppedTimer DEF Timer
<1>4. \/ /\ uds.state = "CONNECTING" /\ timers' = Started(quiet, "connect_try")
      \/ uds.state # "CONNECTING" /\ timers' = quiet
  BY DEF p2_timer_handler
<1> HIDE DEF quiet
<1>5. /\ timers'["p2"] = 0
      /\ timers'["connect_try"] = (IF uds.state = "CONNECTING" THEN 1 ELSE 0)
      /\ timers'["p2_star"] = timers["p2_star"] /\ timers'["s3"] = timers["s3"]
  BY <1>3, <1>4, StartedTimer DEF Timer
<1>7. uds'.state = IF uds.state = "CONNECTING" THEN "CONNECTING" ELSE "IDLE"
  BY <1>1 DEF p2_timer_handler, Idle, UdsRecord
<1>8. /\ uds'.is_connected = uds.is_connected /\ initialized' = initialized
      /\ sending' = sending
  BY <1>1 DEF p2_timer_handler, Idle, UdsRecord
<1>9. timers["p2_star"] = 0
  BY <1>1, <1>2, TimerBounds DEF Timer
<1>10. Always'
  BY P2Always DEF Inv
<1>11. AnsweredOnce'
  BY <1>2, <1>5, TimerBounds DEF Inv, AnsweredOnce, Requesting, Stuck, Always,
        TypeOK, UdsRecord, p2_timer_handler, Idle, Report
<1>12. ReportedOnce'
  BY <1>2, <1>5 DEF Inv, Always, ReportedOnce, TypeOK, UdsRecord,
        p2_timer_handler, Idle, Report
<1>13. TimersMatchState'
  <2>1. dropped' = dropped /\ ~dropped
    BY TimerBounds DEF p2_timer_handler
  <2> QED
    BY <1>2, <1>5, <1>7, <1>8, <1>9, <1>10, <2>1 DEF Always, SessionTimer, TimersMatchState
<1>14. IdleIsQuiet'
  BY <1>2, <1>5 DEF Inv, Always, IdleIsQuiet, Consistent, p2_timer_handler, Idle,
        Report
<1>15. SessionKept'
  BY <1>2, <1>5 DEF Inv, Always, SessionKept, p2_timer_handler, Idle, Report
<1>16. Consistent'
  BY <1>2, <1>5 DEF Inv, Always, Consistent, Requesting, TypeOK, UdsRecord,
        p2_timer_handler, Idle, Report
<1> QED
  BY <1>10, <1>11, <1>12, <1>13, <1>14, <1>15, <1>16 DEF Inv

(* Once the request is sent, the timeout of the next state runs, and S3.    *)
LEMMA SentStep ==
  ASSUME Inv, ~confused, uds_sent
  PROVE  Inv'
<1>1. uds \in UdsRecord /\ timers \in [Timer -> Nat] /\ timers["s3"] <= 1
  BY TimerBounds DEF Inv, Always, TypeOK
<1>2. timers["p2"] = 0 /\ timers["connect_try"] = 0 /\ timers["p2_star"] = 0
  BY <1>1, TimerBounds DEF Inv, Always, Consistent, uds_sent, Timer
<1> DEFINE answered == Started(timers, "p2")
<1>3. /\ answered \in Pool /\ ~Exhausted(timers)
      /\ answered["p2"] = 1 /\ answered["s3"] = timers["s3"]
      /\ answered["connect_try"] = 0 /\ answered["p2_star"] = 0
  <2>1. timers \in Pool /\ timers["s3"] \in Nat
    BY <1>1, TimerBounds DEF Timer
  <2>2. ~Exhausted(timers)
    BY <1>1, <1>2, <2>1, RoomLeft
  <2> QED
    BY <1>1, <1>2, <2>1, <2>2, StartedTimer DEF Timer
<1> HIDE DEF answered
<1>4. \A ts \in {timers, answered} :
        /\ SessionTimerRestarted(ts)["s3"] = 1
        /\ \A t \in Timer \ {"s3"} : SessionTimerRestarted(ts)[t] = ts[t]
  <2> TAKE ts \in {timers, answered}
  <2>1. ts \in Pool /\ ts["s3"] \in {0, 1} /\ ts["p2"] \in {0, 1}
        /\ ts["connect_try"] = 0 /\ ts["p2_star"] = 0
    BY <1>1, <1>2, <1>3, TimerBounds DEF Timer
  <2>2. Stopped(ts, "s3") \in Pool
        /\ Stopped(ts, "s3")["s3"] = 0 /\ Stopped(ts, "s3")["p2"] = ts["p2"]
        /\ Stopped(ts, "s3")["connect_try"] = 0 /\ Stopped(ts, "s3")["p2_star"] = 0
    BY <2>1, StoppedTimer DEF Timer
  <2>3. ~Exhausted(Stopped(ts, "s3"))
    BY <2>1, <2>2, RoomLeft
  <2> QED
    BY <2>1, <2>3, RestartedTimer
<1>5. \/ /\ uds.state = "CONNECTING" /\ uds' = uds
         /\ timers' = answered /\ dropped' = Exhausted(timers)
      \/ /\ uds.state = "SENDING_REQUEST" /\ uds'.state = "WAIT_RESPONSE"
         /\ timers' = SessionTimerRestarted(answered) /\ dropped' = Exhausted(timers)
         /\ uds'.is_connected = uds.is_connected
      \/ /\ uds.state = "SENDING_REQUEST" /\ uds'.state = "IDLE"
         /\ timers' = SessionTimerRestarted(timers) /\ dropped' = dropped
         /\ uds'.is_connected = uds.is_connected
      \/ /\ uds.state = "IDLE" /\ uds' = uds /\ timers' = timers /\ dropped' = dropped
  BY <1>1 DEF uds_sent, Idle, UdsRecord, Inv, Consistent, answered, timeouts
<1>8. /\ timers'["p2"] = (IF uds'.state \in {"CONNECTING", "WAIT_RESPONSE"} THEN 1 ELSE 0)
      /\ timers'["connect_try"] = 0 /\ timers'["p2_star"] = 0
      /\ timers'["s3"] = (IF uds.state = "SENDING_REQUEST" THEN 1 ELSE timers["s3"])
      /\ ~dropped'
  BY <1>1, <1>2, <1>3, <1>4, <1>5, TimerBounds DEF Timer
<1>6. uds.state = "SENDING_REQUEST" => uds.is_connected /\ initialized
  BY <1>1 DEF Inv, Always, Consistent, Requesting
<1>7. initialized' = initialized /\ confused' = confused /\ ~sending'
  BY DEF uds_sent
<1>9. Always'
  BY SentAlways DEF Inv
<1>10. AnsweredOnce'
  BY <1>8, <1>5 DEF Inv, Always, AnsweredOnce, Requesting, Stuck, TypeOK, UdsRecord,
        uds_sent, Idle
<1>11. ReportedOnce'
  BY <1>8, <1>5 DEF Inv, Always, ReportedOnce, uds_sent, Idle
<1>12. TimersMatchState'
  BY <1>5, <1>6, <1>7, <1>8, <1>9 DEF Always, SessionTimer, TimersMatchState
<1>13. IdleIsQuiet'
  BY <1>8, <1>5 DEF Inv, Always, IdleIsQuiet, Consistent, uds_sent, Idle
<1>14. SessionKept'
  BY <1>8, <1>5 DEF Inv, Always, SessionKept, uds_sent, Idle
<1>15. Consistent'
  BY <1>8, <1>5 DEF Inv, Always, Consistent, Requesting, TypeOK, UdsRecord, uds_sent,
        Idle
<1> QED
  BY <1>9, <1>10, <1>11, <1>12, <1>13, <1>14, <1>15 DEF Inv

(* P2* expires only in the state that waits for it.                         *)
LEMMA P2StarStep ==
  ASSUME Inv, ~confused, p2_star_timer_handler
  PROVE  Inv'
<1>1. uds \in UdsRecord /\ timers \in [Timer -> Nat]
  BY DEF Inv, Always, TypeOK
<1>2. timers["p2_star"] = 1 /\ uds.state = "RESPONSE_PENDING"
  BY <1>1, TimerBounds DEF p2_star_timer_handler, Timer
<1>3. /\ timers' \in [Timer -> Nat]
      /\ timers'["p2_star"] = 0 /\ timers'["p2"] = timers["p2"]
      /\ timers'["s3"] = timers["s3"]
      /\ timers'["connect_try"] = timers["connect_try"]
  BY <1>1, <1>2 DEF p2_star_timer_handler, Timer, Stopped
<1>5. Always'
  BY P2StarAlways DEF Inv
<1>6. AnsweredOnce'
  BY <1>2, <1>3, TimerBounds DEF Inv, Always, AnsweredOnce, Requesting, Stuck, TypeOK,
        UdsRecord, p2_star_timer_handler, Idle, Report
<1>7. ReportedOnce'
  BY <1>2, <1>3 DEF Inv, Always, ReportedOnce, TypeOK, UdsRecord,
        p2_star_timer_handler, Idle, Report
<1>8. TimersMatchState'
  BY <1>2, <1>3, <1>5 DEF Always, SessionTimer, Inv, TimersMatchState, TypeOK, UdsRecord,
        p2_star_timer_handler, Idle, Report
<1>9. IdleIsQuiet'
  BY <1>2, <1>3 DEF Inv, Always, IdleIsQuiet, Consistent, p2_star_timer_handler, Idle,
        Report
<1>10. SessionKept'
  BY <1>2, <1>3 DEF Inv, Always, SessionKept, p2_star_timer_handler, Idle, Report
<1>11. Consistent'
  BY <1>2, <1>3 DEF Inv, Always, Consistent, Requesting, p2_star_timer_handler, Idle,
        Report
<1> QED
  BY <1>5, <1>6, <1>7, <1>8, <1>9, <1>10, <1>11 DEF Inv

(* A connection that gives up ends what was being sent.                     *)
LEMMA SendErrorStep ==
  ASSUME Inv, ~confused, send_error
  PROVE  Inv'
<1>1. uds \in UdsRecord /\ timers \in [Timer -> Nat]
  BY DEF Inv, Always, TypeOK
<1>2. timers["p2"] = 0 /\ timers["connect_try"] = 0 /\ timers["p2_star"] = 0
  BY <1>1, TimerBounds DEF Inv, Always, Consistent, send_error, Timer
<1>3. uds.state \in {"CONNECTING", "IDLE", "SENDING_REQUEST"}
  BY DEF Inv, Always, Consistent, send_error
<1>4. /\ uds'.state = (IF uds.state = "CONNECTING" THEN "CONNECTING" ELSE "IDLE")
      /\ uds'.is_connected = uds.is_connected
      /\ initialized' = initialized /\ confused' = confused /\ ~sending'
  BY <1>1, <1>3 DEF send_error, uds_error, Idle, UdsRecord, Requesting
<1>5. \/ /\ uds.state = "CONNECTING" /\ timers' = Started(timers, "connect_try")
         /\ dropped' = Exhausted(timers)
      \/ uds.state # "CONNECTING" /\ timers' = timers /\ dropped' = dropped
  BY <1>3 DEF send_error, uds_error, AnswerTimerStopped, Requesting, timeouts
<1>6. /\ timers'["connect_try"] = (IF uds.state = "CONNECTING" THEN 1 ELSE 0)
      /\ timers'["p2"] = 0 /\ timers'["p2_star"] = 0
      /\ timers'["s3"] = timers["s3"] /\ ~dropped'
  <2>1. timers \in Pool /\ timers["s3"] <= 1 /\ ~dropped
    BY TimerBounds
  <2>3. timers["s3"] \in Nat
    BY <1>1 DEF Timer
  <2>2. ~Exhausted(timers)
    BY <1>2, <2>1, <2>3, RoomLeft
  <2> QED
    BY <1>2, <1>5, <2>1, <2>2, StartedTimer DEF Timer
<1>8. Always'
  BY SendErrorAlways DEF Inv
<1>9. AnsweredOnce'
  BY <1>3, <1>4, <1>6, TimerBounds DEF Inv, AnsweredOnce, Requesting, Stuck,
        send_error, uds_error, Idle, Report
<1>10. ReportedOnce'
  BY <1>3, <1>4, <1>6 DEF Inv, Always, ReportedOnce, send_error, uds_error,
        Idle, Report
<1>11. TimersMatchState'
  BY <1>4, <1>6, <1>8 DEF Always, SessionTimer, TimersMatchState
<1>12. IdleIsQuiet'
  BY <1>3, <1>4, <1>6 DEF Inv, Always, IdleIsQuiet, Consistent, send_error, uds_error,
        Idle, Report
<1>13. SessionKept'
  BY <1>8, <1>3, <1>4, <1>6 DEF Inv, Always, Consistent, AnsweredOnce,
        ReportedOnce, TimersMatchState, SessionKept, Requesting, Stuck,
        Timer, TypeOK, UdsRecord, send_error, uds_error, Idle, Report
<1>14. Consistent'
  BY <1>3, <1>4 DEF Inv, Always, Consistent, Requesting, send_error
<1> QED
  BY <1>8, <1>9, <1>10, <1>11, <1>12, <1>13, <1>14 DEF Inv

(* A reception that fails ends what waits for it, or confuses the client.   *)
LEMMA ReceiveErrorStep ==
  ASSUME Inv, ~confused, receive_error
  PROVE  Inv'
<1>1. uds \in UdsRecord /\ timers \in [Timer -> Nat]
  BY DEF Inv, Always, TypeOK
<1>2. /\ uds'.state = (IF uds.state = "CONNECTING" THEN "CONNECTING" ELSE "IDLE")
      /\ uds'.is_connected = uds.is_connected
      /\ uds'.with_response = uds.with_response
      /\ initialized' = initialized /\ sending' = sending
  BY <1>1 DEF receive_error, uds_error, Idle, UdsRecord, UdsState, Requesting
<1>4. ~confused' => uds.state \in {"IDLE", "WAIT_RESPONSE", "RESPONSE_PENDING",
                                   "WAIT_SEGMENTED_RESPONSE"}
  <2>1. timers["p2"] + timers["p2_star"] > 0
          => uds.state \in {"CONNECTING", "WAIT_RESPONSE", "RESPONSE_PENDING"}
    BY <1>1, TimerBounds DEF Timer
  <2> QED
    BY <2>1 DEF receive_error, TakenForAnswer, Answer, Awaited
<1>5. ~confused' => /\ timers'["p2"] = 0 /\ timers'["p2_star"] = 0
                    /\ timers'["connect_try"] = 0 /\ timers'["s3"] = timers["s3"]
                    /\ ~dropped'
  <2> SUFFICES ASSUME ~confused'
               PROVE  /\ timers'["p2"] = 0 /\ timers'["p2_star"] = 0
                      /\ timers'["connect_try"] = 0 /\ timers'["s3"] = timers["s3"]
                      /\ ~dropped'
    OBVIOUS
  <2>1. timers' = AnswerTimerStopped /\ dropped' = dropped /\ ~dropped
    BY <1>4, TimerBounds DEF receive_error, uds_error, AnswerTimerStopped, timeouts
  <2>2. /\ timers["p2"] = (IF uds.state = "WAIT_RESPONSE" THEN 1 ELSE 0)
        /\ timers["p2_star"] = (IF uds.state = "RESPONSE_PENDING" THEN 1 ELSE 0)
        /\ timers["connect_try"] = 0
    <3>1. timers["p2"] \in Nat /\ timers["connect_try"] \in Nat
      BY <1>1 DEF Timer
    <3> QED
      BY <1>4, <3>1, TimerBounds DEF Inv, Always, TimersMatchState
  <2> QED
    BY <2>1, <2>2, AnswerTimer DEF Inv, Always
<1>6. ~confused' /\ uds.state # "IDLE" => request = "open" /\ request' = "error"
  BY <1>4, TimerBounds DEF Inv, Consistent, receive_error, uds_error, Report, Requesting
<1>8. /\ receiving' \in BOOLEAN
      /\ \/ ~receiving' /\ leftover' = leftover \ {"receiving", "overflow"}
         \/ ~receiving' /\ ~receiving /\ leftover' = leftover
         \/ receiving' /\ leftover' = leftover \cup {"receiving", "overflow"}
  BY DEF receive_error
<1>9. confused' \in BOOLEAN
  BY DEF receive_error, TakenForAnswer
<1>10. request' \in {request, "error", "reported twice"} /\ connection' = connection
  BY DEF receive_error, uds_error, Report
<1>11. session' = session
  BY DEF receive_error
<1>12. Always'
  BY ReceiveErrorAlways DEF Inv
<1>13. AnsweredOnce'
  BY <1>2, <1>4, <1>5, <1>6, <1>8, <1>9, <1>10, <1>11 DEF Inv,
        AnsweredOnce, Requesting, Stuck, receive_error, uds_error
<1>14. ReportedOnce'
  BY <1>2, <1>4, <1>5, <1>6, <1>8, <1>9, <1>10, <1>11 DEF Inv,
        ReportedOnce, receive_error, uds_error
<1>15. TimersMatchState'
  BY <1>2, <1>4, <1>5, <1>12 DEF Always, SessionTimer, TimersMatchState
<1>16. IdleIsQuiet'
  BY <1>2, <1>4, <1>8 DEF Inv, Always, Consistent, Requesting, IdleIsQuiet
<1>17. SessionKept'
  BY <1>2, <1>4, <1>5, <1>6, <1>8, <1>9, <1>10, <1>11 DEF Inv,
        SessionKept, receive_error, uds_error
<1>18. Consistent'
  BY <1>2, <1>4, <1>8 DEF Inv, Always, Consistent, Requesting
<1> QED
  BY <1>12, <1>13, <1>14, <1>15, <1>16, <1>17, <1>18 DEF Inv

(* A segmented answer replaces the timeout that waited for it.              *)
LEMMA ReceiveFfStep ==
  ASSUME Inv, ~confused, uds_receive_ff
  PROVE  Inv'
<1>1. uds \in UdsRecord /\ timers \in [Timer -> Nat]
  BY DEF Inv, Always, TypeOK
<1>2. Awaited => uds.state \in {"CONNECTING", "WAIT_RESPONSE", "RESPONSE_PENDING"}
  BY <1>1, TimerBounds DEF Awaited, Timer
<1>3. \/ uds.state = "IDLE" /\ uds' = uds /\ timers' = timers
      \/ /\ uds.state # "IDLE" /\ timers' = AnswerTimerStopped
         /\ uds'.state = "WAIT_SEGMENTED_RESPONSE"
         /\ uds'.is_connected = uds.is_connected
         /\ uds'.with_response = uds.with_response
  BY <1>1 DEF uds_receive_ff, UdsRecord, timeouts
<1>5. ~confused' => \/ uds.state = "IDLE" /\ uds' = uds /\ timers' = timers
                    \/ uds.state \in {"WAIT_RESPONSE", "RESPONSE_PENDING"}
  BY <1>2, <1>3 DEF uds_receive_ff, TakenForAnswer, Answer
<1>6. ~confused' /\ uds.state # "IDLE" =>
        /\ timers'["p2"] = 0 /\ timers'["p2_star"] = 0
        /\ timers'["connect_try"] = 0 /\ timers'["s3"] = timers["s3"]
  <2> SUFFICES ASSUME ~confused', uds.state # "IDLE"
               PROVE  /\ timers'["p2"] = 0 /\ timers'["p2_star"] = 0
                      /\ timers'["connect_try"] = 0 /\ timers'["s3"] = timers["s3"]
    OBVIOUS
  <2>1. /\ timers["p2"] = (IF uds.state = "WAIT_RESPONSE" THEN 1 ELSE 0)
        /\ timers["p2_star"] = (IF uds.state = "RESPONSE_PENDING" THEN 1 ELSE 0)
        /\ timers["connect_try"] = 0
    <3>1. timers["p2"] \in Nat /\ timers["connect_try"] \in Nat
      BY <1>1 DEF Timer
    <3> QED
      BY <1>5, <3>1, TimerBounds DEF Inv, Always, TimersMatchState
  <2> QED
    BY <1>3, <2>1, AnswerTimer DEF Inv, Always
<1>7. /\ receiving' /\ receiving' \in BOOLEAN
      /\ sending' = sending /\ initialized' = initialized
      /\ connection' = connection /\ request' = request /\ session' = session
      /\ leftover' = IF uds.state = "IDLE" THEN leftover \cup {"receiving"}
                                          ELSE leftover
  BY DEF uds_receive_ff, told, timeouts
<1>8. confused' \in BOOLEAN
  BY DEF uds_receive_ff, TakenForAnswer
<1>10. Always'
  BY ReceiveFfAlways DEF Inv
<1>11. AnsweredOnce'
  BY <1>3, <1>5, <1>6, <1>7, <1>8 DEF Inv, Always, AnsweredOnce, Requesting,
        Stuck
<1>12. ReportedOnce'
  BY <1>3, <1>5, <1>6, <1>7, <1>8 DEF Inv, Always, ReportedOnce
<1>13. TimersMatchState'
  <2>1. dropped' = dropped /\ ~dropped
    BY TimerBounds DEF uds_receive_ff, timeouts
  <2>2. CASE uds.state = "IDLE"
    BY <1>3, <1>7, <1>10, <2>1, <2>2 DEF Inv, Always, SessionTimer, TimersMatchState
  <2>3. CASE uds.state # "IDLE"
    BY <1>3, <1>6, <1>7, <1>10, <2>1, <2>3 DEF Always, SessionTimer, TimersMatchState
  <2> QED
    BY <2>2, <2>3
<1>14. IdleIsQuiet'
  BY <1>3, <1>5, <1>6, <1>7, <1>8 DEF Inv, Always, IdleIsQuiet, Consistent
<1>15. SessionKept'
  BY <1>3, <1>5, <1>6, <1>7, <1>8 DEF Inv, Always, SessionKept
<1>16. Consistent'
  BY <1>3, <1>5, <1>7 DEF Inv, Always, Consistent, Requesting
<1> QED
  BY <1>10, <1>11, <1>12, <1>13, <1>14, <1>15, <1>16 DEF Inv

(* An answer ends what waits for it, or starts P2*.                         *)
LEMMA ReceiveStep ==
  ASSUME Inv, ~confused, NEW response \in Response, uds_receive(response)
  PROVE  Inv'
<1>1. uds \in UdsRecord /\ timers \in [Timer -> Nat]
  BY DEF Inv, Always, TypeOK
<1>2. Awaited => uds.state \in {"CONNECTING", "WAIT_RESPONSE", "RESPONSE_PENDING"}
  BY <1>1, TimerBounds DEF Awaited, Timer
<1> DEFINE quiet == IF uds.state = "CONNECTING" THEN Stopped(timers, "p2")
                                               ELSE AnswerTimerStopped
<1>3. quiet \in Pool
  BY TimerBounds, AnswerTimer, StoppedTimer DEF Inv, Always, Timer
<1>4. \/ /\ uds.state = "IDLE" /\ uds' = uds /\ timers' = timers
         /\ connection' = connection /\ request' = request /\ dropped' = dropped
      \/ /\ uds.state = "CONNECTING" /\ uds'.state = "IDLE" /\ timers' = quiet
         /\ ConnectReport(IF response = "positive" THEN "connected" ELSE "failed")
         /\ request' = request /\ dropped' = dropped
      \/ /\ uds.state \in Requesting /\ uds'.state = "RESPONSE_PENDING"
         /\ uds'.is_connected = uds.is_connected
         /\ timers' = Started(quiet, "p2_star") /\ dropped' = Exhausted(quiet)
         /\ connection' = connection /\ request' = request
      \/ /\ uds.state \in Requesting /\ uds'.state = "IDLE" /\ timers' = quiet
         /\ uds'.is_connected = uds.is_connected
         /\ Report("answered") /\ connection' = connection /\ dropped' = dropped
  BY <1>1 DEF uds_receive, told, timeouts, Idle, UdsRecord
<1>5. /\ sending' = sending /\ initialized' = initialized /\ session' = session
      /\ ~receiving' /\ receiving' \in BOOLEAN /\ leftover' = leftover \ {"receiving"}
      /\ confused' \in BOOLEAN
  BY DEF uds_receive, TakenForAnswer
<1>6. ~confused' => \/ uds.state = "IDLE"
                    \/ uds.state = "CONNECTING" /\ Awaited
                    \/ uds.state \in {"WAIT_RESPONSE", "RESPONSE_PENDING",
                                     "WAIT_SEGMENTED_RESPONSE"}
  BY <1>2 DEF uds_receive, TakenForAnswer, Answer
<1>7. ~confused' /\ uds.state # "IDLE" =>
        /\ quiet["p2"] = 0 /\ quiet["p2_star"] = 0
        /\ quiet["connect_try"] = 0 /\ quiet["s3"] = timers["s3"]
  <2> SUFFICES ASSUME ~confused', uds.state # "IDLE"
               PROVE  /\ quiet["p2"] = 0 /\ quiet["p2_star"] = 0
                      /\ quiet["connect_try"] = 0 /\ quiet["s3"] = timers["s3"]
    OBVIOUS
  <2>1. /\ timers["p2"] \in Nat /\ timers["connect_try"] \in Nat
        /\ timers["p2_star"] \in Nat
    BY <1>1 DEF Timer
  <2>2. timers["connect_try"] = 0
    <3>1. CASE uds.state = "CONNECTING"
      BY <1>6, <3>1 DEF Awaited, Inv, Consistent
    <3>2. CASE uds.state # "CONNECTING"
      BY <2>1, <3>2, TimerBounds
    <3> QED
      BY <3>1, <3>2
  <2>3. timers["p2_star"] = (IF uds.state = "RESPONSE_PENDING" THEN 1 ELSE 0)
    BY <2>1, TimerBounds
  <2>4. timers["p2"] <= 1 /\ (timers["p2"] = 1 => uds.state \in {"WAIT_RESPONSE", "CONNECTING"})
    BY <2>1, TimerBounds
  <2>5. CASE uds.state = "CONNECTING"
    <3>1. quiet = Stopped(timers, "p2")
      BY <2>5
    <3> QED
      BY <2>1, <2>2, <2>3, <2>4, <2>5, <3>1, TimerBounds, StoppedTimer DEF Timer
  <2>6. CASE uds.state # "CONNECTING"
    <3>1. quiet = AnswerTimerStopped
      BY <2>6
    <3> QED
      BY <1>6, <2>1, <2>2, <2>3, <2>4, <2>6, <3>1, AnswerTimer DEF Inv, Always
  <2> QED
    BY <2>5, <2>6
<1> HIDE DEF quiet
<1>8. ~confused' /\ uds.state # "IDLE" => ~Exhausted(quiet)
  <2>1. timers["s3"] <= 1
    BY TimerBounds
  <2>2. timers["s3"] \in Nat
    BY <1>1 DEF Timer
  <2> QED
    BY <1>3, <1>7, <2>1, <2>2, RoomLeft
<1>9. ~confused' /\ uds.state # "IDLE" =>
        /\ timers'["p2"] = 0 /\ timers'["connect_try"] = 0
        /\ timers'["p2_star"] = (IF uds'.state = "RESPONSE_PENDING" THEN 1 ELSE 0)
        /\ timers'["s3"] = timers["s3"] /\ ~dropped'
  BY <1>3, <1>4, <1>7, <1>8, TimerBounds, StartedTimer DEF Timer
<1>10. ~confused' /\ uds.state # "IDLE" =>
         initialized /\ (uds.state = "CONNECTING" => ~sending)
  BY <1>6, TimerBounds DEF Awaited
<1>11. ~confused' /\ uds.state \in Requesting => request = "open"
  BY <1>6 DEF Inv, Always, Consistent, Requesting
<1>12. timers["s3"] = 1 => uds.is_connected /\ initialized
  BY TimerBounds
<1>13. uds.state = "CONNECTING" => timers["s3"] = 0
  BY <1>1, TimerBounds DEF Inv, Always, Consistent, Timer
<1>14. ~confused' => timers'["s3"] = timers["s3"]
  BY <1>4, <1>9 DEF Requesting
<1>15. ~confused' => uds.state # "SENDING_REQUEST"
  BY <1>6
<1>17. Always'
  BY ReceiveAlways DEF Inv
<1>18. AnsweredOnce'
  BY <1>4, <1>5, <1>6, <1>10, <1>11, <1>9 DEF Inv, Always, AnsweredOnce,
        Requesting, Stuck, ConnectReport, Report
<1>19. ReportedOnce'
  BY <1>4, <1>5, <1>6, <1>10 DEF Inv, Always, Ordered, ReportedOnce,
        Requesting, ConnectReport
<1>20. TimersMatchState'
  <2>1. CASE uds.state = "IDLE"
    BY <1>4, <1>5, <1>17, <2>1, TimerBounds DEF Inv, Always, SessionTimer, TimersMatchState,
       Requesting
  <2>2. CASE uds.state # "IDLE"
    BY <1>4, <1>5, <1>9, <1>17, <2>2 DEF Always, SessionTimer, TimersMatchState
  <2> QED
    BY <2>1, <2>2
<1>21. IdleIsQuiet'
  BY <1>4, <1>5, <1>6, <1>10, <1>11, <1>9 DEF Inv, Always, IdleIsQuiet,
        Consistent, ConnectReport, Report
<1>22. SessionKept'
  BY <1>5, <1>14, <1>15 DEF Inv, Always, SessionKept
<1>23. Consistent'
  BY <1>4, <1>5, <1>6, <1>10, <1>11 DEF Inv, Always, Consistent, Requesting
<1> QED
  BY <1>17, <1>18, <1>19, <1>20, <1>21, <1>22, <1>23 DEF Inv
-----------------------------------------------------------------------------
(* No action ends confusion.                                                *)
LEMMA ConfusedStays ==
  ASSUME confused, Step
  PROVE  confused'
<1>1. CASE Application
  BY <1>1 DEF Application, uds_client_init, uds_client_deinit, uds_client_connect,
     uds_client_disconnect, uds_send_request
<1>2. CASE lwcan_timeouts_handler
  BY <1>2 DEF lwcan_timeouts_handler, connect_try, s3_timer_handler,
     p2_timer_handler, p2_star_timer_handler
<1>3. CASE Connection
  BY <1>3 DEF Connection, uds_sent, send_error, receive_error, uds_receive_ff,
     uds_receive, TakenForAnswer
<1> QED
  BY <1>1, <1>2, <1>3 DEF Step

LEMMA Unchanged ==
  ASSUME Inv, UNCHANGED vars
  PROVE  Inv'
<1>1. Always'
  BY AlwaysUnchanged DEF Inv
<1>2. AnsweredOnce'
  BY DEF Inv, vars, timeouts, told, AnsweredOnce, Stuck
<1>3. ReportedOnce'
  BY DEF Inv, vars, timeouts, told, ReportedOnce
<1>4. TimersMatchState'
  BY DEF Inv, vars, timeouts, told, TimersMatchState
<1>5. IdleIsQuiet'
  BY DEF Inv, vars, timeouts, told, IdleIsQuiet
<1>6. SessionKept'
  BY DEF Inv, vars, timeouts, told, SessionKept
<1>7. Consistent'
  BY DEF Inv, vars, timeouts, told, Consistent
<1> QED
  BY <1>1, <1>2, <1>3, <1>4, <1>5, <1>6, <1>7 DEF Inv

(* A client that is confused keeps what holds of every client.              *)
LEMMA ConfusedStep ==
  ASSUME Settings, Inv, confused, Step
  PROVE  Inv'
<1>1. Always'
  BY AlwaysInductive DEF Settings, Inv, Next
<1>2. confused'
  BY ConfusedStays
<1>3. TimersMatchState'
  BY <1>1, <1>2 DEF Always, SessionTimer, TimersMatchState
<1> QED
  BY <1>1, <1>2, <1>3 DEF Inv, AnsweredOnce, ReportedOnce, IdleIsQuiet,
     SessionKept, Consistent

LEMMA Inductive ==
  ASSUME Settings, Inv, [Next]_vars
  PROVE  Inv'
<1>1. CASE UNCHANGED vars
  BY <1>1, Unchanged
<1>2. CASE Step /\ confused
  BY <1>2, ConfusedStep
<1>3. CASE Step /\ ~confused
  <2>1. CASE Application
    BY <1>3, <2>1, InitStep, DeinitStep, ConnectStep, DisconnectStep, RequestStep
       DEF Application
  <2>2. CASE lwcan_timeouts_handler
    BY <1>3, <2>2, ConnectTryStep, S3Step, P2Step, P2StarStep
       DEF lwcan_timeouts_handler
  <2>3. CASE Connection
    BY <1>3, <2>3, SentStep, SendErrorStep, ReceiveErrorStep, ReceiveFfStep,
       ReceiveStep DEF Connection
  <2> QED
    BY <1>3, <2>1, <2>2, <2>3 DEF Step
<1> QED
  BY <1>1, <1>2, <1>3 DEF Next

(* Each attempt uncounts one, connect starts with all, and a client that is  *)
(* not confused makes none when it is connected or has none left.           *)
LEMMA AttemptsStep ==
  ASSUME Settings, Inv, AttemptsCounted, [Next]_vars
  PROVE  AttemptsCounted'
<1>1. uds \in UdsRecord /\ uds.connect_try_num \in Nat
  <2>1. uds \in UdsRecord
    BY DEF Inv, Always, TypeOK
  <2> QED
    BY <2>1 DEF UdsRecord, Uint8
<1>2. CASE uds'.connect_try_num = uds.connect_try_num /\ (confused => confused')
  BY <1>2 DEF AttemptsCounted
<1>3. CASE uds' = Cleared
  BY <1>3, Numbers DEF Cleared, AttemptsCounted
<1>4. CASE uds_client_connect
  <2>1. uds'.connect_try_num = UDS_CONNECT_RETRY_NUM - 1
    BY <1>1, <1>4 DEF uds_client_connect, UdsRecord
  <2> QED
    BY <2>1, Numbers DEF AttemptsCounted
<1>5. CASE connect_try
  <2> SUFFICES ASSUME ~confused
               PROVE  uds'.connect_try_num < UDS_CONNECT_RETRY_NUM
    BY <1>5 DEF connect_try, AttemptsCounted
  <2>1. uds.state = "CONNECTING"
    <3>1. timers["connect_try"] = 1
      BY <1>5, TimerBounds DEF connect_try, Timer
    <3> QED
      BY <3>1, TimerBounds
  <2>2. ~uds.is_connected
    BY <2>1 DEF Inv, Consistent
  <2>3. uds.connect_try_num < UDS_CONNECT_RETRY_NUM
    BY DEF AttemptsCounted
  <2>4. CASE AttemptsUsedUp(uds)
    <3>1. uds'.connect_try_num = uds.connect_try_num
      BY <1>1, <1>5, <2>4 DEF connect_try, ConnectTry, UdsRecord
    <3> QED
      BY <2>3, <3>1
  <2>5. CASE ~AttemptsUsedUp(uds)
    <3>1. uds.connect_try_num > 0
      BY <1>1, <2>2, <2>5 DEF AttemptsUsedUp
    <3>2. uds.connect_try_num <= 255
      BY <1>1 DEF UdsRecord, Uint8
    <3>3. (uds.connect_try_num - 1) % 256 = uds.connect_try_num - 1
      BY <1>1, <3>1, <3>2
    <3>4. uds'.connect_try_num = (uds.connect_try_num - 1) % 256
      BY <1>1, <1>5, <2>5 DEF connect_try, ConnectTry, UdsRecord
    <3> QED
      BY <1>1, <2>3, <3>3, <3>4, Numbers
  <2> QED
    BY <2>4, <2>5
<1>6. CASE UNCHANGED vars
  BY <1>2, <1>6 DEF vars
<1>7. CASE Step /\ Application
  <2>1. CASE uds_client_init
    BY <1>3, <2>1 DEF uds_client_init
  <2>2. CASE uds_client_deinit
    BY <1>3, <2>2 DEF uds_client_deinit
  <2>3. CASE uds_client_disconnect
    BY <1>1, <1>2, <2>3 DEF uds_client_disconnect, UdsRecord
  <2>4. ASSUME NEW with_response \in BOOLEAN, uds_send_request(with_response)
        PROVE  AttemptsCounted'
    BY <1>1, <1>2, <2>4 DEF uds_send_request, Requested, UdsRecord
  <2> QED
    BY <1>4, <1>7, <2>1, <2>2, <2>3, <2>4 DEF Application
<1>8. CASE Step /\ lwcan_timeouts_handler
  <2>1. CASE s3_timer_handler
    BY <1>1, <1>2, <2>1 DEF s3_timer_handler, Requested, UdsRecord
  <2>2. CASE p2_timer_handler
    BY <1>1, <1>2, <2>2 DEF p2_timer_handler, Idle, UdsRecord
  <2>3. CASE p2_star_timer_handler
    BY <1>1, <1>2, <2>3 DEF p2_star_timer_handler, Idle, UdsRecord
  <2> QED
    BY <1>5, <1>8, <2>1, <2>2, <2>3 DEF lwcan_timeouts_handler
<1>9. CASE Step /\ Connection
  <2>1. confused => confused'
    BY <1>9, ConfusedStays
  <2>2. CASE uds_sent
    BY <1>1, <1>2, <2>1, <2>2 DEF uds_sent, Idle, UdsRecord
  <2>3. CASE send_error
    BY <1>1, <1>2, <2>1, <2>3 DEF send_error, uds_error, Idle, UdsRecord
  <2>4. CASE receive_error
    BY <1>1, <1>2, <2>1, <2>4 DEF receive_error, uds_error, Idle, UdsRecord
  <2>5. CASE uds_receive_ff
    BY <1>1, <1>2, <2>1, <2>5 DEF uds_receive_ff, timeouts, UdsRecord
  <2>6. ASSUME NEW response \in Response, uds_receive(response)
        PROVE  AttemptsCounted'
    BY <1>1, <1>2, <2>1, <2>6 DEF uds_receive, Idle, told, timeouts, UdsRecord
  <2> QED
    BY <1>9, <2>2, <2>3, <2>4, <2>5, <2>6 DEF Connection
<1> QED
  BY <1>6, <1>7, <1>8, <1>9 DEF Next, Step
-----------------------------------------------------------------------------
(* What holds of every client does in every reachable state.                *)
THEOREM AlwaysInvariance ==
  ASSUME UDS_KEEP_SESSION
  PROVE  Spec => []Always
<1>1. Init => Always
  BY AlwaysInitially
<1>2. Always /\ [Next]_vars => Always'
  BY AlwaysInductive
<1> QED
  BY <1>1, <1>2, PTL DEF Spec

(* So does the invariant of a client that is not confused.                  *)
THEOREM Invariance ==
  ASSUME Settings
  PROVE  Spec => []Inv
<1>1. Init => Inv
  BY Initially
<1>2. Inv /\ [Next]_vars => Inv'
  BY Inductive
<1> QED
  BY <1>1, <1>2, PTL DEF Spec

(* Every variable keeps its type, also of a client that took for an answer  *)
(* what was none (uds_client.c:219) or had no memory for the answer to       *)
(* connect (uds_client.c:296): the attempts left are eight bits, which may   *)
(* wrap then (uds_client.c:83), and no more timeouts are pending than the    *)
(* pool has chunks, since lwcan_timeout drops the next (timeouts.c:147).     *)
THEOREM TypeCorrect ==
  ASSUME UDS_KEEP_SESSION
  PROVE  Spec => []TypeOK
<1>1. Always => TypeOK
  BY DEF Always
<1> QED
  BY <1>1, AlwaysInvariance, PTL

(* No state of any client but the one a refused request leaves is without   *)
(* what ends it, also after the responses and the shortage that confuse the *)
(* client, unless the pool had no chunk for its timeout.                    *)
THEOREM NothingHangs ==
  ASSUME UDS_KEEP_SESSION
  PROVE  Spec => []WaitsDriven
<1>1. Always => WaitsDriven
  BY DEF Always
<1> QED
  BY <1>1, AlwaysInvariance, PTL

(* Every request has one result, over any order of errors, expiries and      *)
(* segmented answers, until a response comes that answers no request of the  *)
(* state it comes in or there is no memory for the answer to connect        *)
(* (uds_client.c:219, 296), the states AnsweredOnce excepts.                *)
THEOREM EachRequestAnswered ==
  ASSUME Settings
  PROVE  Spec => []AnsweredOnce
<1>1. Inv => AnsweredOnce
  BY DEF Inv
<1> QED
  BY <1>1, Invariance, PTL

(* Every connect comes to its end: it makes UDS_CONNECT_RETRY_NUM attempts   *)
(* at most and is reported once, with the same exceptions: a connect_try     *)
(* left over makes more, reports again and takes the count of those left     *)
(* below zero (uds_client.c:83).  With no exception nothing but connect_try  *)
(* reports to an application that does not wait.                            *)
THEOREM EachConnectEnds ==
  ASSUME Settings
  PROVE  Spec => []ConnectEnds
<1>1. Inv => ConnectReportedOnce
  BY DEF Inv, Always, Ordered, ReportedOnce, ConnectReportedOnce
<1>2. Init => AttemptsCounted
  BY Numbers DEF Init, Cleared, AttemptsCounted
<1>3. Inv /\ AttemptsCounted /\ [Next]_vars => AttemptsCounted'
  BY AttemptsStep
<1>4. ConnectReportedOnce /\ AttemptsCounted => ConnectEnds
  BY DEF ConnectEnds
<1> QED
  BY <1>1, <1>2, <1>3, <1>4, Invariance, PTL DEF Spec

(* S3 runs at most once and only in a session, of every client; P2, P2* and  *)
(* connect_try are pending exactly in the state that waits for them until a  *)
(* response comes that answers nothing (uds_client.c:229 leaves connect_try) *)
(* or there is no memory for the answer to connect (uds_client.c:296 leaves  *)
(* P2): then they do outlive it.  From the first request of a session on S3  *)
(* runs or is about to be started again, until the session lapses in one of  *)
(* the ways SessionKept names or the client is confused.                    *)
THEOREM TimersOfTheState ==
  ASSUME Settings
  PROVE  Spec => []TimersRight
<1>1. Inv => TimersRight
  BY DEF Inv, TimersRight
<1> QED
  BY <1>1, Invariance, PTL

(* The connection of an idle client that is not confused is quiet, but for   *)
(* what was interrupted and what nobody asked for.                          *)
THEOREM QuietWhenIdle ==
  ASSUME Settings
  PROVE  Spec => []IdleIsQuiet
<1>1. Inv => IdleIsQuiet
  BY DEF Inv
<1> QED
  BY <1>1, Invariance, PTL
=============================================================================
