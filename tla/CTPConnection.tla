---------------------------- MODULE CTPConnection ----------------------------
(***************************************************************************)
(* The pool of CTP connections: class CTPConnection and the part of        *)
(* CTPConnectionManager that starts, stops and restarts them               *)
(* (src/src/ctp_connection_manager.cpp), together with the external CTP    *)
(* API object and market-data front behind each connection.                *)
(*                                                                         *)
(* Who runs what: the callbacks On... of connection c run on the thread of *)
(* c's API object; stop, restart and start run on the health-check thread; *)
(* subscribe and unsubscribe run on any thread, through the dispatcher.    *)
(* What a callback then does in the dispatcher is in                       *)
(* SubscriptionDispatcher, which instantiates this module.                 *)
(*                                                                         *)
(* Abstracted: error_count_, connection_quality_ and the heartbeat clock.  *)
(* Where the code compares one of them with a threshold the model allows   *)
(* both outcomes.                                                          *)
(***************************************************************************)
EXTENDS Naturals, FiniteSets, Sequences

CONSTANTS
  Connections,        \* connection ids
  Instruments,        \* instrument ids
  MaxSubscriptions,   \* config_.max_subscriptions
  CallsMayFail        \* external: may calls of the CTP API return an error?

ASSUME MaxSubscriptionsAssumption == MaxSubscriptions \in Nat
ASSUME InstrumentsAssumption == IsFiniteSet(Instruments)
ASSUME CallsMayFailAssumption == CallsMayFail \in BOOLEAN

VARIABLES
  status,             \* status_
  subscribed,         \* subscribed_instruments_
  restarting,         \* how far the health thread is with restart() of c
  front,              \* external: c's API object and its session with the front
  requests,           \* external: requests of this session not yet answered
  feed                \* external: what the front streams in this session

connVars == <<status, subscribed, restarting, front, requests, feed>>

Statuses == {"DISCONNECTED", "CONNECTING", "CONNECTED", "LOGGED_IN", "ERROR"}

\* "none": no API object (ctp_api_ is null).  "down": no TCP session.
\* "connected": TCP session without login.  "login": login sent, not answered.
Fronts == {"none", "down", "connected", "login", "open"}

\* "chosen": the health check has read an unhealthy status.  "stopping": in
\* stop(), which holds api_mutex_.  "stopped": in the 2s sleep before start().
Phases == {"no", "chosen", "stopping", "stopped"}

Request == [op : {"sub", "unsub"}, ins : Instruments]

TypeOK ==
  /\ status \in [Connections -> Statuses]
  /\ subscribed \in [Connections -> SUBSET Instruments]
  /\ restarting \in [Connections -> Phases]
  /\ front \in [Connections -> Fronts]
  /\ requests \in [Connections -> Seq(Request)]
  /\ feed \in [Connections -> SUBSET Instruments]

-----------------------------------------------------------------------------
(* Start and restart *)

\* start_all_connections() has run: of each connection the API object was
\* created, or could not be.
Init ==
  /\ status \in [Connections -> {"CONNECTING", "ERROR"}]
  /\ CallsMayFail \/ \A c \in Connections : status[c] = "CONNECTING"
  /\ front = [c \in Connections |->
                IF status[c] = "CONNECTING" THEN "down" ELSE "none"]
  /\ subscribed = [c \in Connections |-> {}]
  /\ restarting = [c \in Connections |-> "no"]
  /\ requests = [c \in Connections |-> <<>>]
  /\ feed = [c \in Connections |-> {}]

\* Variant: only a lost session counts as unhealthy.
ChooseOnlyDisconnected(c) ==
  /\ \A d \in Connections : restarting[d] = "no"
  /\ status[c] = "DISCONNECTED"
  /\ restarting' = [restarting EXCEPT ![c] = "chosen"]
  /\ UNCHANGED <<status, subscribed, front, requests, feed>>

\* The health check reads an unhealthy status and decides to restart.  A
\* DISCONNECTED connection is restarted once error_count_ exceeds 5.
ChooseForRestart(c) ==
  /\ \A d \in Connections : restarting[d] = "no"
  /\ status[c] \in {"ERROR", "DISCONNECTED"}
  /\ restarting' = [restarting EXCEPT ![c] = "chosen"]
  /\ UNCHANGED <<status, subscribed, front, requests, feed>>

\* Variant: the set is cleared with the status, before the session is ended.
StopBeginClearing(c) ==
  /\ restarting[c] = "chosen"
  /\ status' = [status EXCEPT ![c] = "DISCONNECTED"]
  /\ restarting' = [restarting EXCEPT ![c] = "stopping"]
  /\ subscribed' = [subscribed EXCEPT ![c] = {}]
  /\ UNCHANGED <<front, requests, feed>>

\* Variant: stop() has a status of its own, which nothing else knows.
StopBeginOwnStatus(c) ==
  /\ restarting[c] = "chosen"
  /\ status' = [status EXCEPT ![c] = "STOPPED"]
  /\ restarting' = [restarting EXCEPT ![c] = "stopping"]
  /\ UNCHANGED <<subscribed, front, requests, feed>>

\* stop(), first part: the status is written, the API object still lives and
\* its thread still delivers callbacks.
StopBegin(c) ==
  /\ restarting[c] = "chosen"
  /\ status' = [status EXCEPT ![c] = "DISCONNECTED"]
  /\ restarting' = [restarting EXCEPT ![c] = "stopping"]
  /\ UNCHANGED <<subscribed, front, requests, feed>>

\* stop(), second part: Release() ends the API object and its thread.
StopEnd(c) ==
  /\ restarting[c] = "stopping"
  /\ front' = [front EXCEPT ![c] = "none"]
  /\ subscribed' = [subscribed EXCEPT ![c] = {}]
  /\ requests' = [requests EXCEPT ![c] = <<>>]
  /\ feed' = [feed EXCEPT ![c] = {}]
  /\ restarting' = [restarting EXCEPT ![c] = "stopped"]
  /\ UNCHANGED status

\* start(): refused unless DISCONNECTED; the API object may not be created.
Start(c) ==
  /\ restarting[c] = "stopped"
  /\ restarting' = [restarting EXCEPT ![c] = "no"]
  /\ \/ status[c] # "DISCONNECTED" /\ UNCHANGED <<status, front>>
     \/ /\ status[c] = "DISCONNECTED"
        /\ status' = [status EXCEPT ![c] = "CONNECTING"]
        /\ front' = [front EXCEPT ![c] = "down"]
     \/ /\ status[c] = "DISCONNECTED"
        /\ CallsMayFail
        /\ status' = [status EXCEPT ![c] = "ERROR"]
        /\ UNCHANGED front
  /\ UNCHANGED <<subscribed, requests, feed>>

-----------------------------------------------------------------------------
(* Session callbacks *)

\* OnFrontConnected() and the login() it calls.
OnFrontConnected(c) ==
  /\ front[c] = "down"
  /\ \/ /\ status' = [status EXCEPT ![c] = "CONNECTED"]
        /\ front' = [front EXCEPT ![c] = "login"]
     \/ /\ CallsMayFail
        /\ status' = [status EXCEPT ![c] = "ERROR"]
        /\ front' = [front EXCEPT ![c] = "connected"]
  /\ UNCHANGED <<subscribed, restarting, requests, feed>>

\* The session is lost, and with it what the front had not answered and what
\* it streamed.  subscribed_instruments_ is left as it was.
OnFrontDisconnected(c) ==
  /\ front[c] \in {"connected", "login", "open"}
  /\ status' = [status EXCEPT ![c] = "DISCONNECTED"]
  /\ front' = [front EXCEPT ![c] = "down"]
  /\ requests' = [requests EXCEPT ![c] = <<>>]
  /\ feed' = [feed EXCEPT ![c] = {}]
  /\ UNCHANGED <<subscribed, restarting>>

LoggedIn(c) ==
  /\ front[c] = "login"
  /\ status' = [status EXCEPT ![c] = "LOGGED_IN"]
  /\ front' = [front EXCEPT ![c] = "open"]
  /\ UNCHANGED <<subscribed, restarting, requests, feed>>

LoginRejected(c) ==
  /\ front[c] = "login"
  /\ status' = [status EXCEPT ![c] = "ERROR"]
  /\ front' = [front EXCEPT ![c] = "connected"]
  /\ UNCHANGED <<subscribed, restarting, requests, feed>>

\* OnRspError() when error_count_ has exceeded 10: handle_connection_error().
TooManyErrors(c) ==
  /\ front[c] \in {"connected", "login", "open"}
  /\ status' = [status EXCEPT ![c] = "ERROR"]
  /\ UNCHANGED <<subscribed, restarting, front, requests, feed>>

-----------------------------------------------------------------------------
(* Subscriptions *)

\* Variant: one place too many.
HasRoomOffByOne(c) == Cardinality(subscribed[c]) <= MaxSubscriptions

HasRoom(c) == Cardinality(subscribed[c]) < MaxSubscriptions

Available == {c \in Connections : status[c] = "LOGGED_IN" /\ HasRoom(c)}

Send(c, op, i) ==
  requests' = [requests EXCEPT ![c] = Append(@, [op |-> op, ins |-> i])]

\* Variant: the test for an instrument already subscribed is left out.
SubscribeAgain(c, i, ok) ==
  /\ restarting[c] # "stopping"
  /\ status[c] = "LOGGED_IN" /\ front[c] # "none" /\ ok
  /\ i \in subscribed[c] \/ HasRoom(c)
  /\ subscribed' = [subscribed EXCEPT ![c] = @ \cup {i}]
  /\ Send(c, "sub", i)
  /\ UNCHANGED <<status, restarting, front, feed>>

\* subscribe_instrument(): ok is what it returns.  A caller waits for
\* api_mutex_ while stop() holds it.  The call that reaches SubscribeMarketData
\* needs the API object: without one the process does not survive it.
SubscribeInstrument(c, i, ok) ==
  /\ restarting[c] # "stopping"
  /\ \/ /\ \/ status[c] # "LOGGED_IN"
           \/ i \notin subscribed[c] /\ ~HasRoom(c)
        /\ ~ok
        /\ UNCHANGED <<subscribed, requests>>
     \/ /\ status[c] = "LOGGED_IN"
        /\ i \in subscribed[c]
        /\ ok
        /\ UNCHANGED <<subscribed, requests>>
     \/ /\ status[c] = "LOGGED_IN"
        /\ i \notin subscribed[c]
        /\ HasRoom(c)
        /\ front[c] # "none"
        /\ \/ /\ ok
              /\ subscribed' = [subscribed EXCEPT ![c] = @ \cup {i}]
              /\ Send(c, "sub", i)
           \/ /\ ~ok
              /\ CallsMayFail
              /\ UNCHANGED <<subscribed, requests>>
  /\ UNCHANGED <<status, restarting, front, feed>>

\* Variant: the set is updated before the request is known to be sent.
UnsubscribeFirst(c, i) ==
  /\ restarting[c] # "stopping"
  /\ subscribed' = [subscribed EXCEPT ![c] = @ \ {i}]
  /\ \/ CallsMayFail /\ UNCHANGED requests
     \/ status[c] = "LOGGED_IN" /\ i \in subscribed[c] /\ Send(c, "unsub", i)
  /\ UNCHANGED <<status, restarting, front, feed>>

\* Variant: a subscription not yet answered is taken back in the set alone.
UnsubscribeAnswered(c, i) ==
  /\ restarting[c] # "stopping"
  /\ status[c] = "LOGGED_IN" /\ i \in subscribed[c]
  /\ subscribed' = [subscribed EXCEPT ![c] = @ \ {i}]
  /\ IF i \in feed[c] THEN Send(c, "unsub", i) ELSE UNCHANGED requests
  /\ UNCHANGED <<status, restarting, front, feed>>

\* unsubscribe_instrument(): the set changes only when the request was sent.
\* Its callers ignore what it returns.
UnsubscribeInstrument(c, i) ==
  /\ restarting[c] # "stopping"
  /\ \/ /\ \/ status[c] # "LOGGED_IN"
           \/ i \notin subscribed[c]
           \/ CallsMayFail
        /\ UNCHANGED <<subscribed, requests>>
     \/ /\ status[c] = "LOGGED_IN"
        /\ i \in subscribed[c]
        /\ front[c] # "none"
        /\ subscribed' = [subscribed EXCEPT ![c] = @ \ {i}]
        /\ Send(c, "unsub", i)
  /\ UNCHANGED <<status, restarting, front, feed>>

\* External: the front answers the oldest request of the session.
Answer(c, op, i, streams) ==
  /\ front[c] = "open"
  /\ requests[c] # <<>>
  /\ Head(requests[c]) = [op |-> op, ins |-> i]
  /\ requests' = [requests EXCEPT ![c] = Tail(@)]
  /\ feed' = [feed EXCEPT ![c] = streams]
  /\ UNCHANGED <<status, subscribed, restarting, front>>

Subscribed(c, i) == Answer(c, "sub", i, feed[c] \cup {i})
SubscribeRejected(c, i) == Answer(c, "sub", i, feed[c])
Unsubscribed(c, i) == Answer(c, "unsub", i, feed[c] \ {i})
UnsubscribeRejected(c, i) == Answer(c, "unsub", i, feed[c])

-----------------------------------------------------------------------------
(* The pool with any program above it: every thread may subscribe and      *)
(* unsubscribe at any time.                                                *)

Restart(c) ==
  \/ ChooseForRestart(c)
  \/ StopBegin(c)
  \/ StopEnd(c)
  \/ Start(c)

Session(c) ==
  \/ OnFrontConnected(c)
  \/ OnFrontDisconnected(c)
  \/ LoggedIn(c)
  \/ LoginRejected(c)
  \/ TooManyErrors(c)

Call(c, i) ==
  \/ \E ok \in BOOLEAN : SubscribeInstrument(c, i, ok)
  \/ UnsubscribeInstrument(c, i)

Response(c, i) ==
  \/ Subscribed(c, i)
  \/ SubscribeRejected(c, i)
  \/ Unsubscribed(c, i)
  \/ UnsubscribeRejected(c, i)

Next ==
  \E c \in Connections :
    \/ Restart(c)
    \/ Session(c)
    \/ \E i \in Instruments : Call(c, i) \/ Response(c, i)

Spec == Init /\ [][Next]_connVars

-----------------------------------------------------------------------------
(* Properties *)

\* subscribed_instruments_ never holds more than max_subscriptions, whichever
\* threads subscribe and whatever is answered, lost or restarted in between.
CapacityRespected ==
  \A c \in Connections : Cardinality(subscribed[c]) <= MaxSubscriptions

\* m follows n among the requests for one instrument, with none in between.
Consecutive(q, n, m) ==
  /\ n < m
  /\ q[n].ins = q[m].ins
  /\ \A k \in DOMAIN q : n < k /\ k < m => q[k].ins # q[n].ins

\* Among the requests q of one session those for an instrument alternate.
Alternates(q) ==
  \A n, m \in DOMAIN q : Consecutive(q, n, m) => q[n].op # q[m].op

\* On every session the unanswered requests for an instrument alternate: no
\* instrument is subscribed twice without an unsubscribe in between, and none
\* is unsubscribed twice ("already subscribed" and "not subscribed any more"
\* both return early).
RequestsAlternate == \A c \in Connections : Alternates(requests[c])

IsLast(q, n) == \A m \in DOMAIN q : n < m => q[m].ins # q[n].ins

\* Of every instrument in q the last request says whether it is in record.
Follows(record, q) ==
  \A n \in DOMAIN q :
    IsLast(q, n) => (q[n].op = "sub" <=> q[n].ins \in record)

\* The last request sent for an instrument and the record of subscribed
\* instruments tell the same story: the set is updated with the request, not
\* with its answer, and no other update may come between.
RecordFollowsRequests == \A c \in Connections : Follows(subscribed[c], requests[c])

\* i does not stream, or can still be stopped: it is recorded, or a request to
\* stop it is under way.
Stoppable(c, i) ==
  \/ i \notin feed[c]
  \/ i \in subscribed[c]
  \/ \E n \in DOMAIN requests[c] : requests[c][n] = [op |-> "unsub", ins |-> i]

\* Whatever is lost, restarted, refused or answered late, the program loses
\* its hold on a stream in one way only: the front refuses an unsubscribe
\* (OnRspUnSubMarketData logs the error and the record stays without it).
StreamsStayStoppable ==
  [][\A c \in Connections : \A i \in Instruments :
        Stoppable(c, i) /\ ~Stoppable(c, i)' => UnsubscribeRejected(c, i)]_connVars

\* "Instrument ... already subscribed on connection ..." is true when it is
\* logged (ctp_connection_manager.cpp:121): a recorded instrument is streamed,
\* or its request is still unanswered.
RecordedIsRequested ==
  \A c \in Connections : status[c] = "LOGGED_IN" =>
    \A i \in subscribed[c] :
      \/ i \in feed[c]
      \/ \E n \in DOMAIN requests[c] : requests[c][n].ins = i

\* Every request for i in this session of c has been answered.
Settled(c, i) == \A n \in DOMAIN requests[c] : requests[c][n].ins # i

\* Once its requests are answered, the front streams an instrument exactly when
\* the connection's record says so.
StreamsFollowRecord ==
  \A c \in Connections : \A i \in Instruments :
    Settled(c, i) => (i \in feed[c] <=> i \in subscribed[c])

\* No connection with something recorded loses its session, is given up for its
\* errors, or is stopped.
CarriersAreSpared ==
  \A c \in Connections : subscribed[c] # {} =>
    ~(OnFrontDisconnected(c) \/ TooManyErrors(c) \/ StopBegin(c))

\* A connection counts as LOGGED_IN only while its API object lives, so that
\* subscribe_instrument never reaches a null ctp_api_.
LoggedInHasApi ==
  \A c \in Connections : status[c] = "LOGGED_IN" => front[c] # "none"

=============================================================================
