---------------------- MODULE DispatcherUndisturbed_proofs ----------------------
(***************************************************************************)
(* Proofs about the dispatcher as long as nothing fails that carries       *)
(* something, for any number of sessions, connections and instruments: the *)
(* dispatcher's table, the records of the connections and the streams of   *)
(* the front then say the same.                                            *)
(***************************************************************************)
EXTENDS SubscriptionDispatcher_proofs

-----------------------------------------------------------------------------
(* The pool under an undisturbed dispatcher *)

\* What is assumed of the pool under the dispatcher is what its own theorem
\* assumes: no connection with something recorded is taken away.
LEMMA SparedIsSpared ==
  Pool!CarriersAreSpared => Proved!CarriersAreSpared
BY DEF Pool!CarriersAreSpared, Proved!CarriersAreSpared,
       Pool!OnFrontDisconnected, Proved!OnFrontDisconnected,
       Pool!TooManyErrors, Proved!TooManyErrors, Pool!StopBegin, Proved!StopBegin

LEMMA CarriersStayOpen ==
  Spec /\ [][Undisturbed]_vars => []Proved!CarriersAreOpen
<1>1. Proved!Spec /\ [][Proved!CarriersAreSpared]_Proved!connVars
        => []Proved!CarriersAreOpen
  BY PoolAssumption, FiniteInstruments, Proved!PoolCarriersStayOpen
<1>2. [Undisturbed]_vars => [Proved!CarriersAreSpared]_Proved!connVars
  BY SparedIsSpared DEF Undisturbed, vars, connVars, Proved!connVars
<1>3. QED
  BY <1>1, <1>2, DispatcherUsesPool, SamePool, PTL

-----------------------------------------------------------------------------
(* The record of a connection is what was assigned to it *)

\* A request to subscribe i is unanswered on c.
Asked(c, i) ==
  \E n \in DOMAIN requests[c] : requests[c][n] = [op |-> "sub", ins |-> i]

Served(c, i) == Live(i) /\ global_subscriptions[i].assigned = c

\* What fails while nothing is disturbed has failed for want of a connection.
FailedIsUnassigned ==
  \A i \in Instruments : global_subscriptions[i].status = "FAILED" =>
    global_subscriptions[i].assigned = NoConnection

SubscribingIsAsked ==
  \A i \in Instruments : global_subscriptions[i].status = "SUBSCRIBING" =>
    /\ global_subscriptions[i].assigned \in Connections
    /\ Asked(global_subscriptions[i].assigned, i)

RecordsInv == RecordsMatchAssignments /\ FailedIsUnassigned /\ SubscribingIsAsked

\* What the steps rely on besides.
Context ==
  /\ ~CallsMayFail
  /\ TypeOK /\ AgreementInv
  /\ Proved!CarriersAreOpen
  /\ ReportsAreFounded

\* A new request leaves the old ones where they are.
LEMMA SendingKeepsRequests ==
  ASSUME TypeOK, NEW c \in Connections, NEW op, NEW i, Pool!Send(c, op, i)
  PROVE  \A d \in Connections, j \in Instruments : Asked(d, j) => Asked(d, j)'
<1> SUFFICES ASSUME NEW d \in Connections, NEW j \in Instruments, Asked(d, j)
             PROVE  Asked(d, j)'
  OBVIOUS
<1>1. requests \in [Connections -> Seq(Pool!Request)]
  BY DEF TypeOK, Pool!TypeOK
<1>2. PICK n \in DOMAIN requests[d] : requests[d][n] = [op |-> "sub", ins |-> j]
  BY DEF Asked
<1>3. n \in DOMAIN requests'[d] /\ requests'[d][n] = requests[d][n]
  <2>1. requests[d] \in Seq(Pool!Request)
    BY <1>1
  <2>2. \/ requests'[d] = requests[d]
        \/ requests'[d] = Append(requests[d], [op |-> op, ins |-> i])
    BY <1>1 DEF Pool!Send
  <2>3. QED
    BY <2>1, <2>2
<1>4. QED
  BY <1>2, <1>3 DEF Asked

\* An answer removes the request it answers.
LEMMA AnswerKeepsRequests ==
  ASSUME TypeOK, NEW c \in Connections, NEW op, NEW i, NEW streams,
         Pool!Answer(c, op, i, streams)
  PROVE  \A d \in Connections, j \in Instruments :
           Asked(d, j) => Asked(d, j)' \/ (op = "sub" /\ j = i)
<1> SUFFICES ASSUME NEW d \in Connections, NEW j \in Instruments, Asked(d, j),
                    ~(op = "sub" /\ j = i)
             PROVE  Asked(d, j)'
  OBVIOUS
<1>1. requests \in [Connections -> Seq(Pool!Request)]
  BY DEF TypeOK, Pool!TypeOK
<1>2. PICK n \in DOMAIN requests[d] : requests[d][n] = [op |-> "sub", ins |-> j]
  BY DEF Asked
<1>3. CASE d # c
  <2>1. requests'[d] = requests[d]
    BY <1>1, <1>3 DEF Pool!Answer
  <2>2. QED
    BY <1>2, <2>1 DEF Asked
<1>4. CASE d = c
  <2>1. /\ requests[c] \in Seq(Pool!Request) /\ requests[c] # <<>>
        /\ requests'[c] = Tail(requests[c])
        /\ Head(requests[c]) = [op |-> op, ins |-> i]
    BY <1>1 DEF Pool!Answer
  <2>2. requests[c][1] = [op |-> op, ins |-> i]
    BY <2>1
  <2>3. n # 1
    BY <1>2, <1>4, <2>2
  <2>4. n - 1 \in DOMAIN requests'[c] /\ requests'[c][n - 1] = requests[c][n]
    BY <1>2, <1>4, <2>1, <2>3
  <2>5. QED
    BY <1>2, <1>4, <2>4 DEF Asked
<1>5. QED
  BY <1>3, <1>4

\* Steps that neither change a record nor who serves what keep the invariant,
\* if every subscription in progress keeps its request.
LEMMA SameServiceKeeps ==
  ASSUME RecordsInv, UNCHANGED subscribed,
         \A j \in Instruments :
           /\ \A c \in Connections : Served(c, j) <=> Served(c, j)'
           /\ global_subscriptions'[j].status = "FAILED" =>
                global_subscriptions'[j].assigned = NoConnection
           /\ global_subscriptions'[j].status = "SUBSCRIBING" =>
                /\ global_subscriptions[j].status = "SUBSCRIBING"
                /\ global_subscriptions'[j].assigned = global_subscriptions[j].assigned
                /\ \A c \in Connections :
                     global_subscriptions[j].assigned = c /\ Asked(c, j) => Asked(c, j)'
  PROVE  RecordsInv'
<1> USE DEF RecordsInv
<1>1. RecordsMatchAssignments'
  BY DEF RecordsMatchAssignments, Served
<1>2. FailedIsUnassigned'
  BY DEF FailedIsUnassigned
<1>3. SubscribingIsAsked'
  <2> SUFFICES ASSUME NEW j \in Instruments,
                      global_subscriptions'[j].status = "SUBSCRIBING"
               PROVE  /\ global_subscriptions'[j].assigned \in Connections
                      /\ Asked(global_subscriptions[j].assigned, j)'
    BY DEF SubscribingIsAsked
  <2>1. PICK c \in Connections : c = global_subscriptions[j].assigned /\ Asked(c, j)
    BY DEF SubscribingIsAsked
  <2>2. Asked(c, j)' /\ global_subscriptions'[j].assigned = c
    BY <2>1
  <2>3. QED
    BY <2>2 DEF Asked
<1>4. QED
  BY <1>1, <1>2, <1>3

\* A connection with room takes what nobody serves.
LEMMA ServingKeeps ==
  ASSUME Context, RecordsInv,
         NEW c \in Pool!Available, NEW i \in Instruments, NEW ok \in BOOLEAN,
         ~Live(i), Pool!SubscribeInstrument(c, i, ok),
         \A j \in Instruments \ {i} : global_subscriptions'[j] = global_subscriptions[j],
         global_subscriptions'[i].assigned = c,
         global_subscriptions'[i].status = IF ok THEN "SUBSCRIBING" ELSE "FAILED"
  PROVE  RecordsInv'
<1> USE DEF RecordsInv
<1>1. /\ subscribed \in [Connections -> SUBSET Instruments]
      /\ requests \in [Connections -> Seq(Pool!Request)]
      /\ c \in Connections
  BY DEF Context, TypeOK, Pool!TypeOK, Pool!Available
<1>2. \A d \in Connections : i \notin subscribed[d]
  BY DEF RecordsMatchAssignments
<1>3. /\ ok /\ Pool!Send(c, "sub", i)
      /\ subscribed' = [subscribed EXCEPT ![c] = @ \cup {i}]
  BY <1>1, <1>2 DEF Context, Pool!SubscribeInstrument, Pool!Available
<1>4. global_subscriptions'[i].status = "SUBSCRIBING"
  BY <1>3
<1>5. RecordsMatchAssignments'
  BY <1>1, <1>2, <1>3, <1>4 DEF RecordsMatchAssignments, Live
<1>6. FailedIsUnassigned'
  BY <1>4 DEF FailedIsUnassigned
<1>7. Asked(c, i)'
  <2> DEFINE n == Len(requests[c]) + 1
  <2>1. n \in DOMAIN requests'[c] /\ requests'[c][n] = [op |-> "sub", ins |-> i]
    BY <1>1, <1>3 DEF Pool!Send
  <2>2. QED
    BY <2>1 DEF Asked
<1>8. SubscribingIsAsked'
  <2> SUFFICES ASSUME NEW j \in Instruments,
                      global_subscriptions'[j].status = "SUBSCRIBING"
               PROVE  /\ global_subscriptions'[j].assigned \in Connections
                      /\ Asked(global_subscriptions[j].assigned, j)'
    BY DEF SubscribingIsAsked
  <2>1. CASE j = i
    BY <1>1, <1>7, <2>1 DEF Asked
  <2>2. CASE j # i
    <3>1. PICK d \in Connections : d = global_subscriptions[j].assigned /\ Asked(d, j)
      BY <2>2 DEF SubscribingIsAsked
    <3>2. Asked(d, j)' /\ global_subscriptions'[j].assigned = d
      BY <1>1, <1>3, <2>2, <3>1, SendingKeepsRequests DEF Context
    <3>3. QED
      BY <3>2 DEF Asked
  <2>3. QED
    BY <2>1, <2>2
<1>9. QED
  BY <1>5, <1>6, <1>8

\* Requests of the sessions.
LEMMA SessionStepRecords ==
  ASSUME Context, RecordsInv, NEW s \in Sessions, SessionStep(s)
  PROVE  RecordsInv'
<1>1. /\ global_subscriptions \in [Instruments -> SubscriptionInfo]
      /\ subscribed \in [Connections -> SUBSET Instruments]
      /\ TypeOK /\ ~CallsMayFail
  BY DEF Context, TypeOK, Pool!TypeOK
<1>2. \A i \in Instruments : global_subscriptions[i] \in SubscriptionInfo
  BY <1>1
<1>3. ASSUME NEW i \in Instruments, AddSubscription(s, i) PROVE RecordsInv'
  <2>1. CASE Exists(i)
    <3>1. /\ UNCHANGED connVars
          /\ global_subscriptions' =
               [global_subscriptions EXCEPT ![i].sessions = @ \cup {s}]
      BY <1>3, <2>1 DEF AddSubscription
    <3>2. \A j \in Instruments :
            /\ global_subscriptions'[j].status = global_subscriptions[j].status
            /\ global_subscriptions'[j].assigned = global_subscriptions[j].assigned
      BY <1>1, <1>2, <3>1 DEF SubscriptionInfo
    <3>3. QED
      BY <3>1, <3>2, SameServiceKeeps
         DEF connVars, Served, Live, Asked, RecordsInv, FailedIsUnassigned
  <2>2. CASE ~Exists(i) /\ Pool!Available = {}
    <3>1. UNCHANGED connVars
      BY <1>3, <2>2 DEF AddSubscription
    <3>2. global_subscriptions' =
            [global_subscriptions EXCEPT ![i] = NewEntry(s, NoConnection, FALSE)]
      BY <1>3, <2>2 DEF AddSubscription
    <3>3. /\ NewEntry(s, NoConnection, FALSE).status = "FAILED"
          /\ NewEntry(s, NoConnection, FALSE).assigned = NoConnection
      BY DEF NewEntry
    <3>4. QED
      BY <1>1, <2>2, <3>1, <3>2, <3>3, SameServiceKeeps
         DEF connVars, Served, Live, Asked, RecordsInv, FailedIsUnassigned, Exists
  <2>3. CASE ~Exists(i) /\ Pool!Available # {}
    <3>1. PICK c \in Pool!Available, ok \in BOOLEAN :
            /\ Pool!SubscribeInstrument(c, i, ok)
            /\ global_subscriptions' =
                 [global_subscriptions EXCEPT ![i] = NewEntry(s, c, ok)]
      BY <1>3, <2>3 DEF AddSubscription
    <3>2. /\ NewEntry(s, c, ok).status = IF ok THEN "SUBSCRIBING" ELSE "FAILED"
          /\ NewEntry(s, c, ok).assigned = c
      BY DEF NewEntry
    <3>3. ~Live(i)
      BY <2>3 DEF Exists, Live
    <3>4. QED
      BY <1>1, <3>1, <3>2, <3>3, ServingKeeps
  <2>4. QED
    BY <2>1, <2>2, <2>3
<1>4. ASSUME NEW i \in Instruments, RemoveFor(s, i) PROVE RecordsInv'
  <2> DEFINE rest == global_subscriptions[i].sessions \ {s}
             a == global_subscriptions[i].assigned
  <2>1. CASE Exists(i) /\ rest = {}
    <3>1. /\ ExecuteUnsubscription(a, i)
          /\ global_subscriptions' = [global_subscriptions EXCEPT ![i] = NoEntry]
      BY <1>4, <2>1 DEF RemoveFor
    <3>2. /\ global_subscriptions'[i].status = "CANCELLED"
          /\ \A j \in Instruments \ {i} : global_subscriptions'[j] = global_subscriptions[j]
      BY <1>1, <3>1 DEF NoEntry
    <3>3. /\ \A c \in Connections : subscribed'[c] = subscribed[c] \ {i}
          /\ \A c \in Connections, j \in Instruments : Asked(c, j) => Asked(c, j)'
      <4>1. \A c \in Connections : i \in subscribed[c] => c = a
        BY DEF RecordsInv, RecordsMatchAssignments
      <4>2. CASE UNCHANGED connVars /\ a \notin Connections
        BY <1>1, <4>1, <4>2 DEF connVars, Asked
      <4>3. CASE a \in Connections /\ Pool!UnsubscribeInstrument(a, i)
        <5>1. CASE i \in subscribed[a]
          <6>1. /\ Pool!Send(a, "unsub", i)
                /\ subscribed' = [subscribed EXCEPT ![a] = @ \ {i}]
            BY <1>1, <4>3, <5>1 DEF Pool!UnsubscribeInstrument, Context, Proved!CarriersAreOpen
          <6>2. QED
            BY <1>1, <4>1, <4>3, <6>1, SendingKeepsRequests
        <5>2. CASE i \notin subscribed[a]
          <6>1. UNCHANGED <<subscribed, requests>>
            BY <4>3, <5>2 DEF Pool!UnsubscribeInstrument
          <6>2. QED
            BY <1>1, <4>1, <5>2, <6>1 DEF Asked
        <5>3. QED
          BY <5>1, <5>2
      <4>4. a \in Connections \cup {NoConnection}
        BY <1>2 DEF SubscriptionInfo
      <4>5. QED
        BY <3>1, <4>2, <4>3, <4>4, ThreadsAssumption DEF ExecuteUnsubscription
    <3>4. RecordsMatchAssignments'
      BY <3>2, <3>3 DEF RecordsInv, RecordsMatchAssignments, Live
    <3>5. FailedIsUnassigned'
      BY <3>2 DEF RecordsInv, FailedIsUnassigned
    <3>6. SubscribingIsAsked'
      <4> SUFFICES ASSUME NEW j \in Instruments,
                          global_subscriptions'[j].status = "SUBSCRIBING"
                   PROVE  /\ global_subscriptions'[j].assigned \in Connections
                          /\ Asked(global_subscriptions[j].assigned, j)'
        BY DEF SubscribingIsAsked
      <4>1. j # i
        BY <3>2
      <4>2. PICK d \in Connections : d = global_subscriptions[j].assigned /\ Asked(d, j)
        BY <3>2, <4>1 DEF RecordsInv, SubscribingIsAsked
      <4>3. Asked(d, j)' /\ global_subscriptions'[j].assigned = d
        BY <3>2, <3>3, <4>1, <4>2
      <4>4. QED
        BY <4>3 DEF Asked
    <3>7. QED
      BY <3>4, <3>5, <3>6 DEF RecordsInv
  <2>2. CASE ~Exists(i) \/ rest # {}
    <3>1. /\ UNCHANGED connVars
          /\ global_subscriptions' = [global_subscriptions EXCEPT ![i].sessions = rest]
      BY <1>4, <2>2 DEF RemoveFor
    <3>2. \A j \in Instruments :
            /\ global_subscriptions'[j].status = global_subscriptions[j].status
            /\ global_subscriptions'[j].assigned = global_subscriptions[j].assigned
      BY <1>1, <1>2, <3>1 DEF SubscriptionInfo
    <3>3. QED
      BY <3>1, <3>2, SameServiceKeeps
         DEF connVars, Served, Live, Asked, RecordsInv, FailedIsUnassigned
  <2>3. QED
    BY <2>1, <2>2
<1>5. CASE RemoveAllBegin(s)
  BY <1>5, SameServiceKeeps
     DEF RemoveAllBegin, connVars, tables, Served, Live, Asked, RecordsInv, FailedIsUnassigned
<1>6. CASE RemoveAllNext(s)
  BY <1>1, <1>4, <1>6 DEF RemoveAllNext, TypeOK
<1>7. QED
  BY <1>3, <1>4, <1>5, <1>6, SessionStep(s) DEF SessionStep, RemoveSubscription

\* Steps that touch neither records nor requests nor entries.
LEMMA QuietKeepsRecords ==
  ASSUME RecordsInv, UNCHANGED <<subscribed, requests, global_subscriptions>>
  PROVE  RecordsInv'
BY DEF RecordsInv, RecordsMatchAssignments, FailedIsUnassigned, SubscribingIsAsked,
       Live, Asked

\* A connection that goes down, or is stopped, takes no request along that a
\* subscription in progress waits for: what it carries nothing of, nothing in
\* progress is assigned to.
LEMMA ClearedKeepsRecords ==
  ASSUME Context, RecordsInv, NEW c \in Connections, subscribed[c] = {},
         UNCHANGED <<subscribed, global_subscriptions>>,
         requests' = [requests EXCEPT ![c] = <<>>]
  PROVE  RecordsInv'
<1>1. requests \in [Connections -> Seq(Pool!Request)]
  BY DEF Context, TypeOK, Pool!TypeOK
<1>2. \A d \in Connections \ {c}, j \in Instruments : Asked(d, j) => Asked(d, j)'
  BY <1>1 DEF Asked
<1>3. \A j \in Instruments : ~Served(c, j)
  BY DEF RecordsInv, RecordsMatchAssignments, Served
<1>4. QED
  BY <1>2, <1>3, SameServiceKeeps DEF Served, Live, RecordsInv, FailedIsUnassigned

\* Callbacks.  A late success makes an entry ACTIVE again that has failed
\* meanwhile, but then it is assigned to nobody.
LEMMA CallbackStepRecords ==
  ASSUME Context, RecordsInv, Undisturbed, NEW c \in Connections, CallbackStep(c)
  PROVE  RecordsInv'
<1>1. /\ global_subscriptions \in [Instruments -> SubscriptionInfo]
      /\ TypeOK
  BY DEF Context, TypeOK
<1>2. \A i \in Instruments : global_subscriptions[i] \in SubscriptionInfo
  BY <1>1
<1>3. CASE ConnectionLost(c)
  <2>1. Pool!OnFrontDisconnected(c)
    BY <1>3 DEF ConnectionLost
  <2>2. subscribed[c] = {}
    BY <2>1 DEF Undisturbed, Pool!CarriersAreSpared
  <2>3. QED
    BY <1>3, <2>1, <2>2, ClearedKeepsRecords
       DEF ConnectionLost, Pool!OnFrontDisconnected, tables
<1>4. CASE ConnectionRecovered(c) \/ FrontConnected(c) \/ LoginFailed(c) \/ ErrorStorm(c)
  BY <1>4, QuietKeepsRecords
     DEF ConnectionRecovered, FrontConnected, LoginFailed, ErrorStorm, Pool!LoggedIn,
         Pool!OnFrontConnected, Pool!LoginRejected, Pool!TooManyErrors, tables
<1>5. ASSUME NEW i \in Instruments, SubscriptionSuccess(c, i) PROVE RecordsInv'
  <2>1. /\ UNCHANGED subscribed
        /\ \A d \in Connections, j \in Instruments \ {i} : Asked(d, j) => Asked(d, j)'
    BY <1>1, <1>5, AnswerKeepsRequests
       DEF SubscriptionSuccess, Pool!Subscribed, Pool!Answer
  <2>2. CASE ~Exists(i)
    <3>1. UNCHANGED global_subscriptions
      BY <1>5, <2>2 DEF SubscriptionSuccess
    <3>2. QED
      BY <2>1, <2>2, <3>1, SameServiceKeeps
         DEF Exists, Served, Live, RecordsInv, FailedIsUnassigned
  <2>3. CASE Exists(i)
    <3> DEFINE e == [global_subscriptions[i] EXCEPT !.status = "ACTIVE"]
    <3>1. global_subscriptions' = [global_subscriptions EXCEPT ![i] = e]
      BY <1>5, <2>3 DEF SubscriptionSuccess
    <3>2. e.status = "ACTIVE" /\ e.assigned = global_subscriptions[i].assigned
      BY <1>2, StatusWritten
    <3> HIDE DEF e
    <3>3. /\ global_subscriptions'[i].status = "ACTIVE"
          /\ global_subscriptions'[i].assigned = global_subscriptions[i].assigned
          /\ \A j \in Instruments \ {i} : global_subscriptions'[j] = global_subscriptions[j]
      BY <1>1, <3>1, <3>2
    <3>4. \A d \in Connections : Served(d, i) <=> Served(d, i)'
      <4>1. global_subscriptions[i].status \in {"SUBSCRIBING", "ACTIVE", "FAILED"}
        BY <1>2, <2>3 DEF SubscriptionInfo, SubscriptionStatus, Exists
      <4>2. CASE global_subscriptions[i].status = "FAILED"
        <5>1. global_subscriptions[i].assigned \notin Connections
          BY <4>2, ThreadsAssumption DEF RecordsInv, FailedIsUnassigned
        <5>2. QED
          BY <3>3, <5>1 DEF Served
      <4>3. CASE global_subscriptions[i].status # "FAILED"
        BY <3>3, <4>1, <4>3 DEF Served, Live
      <4>4. QED
        BY <4>2, <4>3
    <3>5. QED
      BY <2>1, <3>3, <3>4, SameServiceKeeps
         DEF Served, Live, RecordsInv, FailedIsUnassigned
  <2>4. QED
    BY <2>2, <2>3
<1>6. ASSUME NEW i \in Instruments, SubscriptionFailed(c, i) PROVE RecordsInv'
  <2>1. ~Exists(i)
    BY <1>6 DEF Undisturbed
  <2>2. /\ UNCHANGED <<subscribed, global_subscriptions>>
        /\ \A d \in Connections, j \in Instruments \ {i} : Asked(d, j) => Asked(d, j)'
    BY <1>1, <1>6, <2>1, AnswerKeepsRequests
       DEF SubscriptionFailed, Pool!SubscribeRejected, Pool!Answer
  <2>3. QED
    BY <2>1, <2>2, SameServiceKeeps
       DEF Exists, Served, Live, RecordsInv, FailedIsUnassigned
<1>7. ASSUME NEW i \in Instruments,
             UnsubscriptionSuccess(c, i) \/ UnsubscriptionFailed(c, i)
      PROVE  RecordsInv'
  <2>1. /\ UNCHANGED <<subscribed, global_subscriptions>>
        /\ \A d \in Connections, j \in Instruments : Asked(d, j) => Asked(d, j)'
    <3>1. PICK streams : Pool!Answer(c, "unsub", i, streams)
      BY <1>7 DEF UnsubscriptionSuccess, UnsubscriptionFailed, Pool!Unsubscribed,
                  Pool!UnsubscribeRejected
    <3>2. \A d \in Connections, j \in Instruments : Asked(d, j) => Asked(d, j)'
      BY <1>1, <3>1, AnswerKeepsRequests
    <3>3. QED
      BY <1>7, <3>1, <3>2 DEF UnsubscriptionSuccess, UnsubscriptionFailed, Pool!Answer, tables
  <2>2. QED
    BY <2>1, SameServiceKeeps DEF Served, Live, RecordsInv, FailedIsUnassigned
<1>8. QED
  BY <1>3, <1>4, <1>5, <1>6, <1>7, CallbackStep(c) DEF CallbackStep

\* Failover and retry.  A report finds nothing to fail, a retry finds a
\* connection with room.
LEMMA ThreadStepRecords ==
  ASSUME Context, RecordsInv, Undisturbed, NEW t \in Threads, ThreadStep(t)
  PROVE  RecordsInv'
<1>1. /\ global_subscriptions \in [Instruments -> SubscriptionInfo]
      /\ work \in [Threads -> Seq(Instruments)]
      /\ TypeOK
  BY DEF Context, TypeOK
<1>2. \A i \in Instruments : global_subscriptions[i] \in SubscriptionInfo
  BY <1>1
<1>3. CASE FailureBegin(t)
  <2>1. CarriedBy(failing[t]) = {}
    <3>1. CASE t \in Connections
      <4>1. failing[t] = t /\ subscribed[t] = {}
        BY <1>3, <3>1 DEF FailureBegin, Context, ReportsAreFounded, Proved!CarriersAreOpen
      <4>2. QED
        BY <3>1, <4>1 DEF CarriedBy, RecordsInv, RecordsMatchAssignments, Live
    <3>2. CASE t = Health
      BY <1>3, <3>2 DEF Undisturbed
    <3>3. CASE t = Maintenance
      BY <1>3, <3>3 DEF FailureBegin, Context, ReportsAreFounded
    <3>4. QED
      BY <3>1, <3>2, <3>3 DEF Threads
  <2>2. UNCHANGED global_subscriptions
    BY <1>1, <1>3, <2>1 DEF FailureBegin
  <2>3. QED
    BY <1>3, <2>2, QuietKeepsRecords DEF FailureBegin, connVars
<1>4. ASSUME NEW i \in Instruments, MigrateOne(t, i) PROVE RecordsInv'
  <2>1. CASE UNCHANGED <<connVars, global_subscriptions>>
    BY <2>1, QuietKeepsRecords DEF connVars
  <2>2. ASSUME NEW c \in Pool!Available, NEW ok \in BOOLEAN,
               Pool!SubscribeInstrument(c, i, ok),
               global_subscriptions' =
                 [global_subscriptions EXCEPT
                    ![i].assigned = c,
                    ![i].status = IF ok THEN "SUBSCRIBING" ELSE "FAILED",
                    ![i].retries = 0]
        PROVE  RecordsInv'
    <3> DEFINE e == [global_subscriptions[i] EXCEPT
                       !.assigned = c,
                       !.status = IF ok THEN "SUBSCRIBING" ELSE "FAILED",
                       !.retries = 0]
    <3>1. e.assigned = c /\ e.status = IF ok THEN "SUBSCRIBING" ELSE "FAILED"
      BY <1>2, StatusWritten
    <3>2. global_subscriptions'[i] = e
      BY <1>1, <2>2
    <3>3. \A j \in Instruments \ {i} : global_subscriptions'[j] = global_subscriptions[j]
      BY <1>1, <2>2
    <3>4. ~Live(i)
      BY <1>4 DEF MigrateOne, Context, AgreementInv, MigrationListIsFresh, Live
    <3> HIDE DEF e
    <3>5. QED
      BY <2>2, <3>1, <3>2, <3>3, <3>4, ServingKeeps
  <2>3. QED
    BY <1>4, <2>1, <2>2 DEF MigrateOne
<1>5. CASE FailureEnd(t) \/ TakeRetryQueue(t)
  BY <1>5, QuietKeepsRecords DEF FailureEnd, TakeRetryQueue, connVars, tables
<1>6. CASE RetryOne(t)
  <2> DEFINE i == Head(work[t])
  <2>1. i \in Instruments
    BY <1>1, <1>6, HeadTailProperties
       DEF RetryOne, Context, AgreementInv, TypeInv, RetryHasWork
  <2>2. CASE UNCHANGED <<connVars, global_subscriptions>>
    BY <2>2, QuietKeepsRecords DEF connVars
  <2>3. ASSUME NEW c \in Pool!Available, NEW ok \in BOOLEAN,
               global_subscriptions[i].status = "FAILED",
               Pool!SubscribeInstrument(c, i, ok),
               global_subscriptions' =
                 [global_subscriptions EXCEPT
                    ![i].assigned = c,
                    ![i].status = IF ok THEN "SUBSCRIBING" ELSE "FAILED"]
        PROVE  RecordsInv'
    <3> DEFINE e == [global_subscriptions[i] EXCEPT
                       !.assigned = c,
                       !.status = IF ok THEN "SUBSCRIBING" ELSE "FAILED"]
    <3>1. e.assigned = c /\ e.status = IF ok THEN "SUBSCRIBING" ELSE "FAILED"
      BY <1>2, <2>1, StatusWritten
    <3>2. global_subscriptions'[i] = e
      BY <1>1, <2>1, <2>3
    <3>3. \A j \in Instruments \ {i} : global_subscriptions'[j] = global_subscriptions[j]
      BY <1>1, <2>1, <2>3
    <3>4. ~Live(i)
      BY <2>3 DEF Live
    <3> HIDE DEF e, i
    <3>5. QED
      BY <2>1, <2>3, <3>1, <3>2, <3>3, <3>4, ServingKeeps
  <2>4. QED
    BY <1>6, <2>2, <2>3 DEF RetryOne
<1>7. QED
  BY <1>3, <1>4, <1>5, <1>6, ThreadStep(t) DEF ThreadStep

\* All steps together.
LEMMA StepKeepsRecords ==
  ASSUME Context, RecordsInv, [Next]_vars, [Undisturbed]_vars
  PROVE  RecordsInv'
<1>1. CASE UNCHANGED vars
  BY <1>1, QuietKeepsRecords DEF vars, connVars, tables
<1>2. CASE Undisturbed
  <2>1. ASSUME NEW c \in Connections, HeartbeatTimeout(c) PROVE RecordsInv'
    BY <2>1, QuietKeepsRecords DEF HeartbeatTimeout, connVars, tables
  <2>2. ASSUME NEW c \in Connections, HealthRestart(c) PROVE RecordsInv'
    <3>1. CASE Pool!StopEnd(c)
      <4>1. subscribed[c] = {}
        BY <3>1 DEF Pool!StopEnd, Context, Proved!CarriersAreOpen
      <4>2. UNCHANGED subscribed
        BY <3>1, <4>1 DEF Pool!StopEnd, Context, TypeOK, Pool!TypeOK
      <4>3. QED
        BY <2>2, <3>1, <4>1, <4>2, ClearedKeepsRecords
           DEF HealthRestart, Pool!StopEnd, tables
    <3>2. CASE Pool!ChooseForRestart(c) \/ Pool!StopBegin(c) \/ Pool!Start(c)
      BY <2>2, <3>2, QuietKeepsRecords
         DEF HealthRestart, Pool!ChooseForRestart, Pool!StopBegin, Pool!Start, tables
    <3>3. QED
      BY <2>2, <3>1, <3>2 DEF HealthRestart
  <2>3. CASE MaintenanceDue
    BY <2>3, QuietKeepsRecords DEF MaintenanceDue, connVars, tables
  <2>4. CASE Cleanup
    <3>1. PICK expired \in SUBSET {i \in Instruments : global_subscriptions[i].status = "FAILED"} :
            global_subscriptions' =
              [i \in Instruments |-> IF i \in expired THEN NoEntry ELSE global_subscriptions[i]]
      BY <2>4 DEF Cleanup
    <3>2. /\ NoEntry.status = "CANCELLED" /\ NoEntry.assigned = NoConnection
          /\ UNCHANGED <<subscribed, requests>>
      BY <2>4 DEF NoEntry, Cleanup, connVars
    <3>3. QED
      BY <3>1, <3>2, SameServiceKeeps
         DEF Served, Live, Asked, RecordsInv, FailedIsUnassigned
  <2>5. QED
    BY <1>1, <1>2, <2>1, <2>2, <2>3, <2>4,
       SessionStepRecords, CallbackStepRecords, ThreadStepRecords DEF Next
<1>3. QED
  BY <1>1, <1>2

LEMMA RecordsHold ==
  ASSUME ~CallsMayFail
  PROVE  Spec /\ [][Undisturbed]_vars => []RecordsInv
<1>1. Init => RecordsInv
  BY DEF Init, Pool!Init, NoEntry, RecordsInv, RecordsMatchAssignments,
         FailedIsUnassigned, SubscribingIsAsked, Live
<1>2. TypeOK /\ TypeInv /\ (Exclusive /\ TablesAgree /\ MigrationListIsFresh)
        /\ Proved!CarriersAreOpen /\ ReportsAreFounded => Context
  BY DEF Context, AgreementInv
<1>3. Context /\ RecordsInv /\ [Next]_vars /\ [Undisturbed]_vars => RecordsInv'
  BY StepKeepsRecords
<1>4. QED
  BY <1>1, <1>2, <1>3, DispatcherTypeCorrect, TablesTypeCorrect, AgreementHolds,
     CarriersStayOpen, ReportsAlwaysFounded, PTL DEF Spec

\* As long as nothing fails that carries something, what a connection has
\* recorded is exactly what the dispatcher serves over it: nothing is carried
\* twice or for nobody, in any order of requests, answers, logins and restarts.
THEOREM RecordsAlwaysMatch ==
  ASSUME ~CallsMayFail
  PROVE  Spec /\ [][Undisturbed]_vars => []RecordsMatchAssignments
<1>1. RecordsInv => RecordsMatchAssignments
  BY DEF RecordsInv
<1>2. QED
  BY <1>1, RecordsHold, PTL

\* "Subscription in progress" then always has its request under way.
THEOREM SubscribingAlwaysRequested ==
  ASSUME ~CallsMayFail
  PROVE  Spec /\ [][Undisturbed]_vars => []SubscribingIsRequested
<1>1. RecordsInv => SubscribingIsRequested
  BY DEF RecordsInv, SubscribingIsAsked, SubscribingIsRequested, Asked
<1>2. QED
  BY <1>1, RecordsHold, PTL

-----------------------------------------------------------------------------
(* From the table to the streams *)

\* A request disappears with its answer, and the answer goes to the handler
\* that belongs to it.
LEMMA AnswersAreHandled ==
  ASSUME TypeOK, TypeInv, Next,
         NEW c \in Connections, NEW i \in Instruments, NEW op \in {"sub", "unsub"},
         NEW streams, Pool!Answer(c, op, i, streams)
  PROVE  IF op = "sub" THEN SubscriptionSuccess(c, i) \/ SubscriptionFailed(c, i)
                       ELSE UnsubscriptionSuccess(c, i) \/ UnsubscriptionFailed(c, i)
<1> DEFINE q == requests[c]
           Handled == IF op = "sub"
                        THEN SubscriptionSuccess(c, i) \/ SubscriptionFailed(c, i)
                        ELSE UnsubscriptionSuccess(c, i) \/ UnsubscriptionFailed(c, i)
<1>1. /\ q \in Seq(Pool!Request) /\ q # <<>> /\ requests'[c] = Tail(q)
      /\ Head(q) = [op |-> op, ins |-> i]
      /\ requests \in [Connections -> Seq(Pool!Request)]
      /\ front[c] = "open" /\ UNCHANGED <<restarting, front>>
  BY DEF TypeOK, Pool!TypeOK, Pool!Answer
<1>2. Tail(q) # q /\ \A x : Tail(q) # Append(q, x)
  <2>1. Len(Tail(q)) = Len(q) - 1 /\ Len(q) \in Nat
    BY <1>1
  <2>2. \A x : Len(Append(q, x)) = Len(q) + 1
    BY <1>1
  <2>3. Len(Tail(q)) # Len(q) /\ \A x : Len(Tail(q)) # Len(Append(q, x))
    BY <2>1, <2>2
  <2>4. QED
    BY <2>3, Zenon
<1>3. ~UNCHANGED requests
  BY <1>1, <1>2
<1>4. ASSUME NEW d \in Connections, NEW p, NEW j, Pool!Send(d, p, j) PROVE FALSE
  BY <1>1, <1>2, <1>4 DEF Pool!Send
<1>5. ASSUME NEW d \in Connections, NEW j \in Instruments, NEW ok,
             Pool!SubscribeInstrument(d, j, ok) \/ Pool!UnsubscribeInstrument(d, j)
      PROVE  FALSE
  BY <1>3, <1>4, <1>5 DEF Pool!SubscribeInstrument, Pool!UnsubscribeInstrument
<1>6. Pool!Available \subseteq Connections
  BY DEF Pool!Available
<1>7. ASSUME NEW s \in Sessions, SessionStep(s) PROVE FALSE
  <2>1. ASSUME NEW j \in Instruments, AddSubscription(s, j) PROVE FALSE
    BY <1>3, <1>5, <1>6, <2>1 DEF AddSubscription, connVars
  <2>2. ASSUME NEW j \in Instruments, RemoveFor(s, j) PROVE FALSE
    <3>1. global_subscriptions[j].assigned \in Connections \cup {NoConnection}
      BY DEF TypeInv, TablesTyped, SubscriptionInfo
    <3>2. QED
      BY <1>3, <1>5, <2>2, <3>1 DEF RemoveFor, ExecuteUnsubscription, connVars
  <2>3. QED
    BY <1>3, <1>7, <2>1, <2>2
       DEF SessionStep, RemoveSubscription, RemoveAllBegin, RemoveAllNext, connVars,
           TypeInv, TablesTyped
<1>8. ASSUME NEW t \in Threads, ThreadStep(t) PROVE FALSE
  <2>1. ASSUME NEW j \in Instruments, MigrateOne(t, j) PROVE FALSE
    BY <1>3, <1>5, <1>6, <2>1 DEF MigrateOne, connVars
  <2>2. CASE RetryOne(t)
    <3>1. Head(work[t]) \in Instruments
      BY <2>2, HeadTailProperties DEF RetryOne, TypeInv, TablesTyped, RetryHasWork
    <3>2. QED
      BY <1>3, <1>5, <1>6, <2>2, <3>1 DEF RetryOne, connVars
  <2>3. CASE FailureBegin(t) \/ FailureEnd(t) \/ TakeRetryQueue(t)
    BY <1>3, <2>3 DEF FailureBegin, FailureEnd, TakeRetryQueue, connVars
  <2>4. QED
    BY <1>8, <2>1, <2>2, <2>3 DEF ThreadStep
<1>9. ASSUME NEW d \in Connections, HeartbeatTimeout(d) \/ HealthRestart(d) PROVE FALSE
  BY <1>1, <1>3, <1>9 DEF HeartbeatTimeout, HealthRestart, Pool!ChooseForRestart,
     Pool!StopBegin, Pool!StopEnd, Pool!Start, connVars, TypeOK, Pool!TypeOK
<1>10. ~MaintenanceDue /\ ~Cleanup
  BY <1>3 DEF MaintenanceDue, Cleanup, connVars
<1>11. ASSUME NEW d \in Connections, CallbackStep(d) PROVE Handled
  <2>1. ~ConnectionLost(d)
    BY <1>1, <1>3 DEF ConnectionLost, Pool!OnFrontDisconnected, TypeOK, Pool!TypeOK
  <2>2. ~ConnectionRecovered(d) /\ ~FrontConnected(d) /\ ~LoginFailed(d) /\ ~ErrorStorm(d)
    BY <1>3 DEF ConnectionRecovered, FrontConnected, LoginFailed, ErrorStorm,
       Pool!LoggedIn, Pool!OnFrontConnected, Pool!LoginRejected, Pool!TooManyErrors
  <2>3. ASSUME NEW j, NEW p, NEW f, Pool!Answer(d, p, j, f) PROVE d = c /\ p = op /\ j = i
    <3>1. d = c
      BY <1>1, <1>2, <2>3 DEF Pool!Answer
    <3>2. [op |-> p, ins |-> j] = [op |-> op, ins |-> i]
      BY <1>1, <2>3, <3>1 DEF Pool!Answer
    <3>3. QED
      BY <3>1, <3>2
  <2>4. ASSUME NEW j \in Instruments, SubscriptionSuccess(d, j) \/ SubscriptionFailed(d, j)
        PROVE  Handled
    <3>1. d = c /\ op = "sub" /\ j = i
      BY <2>3, <2>4 DEF SubscriptionSuccess, SubscriptionFailed, Pool!Subscribed,
                        Pool!SubscribeRejected
    <3>2. QED
      BY <2>4, <3>1
  <2>5. ASSUME NEW j \in Instruments,
               UnsubscriptionSuccess(d, j) \/ UnsubscriptionFailed(d, j)
        PROVE  Handled
    <3>1. d = c /\ op = "unsub" /\ j = i
      BY <2>3, <2>5 DEF UnsubscriptionSuccess, UnsubscriptionFailed, Pool!Unsubscribed,
                        Pool!UnsubscribeRejected
    <3>2. QED
      BY <2>5, <3>1
  <2>6. QED
    BY <1>11, <2>1, <2>2, <2>4, <2>5 DEF CallbackStep
<1> HIDE DEF Handled
<1>12. Handled
  BY <1>7, <1>8, <1>9, <1>10, <1>11 DEF Next
<1>13. QED
  BY <1>12 DEF Handled

\* What the dispatcher's assumption says of the pool is what the pool's theorem
\* about its streams assumes.
LEMMA UndisturbedPool ==
  ASSUME TypeOK, TypeInv, RecordsMatchAssignments, [Next]_vars, [Undisturbed]_vars
  PROVE  [Proved!RecordsAreSpared /\ Proved!StopsAreGranted]_Proved!connVars
<1> SUFFICES ASSUME Next, Undisturbed
             PROVE  Proved!RecordsAreSpared /\ Proved!StopsAreGranted
  BY DEF vars, connVars, Proved!connVars
<1>1. ASSUME NEW c \in Connections, Proved!OnFrontDisconnected(c) PROVE subscribed[c] = {}
  BY <1>1 DEF Undisturbed, Pool!CarriersAreSpared, Pool!OnFrontDisconnected,
              Proved!OnFrontDisconnected
<1>2. feed \in [Connections -> SUBSET Instruments]
  BY DEF TypeOK, Pool!TypeOK
<1>3. ASSUME NEW c \in Connections, NEW i \in Instruments, Proved!SubscribeRejected(c, i)
      PROVE  i \notin subscribed[c] \/ i \in feed[c]
  <2>1. Pool!Answer(c, "sub", i, feed[c])
    BY <1>3 DEF Proved!SubscribeRejected, Proved!Answer, Pool!Answer
  <2>2. CASE SubscriptionSuccess(c, i)
    BY <1>2, <2>1, <2>2 DEF SubscriptionSuccess, Pool!Subscribed, Pool!Answer
  <2>3. CASE SubscriptionFailed(c, i)
    <3>1. ~Exists(i)
      BY <2>3 DEF Undisturbed
    <3>2. QED
      BY <3>1 DEF RecordsMatchAssignments, Live, Exists
  <2>4. QED
    BY <2>1, <2>2, <2>3, AnswersAreHandled
<1>4. ASSUME NEW c \in Connections, NEW i \in Instruments, Proved!UnsubscribeRejected(c, i)
      PROVE  i \in subscribed[c] \/ i \notin feed[c]
  <2>1. Pool!Answer(c, "unsub", i, feed[c])
    BY <1>4 DEF Proved!UnsubscribeRejected, Proved!Answer, Pool!Answer
  <2>2. CASE UnsubscriptionSuccess(c, i)
    BY <1>2, <2>1, <2>2 DEF UnsubscriptionSuccess, Pool!Unsubscribed, Pool!Answer
  <2>3. CASE UnsubscriptionFailed(c, i)
    BY <2>3 DEF Undisturbed
  <2>4. QED
    BY <2>1, <2>2, <2>3, AnswersAreHandled
<1>5. QED
  BY <1>1, <1>3, <1>4 DEF Proved!RecordsAreSpared, Proved!StopsAreGranted

\* End to end: what the front streams, once asked for nothing more, is what the
\* dispatcher's table says is served there.
THEOREM StreamsAlwaysFollow ==
  ASSUME ~CallsMayFail
  PROVE  Spec /\ [][Undisturbed]_vars => []StreamsFollowAssignments
<1>1. Proved!Spec
        /\ [][Proved!RecordsAreSpared /\ Proved!StopsAreGranted]_Proved!connVars
        => []Proved!StreamsFollowRecord
  BY PoolAssumption, FiniteInstruments, Proved!PoolStreamsFollowRecord
<1>2. TypeOK /\ TypeInv /\ RecordsMatchAssignments /\ [Next]_vars /\ [Undisturbed]_vars
        => [Proved!RecordsAreSpared /\ Proved!StopsAreGranted]_Proved!connVars
  BY UndisturbedPool
<1>3. Proved!StreamsFollowRecord /\ RecordsMatchAssignments => StreamsFollowAssignments
  BY DEF Proved!StreamsFollowRecord, RecordsMatchAssignments, StreamsFollowAssignments,
         Pool!Settled, Proved!Settled
<1>4. QED
  BY <1>1, <1>2, <1>3, DispatcherTypeCorrect, TablesTypeCorrect, RecordsAlwaysMatch,
     DispatcherUsesPool, SamePool, PTL DEF Spec

-----------------------------------------------------------------------------
(* Served at all *)

\* ACTIVE ("subscribed", subscription_dispatcher.h:30) and SUBSCRIBING mean that
\* some connection carries the instrument.
LiveIsCarried ==
  \A i \in Instruments : Live(i) => \E c \in Connections : i \in subscribed[c]

LiveIsAssigned ==
  \A i \in Instruments : Live(i) => global_subscriptions[i].assigned \in Connections

\* What the table calls subscribed is carried, with one exception only: a late
\* success that finds the entry FAILED makes it ACTIVE without looking which
\* connection, if any, the entry is assigned to.
THEOREM LiveAlwaysCarried ==
  ASSUME ~CallsMayFail
  PROVE  Spec /\ [][Undisturbed /\ NoSuccessOfFailed]_vars => []LiveIsCarried
<1>1. Init => LiveIsAssigned
  BY DEF Init, LiveIsAssigned, Live, NoEntry
<1>2. TypeOK /\ TypeInv /\ LiveIsAssigned /\ [Next]_vars /\ [NoSuccessOfFailed]_vars
        => LiveIsAssigned'
  BY OnlyAvailableTakes DEF LiveIsAssigned, Pool!Available
<1>3. LiveIsAssigned /\ RecordsMatchAssignments => LiveIsCarried
  BY DEF LiveIsAssigned, RecordsMatchAssignments, LiveIsCarried
<1>4. [Undisturbed /\ NoSuccessOfFailed]_vars
        => [Undisturbed]_vars /\ [NoSuccessOfFailed]_vars
  OBVIOUS
<1>5. QED
  BY <1>1, <1>2, <1>3, <1>4, DispatcherTypeCorrect, TablesTypeCorrect,
     RecordsAlwaysMatch, PTL DEF Spec

=============================================================================
