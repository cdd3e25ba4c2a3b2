--------------------- MODULE SubscriptionDispatcher_proofs ---------------------
(***************************************************************************)
(* Proofs about the subscription dispatcher, for any number of sessions,   *)
(* connections and instruments.                                            *)
(***************************************************************************)
EXTENDS SubscriptionDispatcher, SequenceTheorems, TLAPS

\* The theorems about the pool alone.
Proved == INSTANCE CTPConnection_proofs

-----------------------------------------------------------------------------
(* Types *)

\* The dispatcher's own part of TypeOK, and what a retry loop relies on: it
\* is only entered, and only goes on, with something left in its copy.
TablesTyped ==
  /\ global_subscriptions \in [Instruments -> SubscriptionInfo]
  /\ session_subscriptions \in [Sessions -> SUBSET Instruments]
  /\ connection_subscriptions \in [Connections -> SUBSET Instruments]
  /\ retry_queue \in Seq(Instruments)
  /\ pc \in [Threads -> Places]
  /\ failing \in [Threads -> Connections \cup {NoConnection}]
  /\ work \in [Threads -> Seq(Instruments)]
  /\ affected \in SUBSET Instruments
  /\ leaving \in [Sessions -> SUBSET Instruments]

RetryHasWork == \A t \in Threads : At(t, "retry") => work[t] # <<>>

TypeInv == TablesTyped /\ RetryHasWork

\* The entries that the actions write are entries.
LEMMA EntryTyped ==
  /\ NoEntry \in SubscriptionInfo
  /\ \A s \in Sessions, c \in Connections \cup {NoConnection}, ok \in BOOLEAN :
       NewEntry(s, c, ok) \in SubscriptionInfo
  /\ \A e \in SubscriptionInfo, S \in SUBSET Sessions :
       [e EXCEPT !.sessions = S] \in SubscriptionInfo
  /\ \A e \in SubscriptionInfo, st \in SubscriptionStatus :
       [e EXCEPT !.status = st] \in SubscriptionInfo
  /\ \A e \in SubscriptionInfo, st \in SubscriptionStatus, n \in 0..MaxRetry :
       [e EXCEPT !.status = st, !.retries = n] \in SubscriptionInfo
  /\ \A e \in SubscriptionInfo, st \in SubscriptionStatus, c \in Connections :
       /\ [e EXCEPT !.assigned = c, !.status = st] \in SubscriptionInfo
       /\ [e EXCEPT !.assigned = c, !.status = st, !.retries = 0] \in SubscriptionInfo
<1> USE DEF SubscriptionInfo, SubscriptionStatus
<1>1. 0 \in 0..MaxRetry
  BY MaxRetryAssumption
<1>2. NoEntry \in SubscriptionInfo
  BY <1>1 DEF NoEntry
<1>3. ASSUME NEW s \in Sessions, NEW c \in Connections \cup {NoConnection}, NEW ok \in BOOLEAN
      PROVE  NewEntry(s, c, ok) \in SubscriptionInfo
  <2>1. CASE ok
    BY <1>1, <2>1 DEF NewEntry
  <2>2. CASE ~ok
    BY <1>1, <2>2 DEF NewEntry
  <2>3. QED
    BY <2>1, <2>2
<1>4. \A e \in SubscriptionInfo, S \in SUBSET Sessions :
        [e EXCEPT !.sessions = S] \in SubscriptionInfo
  OBVIOUS
<1>5. \A e \in SubscriptionInfo, st \in SubscriptionStatus :
        [e EXCEPT !.status = st] \in SubscriptionInfo
  OBVIOUS
<1>6. \A e \in SubscriptionInfo, st \in SubscriptionStatus, n \in 0..MaxRetry :
        [e EXCEPT !.status = st, !.retries = n] \in SubscriptionInfo
  OBVIOUS
<1>7. \A e \in SubscriptionInfo, st \in SubscriptionStatus, c \in Connections :
        /\ [e EXCEPT !.assigned = c, !.status = st] \in SubscriptionInfo
        /\ [e EXCEPT !.assigned = c, !.status = st, !.retries = 0] \in SubscriptionInfo
  BY <1>1
<1> HIDE DEF SubscriptionInfo, SubscriptionStatus
<1>8. QED
  BY <1>2, <1>3, <1>4, <1>5, <1>6, <1>7

\* The requests of the sessions keep the types.
LEMMA SessionStepTyped ==
  ASSUME TypeInv, NEW s \in Sessions, SessionStep(s)
  PROVE  TypeInv'
<1> USE DEF TypeInv, TablesTyped, RetryHasWork, At
<1>1. ASSUME NEW i \in Instruments, AddSubscription(s, i) PROVE TypeInv'
  <2>1. global_subscriptions' \in [Instruments -> SubscriptionInfo]
    <3>1. CASE Exists(i)
      <4>1. global_subscriptions[i].sessions \cup {s} \in SUBSET Sessions
        BY DEF SubscriptionInfo
      <4>2. [global_subscriptions[i] EXCEPT !.sessions = @ \cup {s}] \in SubscriptionInfo
        BY <4>1, EntryTyped
      <4>3. QED
        BY <1>1, <3>1, <4>2 DEF AddSubscription
    <3>2. CASE ~Exists(i)
      <4>1. Pool!Available \subseteq Connections
        BY DEF Pool!Available
      <4>2. PICK c \in Connections \cup {NoConnection}, ok \in BOOLEAN :
              global_subscriptions' =
                [global_subscriptions EXCEPT ![i] = NewEntry(s, c, ok)]
        BY <1>1, <3>2, <4>1 DEF AddSubscription
      <4>3. NewEntry(s, c, ok) \in SubscriptionInfo
        BY EntryTyped
      <4>4. QED
        BY <4>2, <4>3
    <3>3. QED
      BY <3>1, <3>2
  <2>2. QED
    BY <1>1, <2>1 DEF AddSubscription, threadVars
<1>3. ASSUME NEW i \in Instruments, RemoveFor(s, i),
             leaving' \in [Sessions -> SUBSET Instruments]
      PROVE  TypeInv'
  <2>1. global_subscriptions[i].sessions \ {s} \in SUBSET Sessions
    BY DEF SubscriptionInfo
  <2>2. [global_subscriptions[i] EXCEPT !.sessions = @ \ {s}] \in SubscriptionInfo
    BY <2>1, EntryTyped
  <2>3. global_subscriptions' \in [Instruments -> SubscriptionInfo]
    BY <1>3, <2>2, EntryTyped DEF RemoveFor
  <2>4. QED
    BY <1>3, <2>3 DEF RemoveFor, threadVars
<1>4. ASSUME NEW i \in Instruments, RemoveSubscription(s, i) PROVE TypeInv'
  BY <1>3, <1>4 DEF RemoveSubscription
<1>5. CASE RemoveAllBegin(s)
  BY <1>5 DEF RemoveAllBegin, tables, threadVars
<1>6. CASE RemoveAllNext(s)
  BY <1>3, <1>6 DEF RemoveAllNext
<1>7. QED
  BY <1>1, <1>4, <1>5, <1>6, SessionStep(s) DEF SessionStep

\* So do the steps inside the handlers.  This is where RetryHasWork is needed:
\* the loop takes the head of its copy without asking.
LEMMA ThreadStepTyped ==
  ASSUME TypeInv, NEW t \in Threads, ThreadStep(t)
  PROVE  TypeInv'
<1> USE DEF TypeInv, TablesTyped, RetryHasWork, At, GoTo, Places
<1>1. {"FAILED", "SUBSCRIBING"} \subseteq SubscriptionStatus
  BY DEF SubscriptionStatus
<1>2. CASE FailureBegin(t)
  <2>1. \A i \in Instruments :
          [global_subscriptions[i] EXCEPT !.status = "FAILED"] \in SubscriptionInfo
    BY <1>1, EntryTyped
  <2>2. global_subscriptions' \in [Instruments -> SubscriptionInfo]
    BY <1>2, <2>1 DEF FailureBegin
  <2>3. affected' \in SUBSET Instruments
    BY <1>2 DEF FailureBegin, CarriedBy
  <2>4. QED
    BY <1>2, <2>2, <2>3 DEF FailureBegin
<1>3. ASSUME NEW i \in Instruments, MigrateOne(t, i) PROVE TypeInv'
  <2>1. \A c \in Pool!Available, ok \in BOOLEAN :
          [global_subscriptions[i] EXCEPT
             !.assigned = c,
             !.status = IF ok THEN "SUBSCRIBING" ELSE "FAILED",
             !.retries = 0] \in SubscriptionInfo
    BY <1>1, EntryTyped DEF Pool!Available
  <2>2. global_subscriptions' \in [Instruments -> SubscriptionInfo]
    BY <1>3, <2>1 DEF MigrateOne
  <2>3. QED
    BY <1>3, <2>2 DEF MigrateOne
<1>4. CASE FailureEnd(t)
  BY <1>4 DEF FailureEnd
<1>5. CASE TakeRetryQueue(t)
  <2>1. AfterRetry(t) \in {"cleanup", "idle"}
    BY DEF AfterRetry
  <2>2. work' \in [Threads -> Seq(Instruments)] /\ retry_queue' \in Seq(Instruments)
    BY <1>5 DEF TakeRetryQueue
  <2>3. pc' \in [Threads -> Places]
    BY <1>5, <2>1 DEF TakeRetryQueue
  <2>4. RetryHasWork'
    BY <1>5, <2>1 DEF TakeRetryQueue
  <2>5. QED
    BY <1>5, <2>2, <2>3, <2>4 DEF TakeRetryQueue, tables
<1>6. CASE RetryOne(t)
  <2> DEFINE i == Head(work[t])
  <2>1. i \in Instruments /\ Tail(work[t]) \in Seq(Instruments)
    BY <1>6, HeadTailProperties DEF RetryOne
  <2>2. \A c \in Pool!Available, ok \in BOOLEAN :
          [global_subscriptions[i] EXCEPT
             !.assigned = c,
             !.status = IF ok THEN "SUBSCRIBING" ELSE "FAILED"] \in SubscriptionInfo
    BY <1>1, <2>1, EntryTyped DEF Pool!Available
  <2>3. global_subscriptions' \in [Instruments -> SubscriptionInfo]
    BY <1>6, <2>1, <2>2 DEF RetryOne
  <2>4. retry_queue' \in Seq(Instruments)
    <3>1. Append(retry_queue, i) \in Seq(Instruments)
      BY <2>1, AppendProperties
    <3>2. QED
      BY <1>6, <3>1 DEF RetryOne, Requeue
  <2>5. work' \in [Threads -> Seq(Instruments)]
    BY <1>6, <2>1 DEF RetryOne
  <2>6. QED
    BY <1>6, <2>3, <2>4, <2>5 DEF RetryOne, AfterRetry
<1>7. QED
  BY <1>2, <1>3, <1>4, <1>5, <1>6, ThreadStep(t) DEF ThreadStep

\* So do the callbacks.
LEMMA CallbackStepTyped ==
  ASSUME TypeInv, NEW c \in Connections, CallbackStep(c)
  PROVE  TypeInv'
<1> USE DEF TypeInv, TablesTyped, RetryHasWork, At, GoTo, Places, Threads
<1>1. CASE ConnectionLost(c)
  BY <1>1 DEF ConnectionLost, tables
<1>2. CASE ConnectionRecovered(c)
  BY <1>2 DEF ConnectionRecovered, tables
<1>3. CASE FrontConnected(c) \/ LoginFailed(c) \/ ErrorStorm(c)
  BY <1>3 DEF FrontConnected, LoginFailed, ErrorStorm, tables, threadVars
<1>4. ASSUME NEW i \in Instruments, SubscriptionSuccess(c, i) PROVE TypeInv'
  <2>1. [global_subscriptions[i] EXCEPT !.status = "ACTIVE"] \in SubscriptionInfo
    BY EntryTyped DEF SubscriptionStatus
  <2>2. global_subscriptions' \in [Instruments -> SubscriptionInfo]
    BY <1>4, <2>1 DEF SubscriptionSuccess
  <2>3. connection_subscriptions' \in [Connections -> SUBSET Instruments]
    <3>1. connection_subscriptions[c] \cup {i} \in SUBSET Instruments
      OBVIOUS
    <3>2. [connection_subscriptions EXCEPT ![c] = @ \cup {i}]
            \in [Connections -> SUBSET Instruments]
      BY <3>1
    <3>3. QED
      BY <1>4, <3>2 DEF SubscriptionSuccess
  <2>4. UNCHANGED <<session_subscriptions, retry_queue, pc, failing, work, affected, leaving>>
    BY <1>4 DEF SubscriptionSuccess, threadVars
  <2>5. QED
    BY <2>2, <2>3, <2>4
<1>5. ASSUME NEW i \in Instruments, SubscriptionFailed(c, i) PROVE TypeInv'
  <2>1. Bump(global_subscriptions[i].retries) \in 0..MaxRetry
    BY MaxRetryAssumption DEF Bump, SubscriptionInfo
  <2>2. [global_subscriptions[i] EXCEPT !.status = "FAILED", !.retries = Bump(@)]
          \in SubscriptionInfo
    BY <2>1, EntryTyped DEF SubscriptionStatus
  <2>3. global_subscriptions' \in [Instruments -> SubscriptionInfo]
    BY <1>5, <2>2 DEF SubscriptionFailed
  <2>4. retry_queue' \in Seq(Instruments)
    <3>1. Append(retry_queue, i) \in Seq(Instruments)
      BY AppendProperties
    <3>2. QED
      BY <1>5, <3>1 DEF SubscriptionFailed, Requeue
  <2>5. QED
    BY <1>5, <2>3, <2>4 DEF SubscriptionFailed, threadVars
<1>6. ASSUME NEW i \in Instruments,
             UnsubscriptionSuccess(c, i) \/ UnsubscriptionFailed(c, i)
      PROVE  TypeInv'
  BY <1>6 DEF UnsubscriptionSuccess, UnsubscriptionFailed, tables, threadVars
<1>7. QED
  BY <1>1, <1>2, <1>3, <1>4, <1>5, <1>6, CallbackStep(c) DEF CallbackStep

\* The tables, the queues and the threads keep their types.
THEOREM TablesTypeCorrect == Spec => []TypeInv
<1>1. Init => TypeInv
  BY MaxRetryAssumption
     DEF Init, TypeInv, TablesTyped, RetryHasWork, At, Places, NoEntry,
         SubscriptionInfo, SubscriptionStatus
<1>2. TypeInv /\ [Next]_vars => TypeInv'
  <2> SUFFICES ASSUME TypeInv, [Next]_vars PROVE TypeInv'
    OBVIOUS
  <2> USE DEF TypeInv, TablesTyped, RetryHasWork, At, GoTo, Places, Threads
  <2>1. CASE UNCHANGED vars
    BY <2>1 DEF vars, tables, threadVars
  <2>2. ASSUME NEW c \in Connections, HeartbeatTimeout(c) PROVE TypeInv'
    BY <2>2 DEF HeartbeatTimeout, tables
  <2>3. ASSUME NEW c \in Connections, HealthRestart(c) PROVE TypeInv'
    BY <2>3 DEF HealthRestart, tables, threadVars
  <2>4. CASE MaintenanceDue
    BY <2>4 DEF MaintenanceDue, tables
  <2>5. CASE Cleanup
    <3>1. global_subscriptions' \in [Instruments -> SubscriptionInfo]
      BY <2>5, EntryTyped DEF Cleanup
    <3>2. QED
      BY <2>5, <3>1 DEF Cleanup
  <2>6. QED
    BY <2>1, <2>2, <2>3, <2>4, <2>5,
       SessionStepTyped, CallbackStepTyped, ThreadStepTyped DEF Next
<1>3. QED
  BY <1>1, <1>2, PTL DEF Spec

-----------------------------------------------------------------------------
(* The dispatcher uses the pool as the pool's specification allows *)

\* Every step of the program is a step of the pool or leaves it alone.
LEMMA StepOfPool ==
  ASSUME TypeInv, [Next]_vars
  PROVE  [Pool!Next]_connVars
<1>1. CASE UNCHANGED vars
  BY <1>1 DEF vars
<1>2. \A c \in Connections, i \in Instruments :
        Pool!Call(c, i) \/ Pool!Response(c, i) => Pool!Next
  BY DEF Pool!Next
<1>3. \A c \in Connections : Pool!Restart(c) \/ Pool!Session(c) => Pool!Next
  BY DEF Pool!Next
<1>4. Pool!Available \subseteq Connections
  BY DEF Pool!Available
<1>5. ASSUME NEW s \in Sessions, SessionStep(s) PROVE [Pool!Next]_connVars
  <2>1. ASSUME NEW i \in Instruments, AddSubscription(s, i)
        PROVE  [Pool!Next]_connVars
    BY <1>2, <1>4, <2>1 DEF AddSubscription, Pool!Call
  <2>2. ASSUME NEW i \in Instruments, RemoveFor(s, i)
        PROVE  [Pool!Next]_connVars
    <3>1. global_subscriptions[i].assigned \in Connections \cup {NoConnection}
      BY DEF TypeInv, TablesTyped, SubscriptionInfo
    <3>2. QED
      BY <1>2, <2>2, <3>1 DEF RemoveFor, ExecuteUnsubscription, Pool!Call
  <2>3. CASE RemoveAllBegin(s)
    BY <2>3 DEF RemoveAllBegin
  <2>4. CASE RemoveAllNext(s)
    BY <2>2, <2>4 DEF RemoveAllNext, TypeInv, TablesTyped
  <2>5. QED
    BY <1>5, <2>1, <2>2, <2>3, <2>4 DEF SessionStep, RemoveSubscription
<1>6. ASSUME NEW c \in Connections, CallbackStep(c) PROVE [Pool!Next]_connVars
  <2>1. CASE ConnectionLost(c) \/ ConnectionRecovered(c) \/ FrontConnected(c)
             \/ LoginFailed(c) \/ ErrorStorm(c)
    BY <1>3, <2>1 DEF ConnectionLost, ConnectionRecovered, FrontConnected,
                      LoginFailed, ErrorStorm, Pool!Session
  <2>2. ASSUME NEW i \in Instruments,
               \/ SubscriptionSuccess(c, i) \/ SubscriptionFailed(c, i)
               \/ UnsubscriptionSuccess(c, i) \/ UnsubscriptionFailed(c, i)
        PROVE  [Pool!Next]_connVars
    BY <1>2, <2>2 DEF SubscriptionSuccess, SubscriptionFailed,
         UnsubscriptionSuccess, UnsubscriptionFailed, Pool!Response
  <2>3. QED
    BY <1>6, <2>1, <2>2 DEF CallbackStep
<1>7. ASSUME NEW t \in Threads, ThreadStep(t) PROVE [Pool!Next]_connVars
  <2>1. CASE FailureBegin(t) \/ FailureEnd(t) \/ TakeRetryQueue(t)
    BY <2>1 DEF FailureBegin, FailureEnd, TakeRetryQueue
  <2>2. ASSUME NEW i \in Instruments, MigrateOne(t, i) PROVE [Pool!Next]_connVars
    BY <1>2, <1>4, <2>2 DEF MigrateOne, Pool!Call
  <2>3. CASE RetryOne(t)
    <3>1. Head(work[t]) \in Instruments
      BY <2>3, HeadTailProperties DEF RetryOne, TypeInv, TablesTyped, RetryHasWork
    <3>2. QED
      BY <1>2, <1>4, <2>3, <3>1 DEF RetryOne, Pool!Call
  <2>4. QED
    BY <1>7, <2>1, <2>2, <2>3 DEF ThreadStep
<1>8. ASSUME NEW c \in Connections, HeartbeatTimeout(c) \/ HealthRestart(c)
      PROVE  [Pool!Next]_connVars
  BY <1>3, <1>8 DEF HeartbeatTimeout, HealthRestart, Pool!Restart
<1>9. CASE MaintenanceDue \/ Cleanup
  BY <1>9 DEF MaintenanceDue, Cleanup
<1>10. QED
  BY <1>1, <1>5, <1>6, <1>7, <1>8, <1>9 DEF Next

\* What the dispatcher does to the pool is a behaviour of the pool alone: the
\* callers that CTPConnection leaves arbitrary are, among others, this one.
THEOREM DispatcherUsesPool == Spec => Pool!Spec
<1>1. Init => Pool!Init
  BY DEF Init
<1>2. TypeInv /\ [Next]_vars => [Pool!Next]_Pool!connVars
  BY StepOfPool DEF connVars, Pool!connVars
<1>3. QED
  BY <1>1, <1>2, TablesTypeCorrect, PTL DEF Spec, Pool!Spec

\* The pool under the dispatcher and the pool of the theorems are instances of
\* one module with the same parameters.
LEMMA SamePool == Pool!Spec => Proved!Spec
<1> USE DEF Pool!Send, Proved!Send, Pool!Answer, Proved!Answer
<1>1. Pool!Init => Proved!Init
  BY DEF Pool!Init, Proved!Init
<1>2. [Pool!Next]_Pool!connVars => [Proved!Next]_Proved!connVars
  <2>1. \A c : Pool!Restart(c) => Proved!Restart(c)
    BY DEF Pool!Restart, Proved!Restart,
           Pool!ChooseForRestart, Proved!ChooseForRestart,
           Pool!StopBegin, Proved!StopBegin, Pool!StopEnd, Proved!StopEnd,
           Pool!Start, Proved!Start
  <2>2. \A c : Pool!Session(c) => Proved!Session(c)
    BY DEF Pool!Session, Proved!Session,
           Pool!OnFrontConnected, Proved!OnFrontConnected,
           Pool!OnFrontDisconnected, Proved!OnFrontDisconnected,
           Pool!LoggedIn, Proved!LoggedIn,
           Pool!LoginRejected, Proved!LoginRejected,
           Pool!TooManyErrors, Proved!TooManyErrors
  <2>3. \A c : Pool!HasRoom(c) <=> Proved!HasRoom(c)
    <3>1. \A S : Pool!Cardinality(S) = Proved!Cardinality(S)
      BY Zenon DEF Pool!Cardinality, Proved!Cardinality
    <3>2. QED
      BY <3>1 DEF Pool!HasRoom, Proved!HasRoom
  <2>4. \A c, i : Pool!Call(c, i) => Proved!Call(c, i)
    BY <2>3 DEF Pool!Call, Proved!Call,
           Pool!SubscribeInstrument, Proved!SubscribeInstrument,
           Pool!UnsubscribeInstrument, Proved!UnsubscribeInstrument
  <2>5. \A c, i : Pool!Response(c, i) => Proved!Response(c, i)
    BY DEF Pool!Response, Proved!Response,
           Pool!Subscribed, Proved!Subscribed,
           Pool!SubscribeRejected, Proved!SubscribeRejected,
           Pool!Unsubscribed, Proved!Unsubscribed,
           Pool!UnsubscribeRejected, Proved!UnsubscribeRejected
  <2>6. Pool!Next => Proved!Next
    BY <2>1, <2>2, <2>4, <2>5 DEF Pool!Next, Proved!Next
  <2>7. QED
    BY <2>6 DEF Pool!connVars, Proved!connVars
<1>3. QED
  BY <1>1, <1>2, PTL DEF Pool!Spec, Proved!Spec

LEMMA FiniteInstruments == Proved!IsFiniteSet(Instruments)
BY PoolAssumption DEF Proved!IsFiniteSet, IsFiniteSet

\* What is proved of the pool alone holds of it under the dispatcher: whatever
\* the sessions ask for and whichever handlers are interrupted, no connection
\* exceeds its limit, and every record is what was last asked of the front.
THEOREM PoolInvariantsUnderDispatcher ==
  Spec => [](/\ Pool!CapacityRespected
             /\ Pool!RequestsAlternate
             /\ Pool!RecordFollowsRequests)
<1>1. Proved!Spec => []Proved!CapacityRespected
  BY PoolAssumption, FiniteInstruments, Proved!PoolCapacity
<1>2. Proved!Spec => [](Proved!RequestsAlternate /\ Proved!RecordFollowsRequests)
  BY PoolAssumption, FiniteInstruments, Proved!PoolRequestsMatchRecord
<1>3. Proved!CapacityRespected => Pool!CapacityRespected
  <2>1. \A S : Pool!Cardinality(S) = Proved!Cardinality(S)
    BY Zenon DEF Pool!Cardinality, Proved!Cardinality
  <2>2. QED
    BY <2>1 DEF Pool!CapacityRespected, Proved!CapacityRespected
<1>4. Proved!RequestsAlternate => Pool!RequestsAlternate
  BY DEF Pool!RequestsAlternate, Proved!RequestsAlternate, Pool!Alternates,
         Proved!Alternates, Pool!Consecutive, Proved!Consecutive
<1>5. Proved!RecordFollowsRequests => Pool!RecordFollowsRequests
  BY DEF Pool!RecordFollowsRequests, Proved!RecordFollowsRequests, Pool!Follows,
         Proved!Follows, Pool!IsLast, Proved!IsLast
<1>6. QED
  BY <1>1, <1>2, <1>3, <1>4, <1>5, DispatcherUsesPool, SamePool, PTL

\* Every variable of the dispatcher and of the pool under it keeps its type.
THEOREM DispatcherTypeCorrect == Spec => []TypeOK
<1>1. Proved!Spec => []Proved!TypeOK
  BY PoolAssumption, FiniteInstruments, Proved!PoolTypeCorrect
<1>2. Proved!TypeOK => Pool!TypeOK
  BY DEF Pool!TypeOK, Proved!TypeOK, Pool!Statuses, Proved!Statuses, Pool!Phases,
         Proved!Phases, Pool!Fronts, Proved!Fronts, Pool!Request, Proved!Request
<1>3. TypeInv /\ Pool!TypeOK => TypeOK
  BY DEF TypeInv, TablesTyped, TypeOK
<1>4. QED
  BY <1>1, <1>2, <1>3, TablesTypeCorrect, DispatcherUsesPool, SamePool, PTL

-----------------------------------------------------------------------------
(* The tables agree, and a failover works on what it found *)

\* At most one thread is inside handle_connection_failure.
Exclusive ==
  \A t, u \in Threads : At(t, "migrate") /\ At(u, "migrate") => t = u

\* TablesAgree is not inductive alone: a migration makes an entry live without
\* asking whether any session still wants it.  That is right because nobody
\* else changes the listed entries meanwhile, which needs Exclusive.
AgreementInv == TypeInv /\ Exclusive /\ TablesAgree /\ MigrationListIsFresh

\* A step under the free mutex that starts no migration need not care for one.
LEMMA NobodyMigrates ==
  ASSUME Unlocked, \A t \in Threads : pc'[t] = "migrate" => pc[t] = "migrate"
  PROVE  Exclusive' /\ MigrationListIsFresh'
BY DEF Unlocked, Exclusive, MigrationListIsFresh, At

\* Requests of sessions keep the agreement.
LEMMA SessionStepAgrees ==
  ASSUME AgreementInv, NEW s \in Sessions, SessionStep(s)
  PROVE  Exclusive' /\ TablesAgree' /\ MigrationListIsFresh'
<1> USE DEF AgreementInv, TypeInv, TablesTyped, Exists
<1>1. NoEntry.status = "CANCELLED" /\ NoEntry.sessions = {}
  BY DEF NoEntry
<1>2. ASSUME NEW i \in Instruments, AddSubscription(s, i)
      PROVE  Exclusive' /\ TablesAgree' /\ MigrationListIsFresh'
  <2>1. Exclusive' /\ MigrationListIsFresh'
    BY <1>2, NobodyMigrates DEF AddSubscription, threadVars
  <2>2. CASE Exists(i)
    <3>1. global_subscriptions' =
            [global_subscriptions EXCEPT ![i].sessions = @ \cup {s}]
      BY <1>2, <2>2 DEF AddSubscription
    <3>2. global_subscriptions[i] \in SubscriptionInfo
      OBVIOUS
    <3>3. /\ global_subscriptions'[i].sessions = global_subscriptions[i].sessions \cup {s}
          /\ global_subscriptions'[i].status = global_subscriptions[i].status
      BY <3>1, <3>2 DEF SubscriptionInfo
    <3>4. TablesAgree'
      BY <1>2, <2>2, <3>1, <3>3 DEF AddSubscription, TablesAgree
    <3>5. QED
      BY <2>1, <3>4
  <2>3. CASE ~Exists(i)
    <3>1. \A c, ok : /\ NewEntry(s, c, ok).status # "CANCELLED"
                    /\ NewEntry(s, c, ok).sessions = {s}
      BY DEF NewEntry
    <3>2. PICK c, ok : global_subscriptions' =
                         [global_subscriptions EXCEPT ![i] = NewEntry(s, c, ok)]
      BY <1>2, <2>3 DEF AddSubscription
    <3>3. TablesAgree'
      BY <1>2, <3>1, <3>2 DEF AddSubscription, TablesAgree
    <3>4. QED
      BY <2>1, <3>3
  <2>4. QED
    BY <2>2, <2>3
<1>3. ASSUME NEW i \in Instruments, RemoveFor(s, i)
      PROVE  Exclusive' /\ TablesAgree' /\ MigrationListIsFresh'
  <2>1. Exclusive' /\ MigrationListIsFresh'
    BY <1>3, NobodyMigrates DEF RemoveFor, threadVars
  <2> DEFINE rest == global_subscriptions[i].sessions \ {s}
  <2>2. CASE Exists(i) /\ rest = {}
    <3>1. global_subscriptions' = [global_subscriptions EXCEPT ![i] = NoEntry]
      BY <1>3, <2>2 DEF RemoveFor
    <3>2. TablesAgree'
      BY <1>1, <1>3, <2>2, <3>1 DEF RemoveFor, TablesAgree
    <3>3. QED
      BY <2>1, <3>2
  <2>3. CASE ~Exists(i) \/ rest # {}
    <3>1. global_subscriptions' = [global_subscriptions EXCEPT ![i].sessions = rest]
      BY <1>3, <2>3 DEF RemoveFor
    <3>2. global_subscriptions[i] \in SubscriptionInfo
      OBVIOUS
    <3>3. /\ global_subscriptions'[i].sessions = rest
          /\ global_subscriptions'[i].status = global_subscriptions[i].status
      BY <3>1, <3>2 DEF SubscriptionInfo
    <3>4. Exists(i) <=> rest # {}
      BY <2>3 DEF TablesAgree
    <3>5. TablesAgree'
      BY <1>3, <3>1, <3>3, <3>4 DEF RemoveFor, TablesAgree
    <3>6. QED
      BY <2>1, <3>5
  <2>4. QED
    BY <2>2, <2>3
<1>4. CASE RemoveAllBegin(s)
  BY <1>4 DEF RemoveAllBegin, tables, threadVars, Exclusive, TablesAgree,
              MigrationListIsFresh, At
<1>5. CASE RemoveAllNext(s)
  BY <1>3, <1>5 DEF RemoveAllNext
<1>6. QED
  BY <1>2, <1>3, <1>4, <1>5, SessionStep(s) DEF SessionStep, RemoveSubscription

\* Steps that neither make nor delete entries, nor touch a session's claims.
LEMMA SameClaims ==
  ASSUME TablesAgree, session_subscriptions' = session_subscriptions,
         \A i \in Instruments :
           /\ global_subscriptions'[i].sessions = global_subscriptions[i].sessions
           /\ global_subscriptions'[i].status = "CANCELLED"
                <=> global_subscriptions[i].status = "CANCELLED"
  PROVE  TablesAgree'
BY DEF TablesAgree, Exists

\* What a change of status leaves of an entry.
LEMMA StatusWritten ==
  ASSUME NEW e \in SubscriptionInfo, NEW st, NEW c, NEW n
  PROVE  /\ LET f == [e EXCEPT !.status = st]
            IN  f.status = st /\ f.sessions = e.sessions /\ f.assigned = e.assigned
         /\ LET f == [e EXCEPT !.status = st, !.retries = n]
            IN  f.status = st /\ f.sessions = e.sessions
         /\ LET f == [e EXCEPT !.assigned = c, !.status = st]
            IN  f.status = st /\ f.sessions = e.sessions /\ f.assigned = c
         /\ LET f == [e EXCEPT !.assigned = c, !.status = st, !.retries = n]
            IN  f.status = st /\ f.sessions = e.sessions /\ f.assigned = c
BY DEF SubscriptionInfo

\* Failover and retry keep the agreement.
LEMMA ThreadStepAgrees ==
  ASSUME AgreementInv, NEW t \in Threads, ThreadStep(t)
  PROVE  Exclusive' /\ TablesAgree' /\ MigrationListIsFresh'
<1> USE DEF AgreementInv, TypeInv, TablesTyped
<1>1. \A i \in Instruments : global_subscriptions[i] \in SubscriptionInfo
  OBVIOUS
<1>2. CASE FailureBegin(t)
  <2>1. \A i \in Instruments :
          /\ global_subscriptions'[i].sessions = global_subscriptions[i].sessions
          /\ global_subscriptions'[i].assigned = global_subscriptions[i].assigned
          /\ global_subscriptions'[i].status =
               IF i \in affected' THEN "FAILED" ELSE global_subscriptions[i].status
    BY <1>1, <1>2 DEF FailureBegin, SubscriptionInfo
  <2>2. \A i \in affected' : /\ i \in Instruments
                            /\ global_subscriptions[i].status = "ACTIVE"
                            /\ global_subscriptions[i].assigned = failing[t]
    BY <1>2 DEF FailureBegin, CarriedBy
  <2>3. TablesAgree'
    BY <1>2, <2>1, <2>2, SameClaims DEF FailureBegin
  <2>4. \A u \in Threads : pc'[u] = "migrate" => u = t
    BY <1>2 DEF FailureBegin, Unlocked, At, GoTo
  <2>5. Exclusive'
    BY <2>4 DEF Exclusive, At
  <2>6. \A i \in affected' : global_subscriptions[i].sessions # {}
    BY <2>2 DEF TablesAgree, Exists
  <2>7. MigrationListIsFresh'
    <3> SUFFICES ASSUME NEW u \in Threads, pc'[u] = "migrate", NEW i \in affected'
                 PROVE  /\ global_subscriptions'[i].status = "FAILED"
                        /\ global_subscriptions'[i].assigned = failing'[u]
                        /\ global_subscriptions'[i].sessions # {}
      BY DEF MigrationListIsFresh, At
    <3>1. u = t /\ failing' = failing
      BY <1>2, <2>4 DEF FailureBegin
    <3>2. QED
      BY <2>1, <2>2, <2>6, <3>1
  <2>8. QED
    BY <2>3, <2>5, <2>7
<1>3. ASSUME NEW i \in Instruments, MigrateOne(t, i)
      PROVE  Exclusive' /\ TablesAgree' /\ MigrationListIsFresh'
  <2>1. /\ global_subscriptions[i].status = "FAILED"
        /\ global_subscriptions[i].sessions # {}
    BY <1>3 DEF MigrateOne, MigrationListIsFresh
  <2>2. \A j \in Instruments \ {i} : global_subscriptions'[j] = global_subscriptions[j]
    BY <1>3 DEF MigrateOne
  <2>3. /\ global_subscriptions'[i].sessions = global_subscriptions[i].sessions
        /\ global_subscriptions'[i].status \in {"SUBSCRIBING", "FAILED"}
    <3>1. CASE UNCHANGED global_subscriptions
      BY <2>1, <3>1
    <3>2. CASE global_subscriptions' # global_subscriptions
      <4>1. PICK c \in Pool!Available, ok \in BOOLEAN :
              global_subscriptions' =
                [global_subscriptions EXCEPT
                   ![i].assigned = c,
                   ![i].status = IF ok THEN "SUBSCRIBING" ELSE "FAILED",
                   ![i].retries = 0]
        BY <1>3, <3>2 DEF MigrateOne
      <4> DEFINE e == [global_subscriptions[i] EXCEPT
                         !.assigned = c,
                         !.status = IF ok THEN "SUBSCRIBING" ELSE "FAILED",
                         !.retries = 0]
      <4>2. /\ e.sessions = global_subscriptions[i].sessions
            /\ e.status \in {"SUBSCRIBING", "FAILED"}
        BY <1>1, StatusWritten
      <4>3. global_subscriptions'[i] = e
        BY <4>1
      <4>4. QED
        BY <4>2, <4>3
    <3>3. QED
      BY <3>1, <3>2
  <2>4. TablesAgree'
    BY <1>3, <2>1, <2>2, <2>3, SameClaims DEF MigrateOne
  <2>5. Exclusive'
    BY <1>3 DEF MigrateOne, Exclusive, At
  <2>6. MigrationListIsFresh'
    <3> SUFFICES ASSUME NEW u \in Threads, pc'[u] = "migrate", NEW j \in affected'
                 PROVE  /\ global_subscriptions'[j].status = "FAILED"
                        /\ global_subscriptions'[j].assigned = failing'[u]
                        /\ global_subscriptions'[j].sessions # {}
      BY DEF MigrationListIsFresh, At
    <3>1. /\ pc[u] = "migrate" /\ failing' = failing
          /\ j \in affected /\ j \in Instruments \ {i}
      BY <1>3 DEF MigrateOne
    <3>2. QED
      BY <2>2, <3>1 DEF MigrationListIsFresh, At
  <2>7. QED
    BY <2>4, <2>5, <2>6
<1>4. CASE FailureEnd(t)
  <2>1. \A u \in Threads : pc'[u] # "migrate"
    BY <1>4 DEF FailureEnd, Exclusive, At, GoTo
  <2>2. TablesAgree'
    BY <1>4 DEF FailureEnd, TablesAgree, Exists
  <2>3. QED
    BY <2>1, <2>2 DEF Exclusive, MigrationListIsFresh, At
<1>5. CASE TakeRetryQueue(t)
  <2>1. \A u \in Threads : pc'[u] = "migrate" => pc[u] = "migrate"
    BY <1>5 DEF TakeRetryQueue, AfterRetry, GoTo
  <2>2. QED
    BY <1>5, <2>1 DEF TakeRetryQueue, tables, Exclusive, TablesAgree, Exists,
                      MigrationListIsFresh, At
<1>6. CASE RetryOne(t)
  <2>1. \A u \in Threads : pc'[u] = "migrate" => pc[u] = "migrate"
    BY <1>6 DEF RetryOne, AfterRetry, GoTo
  <2>2. Exclusive' /\ MigrationListIsFresh'
    BY <1>6, <2>1, NobodyMigrates DEF RetryOne
  <2>3. \A i \in Instruments :
          /\ global_subscriptions'[i].sessions = global_subscriptions[i].sessions
          /\ global_subscriptions'[i].status = "CANCELLED"
               <=> global_subscriptions[i].status = "CANCELLED"
    <3>1. CASE UNCHANGED global_subscriptions
      BY <3>1
    <3>2. CASE global_subscriptions' # global_subscriptions
      <4> DEFINE i == Head(work[t])
      <4>1. PICK c \in Pool!Available, ok \in BOOLEAN :
              global_subscriptions' =
                [global_subscriptions EXCEPT
                   ![i].assigned = c,
                   ![i].status = IF ok THEN "SUBSCRIBING" ELSE "FAILED"]
        BY <1>6, <3>2 DEF RetryOne
      <4>2. i \in Instruments /\ global_subscriptions[i].status = "FAILED"
        BY <1>6, <3>2, HeadTailProperties DEF RetryOne, RetryHasWork
      <4> DEFINE e == [global_subscriptions[i] EXCEPT
                         !.assigned = c,
                         !.status = IF ok THEN "SUBSCRIBING" ELSE "FAILED"]
      <4>3. /\ e.sessions = global_subscriptions[i].sessions
            /\ e.status # "CANCELLED"
        BY <1>1, <4>2, StatusWritten
      <4>4. global_subscriptions'[i] = e
        BY <4>1, <4>2
      <4>5. \A j \in Instruments \ {i} : global_subscriptions'[j] = global_subscriptions[j]
        BY <4>1
      <4>6. QED
        BY <4>2, <4>3, <4>4, <4>5
    <3>3. QED
      BY <3>1, <3>2
  <2>4. QED
    BY <1>6, <2>2, <2>3, SameClaims DEF RetryOne
<1>7. QED
  BY <1>2, <1>3, <1>4, <1>5, <1>6, ThreadStep(t) DEF ThreadStep

\* Callbacks keep the agreement.
LEMMA CallbackStepAgrees ==
  ASSUME AgreementInv, NEW c \in Connections, CallbackStep(c)
  PROVE  Exclusive' /\ TablesAgree' /\ MigrationListIsFresh'
<1> USE DEF AgreementInv, TypeInv, TablesTyped
<1>1. \A i \in Instruments : global_subscriptions[i] \in SubscriptionInfo
  OBVIOUS
<1>2. CASE ConnectionLost(c)
  <2>1. \A u \in Threads : pc'[u] = "migrate" => pc[u] = "migrate" /\ u # c
    BY <1>2 DEF ConnectionLost, GoTo, At
  <2>2. QED
    BY <1>2, <2>1 DEF ConnectionLost, tables, Exclusive, TablesAgree, Exists,
                      MigrationListIsFresh, At
<1>3. CASE ConnectionRecovered(c)
  <2>1. \A u \in Threads : pc'[u] = "migrate" => pc[u] = "migrate"
    BY <1>3 DEF ConnectionRecovered, GoTo
  <2>2. QED
    BY <1>3, <2>1 DEF ConnectionRecovered, tables, Exclusive, TablesAgree, Exists,
                      MigrationListIsFresh, At
<1>4. CASE FrontConnected(c) \/ LoginFailed(c) \/ ErrorStorm(c)
  BY <1>4 DEF FrontConnected, LoginFailed, ErrorStorm, tables, threadVars,
              Exclusive, TablesAgree, Exists, MigrationListIsFresh, At
<1>5. ASSUME NEW i \in Instruments, SubscriptionSuccess(c, i)
      PROVE  Exclusive' /\ TablesAgree' /\ MigrationListIsFresh'
  <2>1. \A j \in Instruments :
          /\ global_subscriptions'[j].sessions = global_subscriptions[j].sessions
          /\ global_subscriptions'[j].status = "CANCELLED"
               <=> global_subscriptions[j].status = "CANCELLED"
    <3>1. CASE ~Exists(i)
      BY <1>5, <3>1 DEF SubscriptionSuccess
    <3>2. CASE Exists(i)
      <4> DEFINE e == [global_subscriptions[i] EXCEPT !.status = "ACTIVE"]
      <4>1. global_subscriptions' = [global_subscriptions EXCEPT ![i] = e]
        BY <1>5, <3>2 DEF SubscriptionSuccess
      <4>2. e.sessions = global_subscriptions[i].sessions /\ e.status = "ACTIVE"
        BY <1>1, StatusWritten
      <4> HIDE DEF e
      <4>3. QED
        BY <3>2, <4>1, <4>2 DEF Exists
    <3>3. QED
      BY <3>1, <3>2
  <2>2. QED
    BY <1>5, <2>1, SameClaims, NobodyMigrates DEF SubscriptionSuccess, threadVars
<1>6. ASSUME NEW i \in Instruments, SubscriptionFailed(c, i)
      PROVE  Exclusive' /\ TablesAgree' /\ MigrationListIsFresh'
  <2> DEFINE e == [global_subscriptions[i] EXCEPT !.status = "FAILED", !.retries = Bump(@)]
  <2>1. CASE UNCHANGED <<global_subscriptions, retry_queue>>
    BY <1>6, <2>1 DEF SubscriptionFailed, threadVars, Exclusive, TablesAgree, Exists,
                      MigrationListIsFresh, At
  <2>2. CASE Exists(i) /\ Unlocked /\ global_subscriptions' = [global_subscriptions EXCEPT ![i] = e]
    <3>1. e.sessions = global_subscriptions[i].sessions /\ e.status = "FAILED"
      BY <1>1, StatusWritten
    <3> HIDE DEF e
    <3>2. \A j \in Instruments :
            /\ global_subscriptions'[j].sessions = global_subscriptions[j].sessions
            /\ global_subscriptions'[j].status = "CANCELLED"
                 <=> global_subscriptions[j].status = "CANCELLED"
      BY <2>2, <3>1 DEF Exists
    <3>3. QED
      BY <1>6, <2>2, <3>2, SameClaims, NobodyMigrates DEF SubscriptionFailed, threadVars
  <2>3. QED
    BY <1>6, <2>1, <2>2 DEF SubscriptionFailed
<1>7. ASSUME NEW i \in Instruments,
             UnsubscriptionSuccess(c, i) \/ UnsubscriptionFailed(c, i)
      PROVE  Exclusive' /\ TablesAgree' /\ MigrationListIsFresh'
  BY <1>7 DEF UnsubscriptionSuccess, UnsubscriptionFailed, tables, threadVars,
              Exclusive, TablesAgree, Exists, MigrationListIsFresh, At
<1>8. QED
  BY <1>2, <1>3, <1>4, <1>5, <1>6, <1>7, CallbackStep(c) DEF CallbackStep

\* The three facts hold together, always.
THEOREM AgreementHolds == Spec => [](Exclusive /\ TablesAgree /\ MigrationListIsFresh)
<1> DEFINE Inv == Exclusive /\ TablesAgree /\ MigrationListIsFresh
<1>1. Init => Inv
  BY DEF Init, NoEntry, Exclusive, TablesAgree, Exists, MigrationListIsFresh, At
<1>2. TypeInv /\ Inv /\ [Next]_vars => Inv'
  <2> SUFFICES ASSUME TypeInv, Inv, [Next]_vars PROVE Inv'
    OBVIOUS
  <2> USE DEF GoTo, At, Threads
  <2>1. AgreementInv
    BY DEF AgreementInv
  <2>2. CASE UNCHANGED vars
    BY <2>2 DEF vars, tables, threadVars, Exclusive, TablesAgree, Exists,
                MigrationListIsFresh
  <2>3. ASSUME NEW c \in Connections, HeartbeatTimeout(c) PROVE Inv'
    <3>1. /\ \A u \in Threads : pc'[u] = "migrate" => pc[u] = "migrate" /\ u # Health
          /\ \A u \in Threads \ {Health} : failing'[u] = failing[u]
      BY <2>3 DEF HeartbeatTimeout, TypeInv, TablesTyped
    <3>2. QED
      BY <2>3, <3>1 DEF HeartbeatTimeout, tables, Exclusive, TablesAgree, Exists,
                        MigrationListIsFresh
  <2>4. ASSUME NEW c \in Connections, HealthRestart(c) PROVE Inv'
    BY <2>4 DEF HealthRestart, tables, threadVars, Exclusive, TablesAgree, Exists,
                MigrationListIsFresh
  <2>5. CASE MaintenanceDue
    <3>1. \A u \in Threads : pc'[u] = "migrate" => pc[u] = "migrate"
      BY <2>5 DEF MaintenanceDue, TypeInv, TablesTyped
    <3>2. QED
      BY <2>5, <3>1 DEF MaintenanceDue, tables, Exclusive, TablesAgree, Exists,
                        MigrationListIsFresh
  <2>6. CASE Cleanup
    <3>1. \A u \in Threads : pc'[u] = "migrate" => pc[u] = "migrate"
      BY <2>6 DEF Cleanup, TypeInv, TablesTyped
    <3>2. Exclusive' /\ MigrationListIsFresh'
      BY <2>6, <3>1, NobodyMigrates DEF Cleanup
    <3>3. \A i \in Instruments : global_subscriptions'[i] \in {global_subscriptions[i], NoEntry}
      BY <2>6 DEF Cleanup
    <3>4. NoEntry.status = "CANCELLED" /\ NoEntry.sessions = {}
      BY DEF NoEntry
    <3>5. TablesAgree'
      BY <2>6, <3>3, <3>4 DEF Cleanup, TablesAgree, Exists
    <3>6. QED
      BY <3>2, <3>5
  <2>7. QED
    BY <2>1, <2>2, <2>3, <2>4, <2>5, <2>6,
       SessionStepAgrees, CallbackStepAgrees, ThreadStepAgrees DEF Next
<1>3. QED
  BY <1>1, <1>2, TablesTypeCorrect, PTL DEF Spec

\* Every entry of the global table is claimed by a session, and every claim is
\* in the table by which the session's destructor removes it, although the
\* two tables are under two mutexes and expiry erases from one of them.
THEOREM TablesAlwaysAgree == Spec => []TablesAgree
BY AgreementHolds, PTL

\* A failover writes to entries that are still failed, still wanted and still
\* assigned to the connection that was lost.
THEOREM MigrationIsAlwaysFresh == Spec => []MigrationListIsFresh
BY AgreementHolds, PTL

-----------------------------------------------------------------------------
(* Who stops carrying an instrument *)

\* No connection stops carrying anything in this step.
Keeps == \A c \in Connections : subscribed[c] \subseteq subscribed'[c]

OnlyTheLast ==
  \A c \in Connections : \A i \in subscribed[c] :
    i \notin subscribed'[c] =>
      \/ restarting[c] = "stopping"
      \/ Exists(i) /\ ~Exists(i)'

LEMMA KeepsIsEnough == Keeps => OnlyTheLast
BY DEF Keeps, OnlyTheLast

\* Subscribing adds, and answers and sessions leave the record alone.
LEMMA SubscribingKeeps ==
  ASSUME TypeOK, NEW c \in Connections, NEW i \in Instruments, NEW ok \in BOOLEAN,
         Pool!SubscribeInstrument(c, i, ok)
  PROVE  Keeps
<1>1. subscribed \in [Connections -> SUBSET Instruments]
  BY DEF TypeOK, Pool!TypeOK
<1>2. UNCHANGED subscribed \/ subscribed' = [subscribed EXCEPT ![c] = @ \cup {i}]
  BY DEF Pool!SubscribeInstrument
<1>3. QED
  BY <1>1, <1>2 DEF Keeps

LEMMA CallbacksKeep ==
  ASSUME NEW c \in Connections, CallbackStep(c)
  PROVE  Keeps
<1>1. UNCHANGED subscribed
  BY DEF CallbackStep, ConnectionLost, ConnectionRecovered, FrontConnected,
         LoginFailed, ErrorStorm, SubscriptionSuccess, SubscriptionFailed,
         UnsubscriptionSuccess, UnsubscriptionFailed, Pool!OnFrontDisconnected,
         Pool!LoggedIn, Pool!OnFrontConnected, Pool!LoginRejected, Pool!TooManyErrors,
         Pool!Subscribed, Pool!SubscribeRejected, Pool!Unsubscribed,
         Pool!UnsubscribeRejected, Pool!Answer
<1>2. QED
  BY <1>1 DEF Keeps

\* A removal tells CTP only for the last session, whose leaving erases the entry.
LEMMA RemovingIsLast ==
  ASSUME TypeOK, NEW s \in Sessions, NEW i \in Instruments, RemoveFor(s, i)
  PROVE  OnlyTheLast
<1> DEFINE a == global_subscriptions[i].assigned
<1>0. /\ subscribed \in [Connections -> SUBSET Instruments]
      /\ global_subscriptions \in [Instruments -> SubscriptionInfo]
      /\ a \in Connections \cup {NoConnection}
  BY DEF TypeOK, Pool!TypeOK, SubscriptionInfo
<1>1. CASE UNCHANGED subscribed
  BY <1>1 DEF OnlyTheLast
<1>2. CASE /\ Exists(i)
           /\ ExecuteUnsubscription(a, i)
           /\ global_subscriptions' = [global_subscriptions EXCEPT ![i] = NoEntry]
  <2>1. Exists(i) /\ ~Exists(i)'
    BY <1>0, <1>2 DEF Exists, NoEntry
  <2>2. \/ UNCHANGED subscribed
        \/ a \in Connections /\ subscribed' = [subscribed EXCEPT ![a] = @ \ {i}]
    BY <1>0, <1>2 DEF ExecuteUnsubscription, Pool!UnsubscribeInstrument, connVars
  <2>3. \A c \in Connections : \A j \in subscribed[c] : j \notin subscribed'[c] => j = i
    BY <1>0, <2>2
  <2>4. QED
    BY <2>1, <2>3 DEF OnlyTheLast
<1>3. QED
  BY <1>1, <1>2 DEF RemoveFor, connVars

\* A connection stops carrying an instrument only when the last session that
\* wanted it leaves, or when the connection itself is stopped.
THEOREM OnlyTheLastEverUnsubscribes == Spec => OnlyTheLastUnsubscribes
<1>1. TypeOK /\ TypeInv /\ [Next]_vars => [OnlyTheLast]_vars
  <2> SUFFICES ASSUME TypeOK, TypeInv, [Next]_vars PROVE OnlyTheLast \/ UNCHANGED vars
    OBVIOUS
  <2>1. UNCHANGED connVars => Keeps
    BY DEF connVars, Keeps
  <2>2. Pool!Available \subseteq Connections
    BY DEF Pool!Available
  <2>3. ASSUME NEW s \in Sessions, SessionStep(s) PROVE OnlyTheLast
    <3>1. CASE RemoveAllBegin(s)
      BY <2>1, <3>1, KeepsIsEnough DEF RemoveAllBegin
    <3>2. CASE RemoveAllNext(s)
      BY <3>2, RemovingIsLast DEF RemoveAllNext, TypeOK
    <3>3. ASSUME NEW i \in Instruments, AddSubscription(s, i) PROVE OnlyTheLast
      BY <2>1, <2>2, <3>3, SubscribingKeeps, KeepsIsEnough DEF AddSubscription
    <3>4. ASSUME NEW i \in Instruments, RemoveSubscription(s, i) PROVE OnlyTheLast
      BY <3>4, RemovingIsLast DEF RemoveSubscription
    <3>5. QED
      BY <2>3, <3>1, <3>2, <3>3, <3>4 DEF SessionStep
  <2>4. ASSUME NEW c \in Connections, CallbackStep(c) PROVE OnlyTheLast
    BY <2>4, CallbacksKeep, KeepsIsEnough
  <2>5. ASSUME NEW t \in Threads, ThreadStep(t) PROVE OnlyTheLast
    <3>1. CASE FailureBegin(t) \/ FailureEnd(t) \/ TakeRetryQueue(t)
      BY <2>1, <3>1, KeepsIsEnough DEF FailureBegin, FailureEnd, TakeRetryQueue
    <3>2. ASSUME NEW i \in Instruments, MigrateOne(t, i) PROVE OnlyTheLast
      BY <2>1, <2>2, <3>2, SubscribingKeeps, KeepsIsEnough DEF MigrateOne
    <3>3. CASE RetryOne(t)
      <4>1. Head(work[t]) \in Instruments
        BY <3>3, HeadTailProperties DEF RetryOne, TypeInv, TablesTyped, RetryHasWork
      <4>2. QED
        BY <2>1, <2>2, <3>3, <4>1, SubscribingKeeps, KeepsIsEnough DEF RetryOne
    <3>4. QED
      BY <2>5, <3>1, <3>2, <3>3 DEF ThreadStep
  <2>6. ASSUME NEW c \in Connections, HeartbeatTimeout(c) PROVE OnlyTheLast
    BY <2>1, <2>6, KeepsIsEnough DEF HeartbeatTimeout
  <2>7. ASSUME NEW c \in Connections, HealthRestart(c) PROVE OnlyTheLast
    <3>1. CASE UNCHANGED subscribed
      BY <3>1 DEF OnlyTheLast
    <3>2. CASE Pool!StopEnd(c)
      BY <3>2 DEF Pool!StopEnd, OnlyTheLast, TypeOK, Pool!TypeOK
    <3>3. QED
      BY <2>7, <3>1, <3>2 DEF HealthRestart, Pool!ChooseForRestart, Pool!StopBegin, Pool!Start
  <2>8. CASE MaintenanceDue \/ Cleanup
    BY <2>1, <2>8, KeepsIsEnough DEF MaintenanceDue, Cleanup
  <2>9. QED
    BY <2>3, <2>4, <2>5, <2>6, <2>7, <2>8 DEF Next
<1>2. Spec => [][OnlyTheLast]_vars
  BY <1>1, DispatcherTypeCorrect, TablesTypeCorrect, PTL DEF Spec
<1>3. QED
  BY <1>2 DEF OnlyTheLastUnsubscribes, OnlyTheLast

-----------------------------------------------------------------------------
(* Sessions that leave *)

\* What a leaving session still has is in its snapshot.
LeavingIsRest ==
  \A s \in Sessions : leaving[s] # {} => session_subscriptions[s] \subseteq leaving[s]

\* When a snapshot is used up the session has nothing.
NothingLeft ==
  \A s \in Sessions : leaving[s] # {} /\ leaving'[s] = {} => session_subscriptions'[s] = {}

\* Only sessions' own steps touch their instruments and their snapshots.
LEMMA OthersLeaveSessions ==
  ASSUME [Next]_vars, ~ \E s \in Sessions : SessionStep(s)
  PROVE  UNCHANGED <<session_subscriptions, leaving>>
BY DEF Next, vars, tables, threadVars, CallbackStep, ThreadStep, ConnectionLost,
       ConnectionRecovered, FrontConnected, LoginFailed, ErrorStorm,
       SubscriptionSuccess, SubscriptionFailed, UnsubscriptionSuccess,
       UnsubscriptionFailed, FailureBegin, MigrateOne, FailureEnd, TakeRetryQueue,
       RetryOne, HeartbeatTimeout, HealthRestart, MaintenanceDue, Cleanup

\* A session's step keeps the snapshot ahead of the table.
LEMMA SessionLeaves ==
  ASSUME TypeInv, LeavingIsRest, NEW s \in Sessions, SessionStep(s)
  PROVE  LeavingIsRest' /\ NothingLeft
<1>1. /\ session_subscriptions \in [Sessions -> SUBSET Instruments]
      /\ leaving \in [Sessions -> SUBSET Instruments]
  BY DEF TypeInv, TablesTyped
<1>2. CASE RemoveAllBegin(s)
  BY <1>1, <1>2 DEF RemoveAllBegin, tables, LeavingIsRest, NothingLeft
<1>3. CASE RemoveAllNext(s)
  <2>1. PICK i \in leaving[s] :
          /\ session_subscriptions' = [session_subscriptions EXCEPT ![s] = @ \ {i}]
          /\ leaving' = [leaving EXCEPT ![s] = @ \ {i}]
    BY <1>3 DEF RemoveAllNext, RemoveFor
  <2>2. QED
    BY <1>1, <2>1 DEF LeavingIsRest, NothingLeft
<1>4. ASSUME NEW i \in Instruments, AddSubscription(s, i) \/ RemoveSubscription(s, i)
      PROVE  LeavingIsRest' /\ NothingLeft
  <2>1. /\ leaving[s] = {} /\ leaving' = leaving
        /\ \A r \in Sessions \ {s} : session_subscriptions'[r] = session_subscriptions[r]
    BY <1>1, <1>4 DEF AddSubscription, RemoveSubscription, RemoveFor
  <2>2. QED
    BY <2>1 DEF LeavingIsRest, NothingLeft
<1>5. QED
  BY <1>2, <1>3, <1>4 DEF SessionStep

\* A session whose destructor is through with its snapshot is in no table,
\* whatever was failed, migrated, retried or erased in the meantime.
THEOREM SessionsLeaveForGood == Spec => LeftForGood
<1>1. Init => LeavingIsRest
  BY DEF Init, LeavingIsRest
<1>2. TypeInv /\ LeavingIsRest /\ [Next]_vars => LeavingIsRest' /\ NothingLeft
  <2> SUFFICES ASSUME TypeInv, LeavingIsRest, [Next]_vars
               PROVE  LeavingIsRest' /\ NothingLeft
    OBVIOUS
  <2>1. CASE \E s \in Sessions : SessionStep(s)
    BY <2>1, SessionLeaves
  <2>2. CASE ~ \E s \in Sessions : SessionStep(s)
    BY <2>2, OthersLeaveSessions DEF LeavingIsRest, NothingLeft
  <2>3. QED
    BY <2>1, <2>2
<1> DEFINE Left ==
      \A s \in Sessions : leaving[s] # {} /\ leaving'[s] = {} =>
        /\ session_subscriptions'[s] = {}
        /\ \A i \in Instruments : s \notin global_subscriptions'[i].sessions
<1>3. NothingLeft /\ TablesAgree' => Left
  BY DEF NothingLeft, TablesAgree
<1>4. Spec => [][Left]_vars
  <2> HIDE DEF Left
  <2>1. QED
    BY <1>1, <1>2, <1>3, TablesTypeCorrect, TablesAlwaysAgree, PTL DEF Spec
<1>5. QED
  BY <1>4 DEF LeftForGood

-----------------------------------------------------------------------------
(* Progress of the handlers *)

\* Steps that leave every thread where it is, with its work.
LEMMA NobodyMoves ==
  ASSUME UNCHANGED <<pc, work, affected>>, NEW t \in Threads
  PROVE  LeftAlone(t)
BY DEF LeftAlone

\* A thread inside the dispatcher gets nearer to its end, or is left alone.
\* That it is not left alone for ever is what the scheduler has to see to.
THEOREM HandlersAlwaysAdvance == Spec => HandlersAdvance
<1> DEFINE Advance == \A t \in Threads : ~At(t, "idle") => Nearer(t) \/ LeftAlone(t)
<1>1. TypeInv /\ Exclusive /\ [Next]_vars => [Advance]_vars
  <2> SUFFICES ASSUME TypeInv, Exclusive, Next, NEW t \in Threads, ~At(t, "idle")
               PROVE  Nearer(t) \/ LeftAlone(t)
    OBVIOUS
  <2>1. /\ pc \in [Threads -> Places] /\ work \in [Threads -> Seq(Instruments)]
        /\ Connections \subseteq Threads /\ Maintenance \in Threads /\ Health \in Threads
    BY DEF TypeInv, TablesTyped, Threads
  <2>2. ASSUME NEW s \in Sessions, SessionStep(s) PROVE LeftAlone(t)
    BY <2>2, NobodyMoves DEF SessionStep, AddSubscription, RemoveSubscription, RemoveFor,
                             RemoveAllBegin, RemoveAllNext, threadVars
  <2>3. ASSUME NEW c \in Connections, CallbackStep(c) PROVE LeftAlone(t)
    <3>1. CASE ConnectionLost(c) \/ ConnectionRecovered(c)
      BY <2>1, <3>1 DEF ConnectionLost, ConnectionRecovered, GoTo, At, LeftAlone
    <3>2. CASE UNCHANGED <<pc, work, affected>>
      BY <3>2, NobodyMoves
    <3>3. QED
      BY <2>3, <3>1, <3>2
         DEF CallbackStep, FrontConnected, LoginFailed, ErrorStorm, SubscriptionSuccess,
             SubscriptionFailed, UnsubscriptionSuccess, UnsubscriptionFailed, threadVars
  <2>4. ASSUME NEW u \in Threads, ThreadStep(u) PROVE Nearer(t) \/ LeftAlone(t)
    <3> USE DEF GoTo, At, Nearer, LeftAlone
    <3>1. CASE FailureBegin(u)
      BY <2>1, <3>1 DEF FailureBegin, Unlocked
    <3>2. ASSUME NEW i \in Instruments, MigrateOne(u, i) PROVE Nearer(t) \/ LeftAlone(t)
      BY <3>2 DEF MigrateOne, Exclusive
    <3>3. CASE FailureEnd(u)
      BY <2>1, <3>3 DEF FailureEnd
    <3>4. CASE TakeRetryQueue(u)
      BY <2>1, <3>4 DEF TakeRetryQueue
    <3>5. CASE RetryOne(u)
      <4>1. /\ work' = [work EXCEPT ![u] = Tail(@)]
            /\ pc' = [pc EXCEPT ![u] = IF Tail(work[u]) = <<>> THEN AfterRetry(u) ELSE "retry"]
            /\ pc[u] = "retry" /\ UNCHANGED affected
        BY <3>5 DEF RetryOne
      <4>2. work[u] \in Seq(Instruments) /\ work[u] # <<>>
        BY <2>1, <4>1 DEF TypeInv, RetryHasWork
      <4>3. Len(Tail(work[u])) < Len(work[u])
        BY <4>2
      <4>4. CASE t = u
        <5>1. pc'[t] \in {"retry", AfterRetry(t)} /\ work'[t] = Tail(work[t])
          BY <2>1, <4>1, <4>4
        <5>2. QED
          BY <4>1, <4>3, <4>4, <5>1
      <4>5. CASE t # u
        BY <2>1, <4>1, <4>5
      <4>6. QED
        BY <4>4, <4>5
    <3>6. QED
      BY <2>4, <3>1, <3>2, <3>3, <3>4, <3>5 DEF ThreadStep
  <2>5. ASSUME NEW c \in Connections, HeartbeatTimeout(c) PROVE LeftAlone(t)
    BY <2>1, <2>5 DEF HeartbeatTimeout, GoTo, At, LeftAlone
  <2>6. ASSUME NEW c \in Connections, HealthRestart(c) PROVE LeftAlone(t)
    BY <2>6, NobodyMoves DEF HealthRestart, threadVars
  <2>7. CASE MaintenanceDue
    BY <2>1, <2>7 DEF MaintenanceDue, GoTo, At, LeftAlone
  <2>8. CASE Cleanup
    BY <2>1, <2>8 DEF Cleanup, GoTo, At, Nearer, LeftAlone
  <2>9. QED
    BY <2>2, <2>3, <2>4, <2>5, <2>6, <2>7, <2>8 DEF Next
<1>2. Spec => [][Advance]_vars
  <2> HIDE DEF Advance
  <2>1. QED
    BY <1>1, TablesTypeCorrect, AgreementHolds, PTL DEF Spec
<1>3. QED
  BY <1>2 DEF HandlersAdvance

-----------------------------------------------------------------------------
(* Reports of failed connections *)

\* A callback thread that is about to report a failure reports its own
\* connection, which is not logged in again before the report is through.  The
\* maintenance thread reports nothing.
ReportsAreFounded ==
  /\ \A c \in Connections : At(c, "failure") => failing[c] = c /\ status[c] # "LOGGED_IN"
  /\ ~At(Maintenance, "failure")

THEOREM ReportsAlwaysFounded == Spec => []ReportsAreFounded
<1>1. Init => ReportsAreFounded
  BY DEF Init, ReportsAreFounded, At, Threads
<1>2. TypeOK /\ TypeInv /\ ReportsAreFounded /\ [Next]_vars => ReportsAreFounded'
  <2> SUFFICES ASSUME TypeOK, TypeInv, ReportsAreFounded, [Next]_vars
               PROVE  ReportsAreFounded'
    OBVIOUS
  <2> USE DEF ReportsAreFounded, At, GoTo
  <2>1. /\ pc \in [Threads -> Places] /\ failing \in [Threads -> Connections \cup {NoConnection}]
        /\ status \in [Connections -> Pool!Statuses]
        /\ Connections \subseteq Threads
        /\ Maintenance \in Threads \ Connections /\ Health \in Threads \ Connections
        /\ Health # Maintenance
    BY ThreadsAssumption DEF TypeInv, TablesTyped, TypeOK, Pool!TypeOK, Threads
  <2>2. CASE UNCHANGED vars
    BY <2>2 DEF vars, connVars, threadVars
  <2>3. ASSUME NEW c \in Connections, NEW i \in Instruments, NEW ok \in BOOLEAN,
               \/ Pool!SubscribeInstrument(c, i, ok) \/ Pool!UnsubscribeInstrument(c, i)
               \/ Pool!Subscribed(c, i) \/ Pool!SubscribeRejected(c, i)
               \/ Pool!Unsubscribed(c, i) \/ Pool!UnsubscribeRejected(c, i)
        PROVE  UNCHANGED status
    BY <2>3 DEF Pool!SubscribeInstrument, Pool!UnsubscribeInstrument, Pool!Subscribed,
                Pool!SubscribeRejected, Pool!Unsubscribed, Pool!UnsubscribeRejected,
                Pool!Answer
  <2>4. Pool!Available \subseteq Connections
    BY DEF Pool!Available
  <2>5. ASSUME NEW s \in Sessions, SessionStep(s) PROVE ReportsAreFounded'
    <3>1. ASSUME NEW i \in Instruments, AddSubscription(s, i) PROVE ReportsAreFounded'
      <4>1. UNCHANGED <<status, pc, failing>>
        BY <2>3, <2>4, <3>1 DEF AddSubscription, connVars, threadVars
      <4>2. QED
        BY <4>1
    <3>2. ASSUME NEW i \in Instruments, RemoveFor(s, i) PROVE ReportsAreFounded'
      <4>1. global_subscriptions[i].assigned \in Connections \cup {NoConnection}
        BY DEF TypeInv, TablesTyped, SubscriptionInfo
      <4>2. UNCHANGED <<status, pc, failing>>
        BY <2>3, <3>2, <4>1 DEF RemoveFor, ExecuteUnsubscription, connVars, threadVars
      <4>3. QED
        BY <4>2
    <3>3. CASE RemoveAllBegin(s)
      BY <3>3 DEF RemoveAllBegin, connVars, threadVars
    <3>4. CASE RemoveAllNext(s)
      BY <3>2, <3>4 DEF RemoveAllNext, TypeInv, TablesTyped
    <3>5. QED
      BY <2>5, <3>1, <3>2, <3>3, <3>4 DEF SessionStep, RemoveSubscription
  <2>6. ASSUME NEW c \in Connections, CallbackStep(c) PROVE ReportsAreFounded'
    <3>1. CASE ConnectionLost(c)
      BY <2>1, <3>1 DEF ConnectionLost, Pool!OnFrontDisconnected
    <3>2. CASE ConnectionRecovered(c)
      BY <2>1, <3>2 DEF ConnectionRecovered, Pool!LoggedIn
    <3>3. CASE FrontConnected(c) \/ LoginFailed(c) \/ ErrorStorm(c)
      BY <2>1, <3>3 DEF FrontConnected, LoginFailed, ErrorStorm, Pool!OnFrontConnected,
                        Pool!LoginRejected, Pool!TooManyErrors, threadVars
    <3>4. ASSUME NEW i \in Instruments,
                 \/ SubscriptionSuccess(c, i) \/ SubscriptionFailed(c, i)
                 \/ UnsubscriptionSuccess(c, i) \/ UnsubscriptionFailed(c, i)
          PROVE  ReportsAreFounded'
      <4>1. UNCHANGED <<status, pc, failing>>
        BY <2>3, <3>4 DEF SubscriptionSuccess, SubscriptionFailed, UnsubscriptionSuccess,
                          UnsubscriptionFailed, threadVars
      <4>2. QED
        BY <4>1
    <3>5. QED
      BY <2>6, <3>1, <3>2, <3>3, <3>4 DEF CallbackStep
  <2>7. ASSUME NEW t \in Threads, ThreadStep(t) PROVE ReportsAreFounded'
    <3>1. ASSUME NEW i \in Instruments, MigrateOne(t, i) PROVE UNCHANGED status
      BY <2>3, <2>4, <3>1 DEF MigrateOne, connVars
    <3>2. CASE RetryOne(t)
      <4>1. Head(work[t]) \in Instruments
        BY <3>2, HeadTailProperties DEF RetryOne, TypeInv, TablesTyped, RetryHasWork, At
      <4>2. UNCHANGED status
        BY <2>3, <2>4, <3>2, <4>1 DEF RetryOne, connVars
      <4>3. QED
        BY <2>1, <3>2, <4>2 DEF RetryOne, AfterRetry
    <3>3. CASE FailureBegin(t) \/ FailureEnd(t)
      BY <2>1, <3>3 DEF FailureBegin, FailureEnd, connVars
    <3>4. CASE TakeRetryQueue(t)
      BY <2>1, <3>4 DEF TakeRetryQueue, AfterRetry, connVars
    <3>5. ASSUME NEW i \in Instruments, MigrateOne(t, i) PROVE ReportsAreFounded'
      BY <3>1, <3>5 DEF MigrateOne
    <3>6. QED
      BY <2>7, <3>2, <3>3, <3>4, <3>5 DEF ThreadStep
  <2>8. ASSUME NEW c \in Connections, HeartbeatTimeout(c) PROVE ReportsAreFounded'
    BY <2>1, <2>8 DEF HeartbeatTimeout, connVars
  <2>9. ASSUME NEW c \in Connections, HealthRestart(c) PROVE ReportsAreFounded'
    BY <2>1, <2>9 DEF HealthRestart, Pool!ChooseForRestart, Pool!StopBegin, Pool!StopEnd,
                      Pool!Start, threadVars
  <2>10. CASE MaintenanceDue \/ Cleanup
    BY <2>1, <2>10 DEF MaintenanceDue, Cleanup, connVars
  <2>11. QED
    BY <2>2, <2>5, <2>6, <2>7, <2>8, <2>9, <2>10 DEF Next
<1>3. QED
  BY <1>1, <1>2, DispatcherTypeCorrect, TablesTypeCorrect, PTL DEF Spec

-----------------------------------------------------------------------------
(* What is left on a connection that was lost *)

\* on_subscription_success() finds no entry FAILED: no success is that of an
\* earlier request, whose entry has failed or was cancelled and made anew in
\* vain since.
NoSuccessOfFailed ==
  \A c \in Connections, i \in Instruments :
    SubscriptionSuccess(c, i) => global_subscriptions[i].status # "FAILED"

\* But for late successes, an entry is live because it was, on the same
\* connection, or because an available connection was just asked.
LEMMA OnlyAvailableTakes ==
  ASSUME TypeOK, TypeInv, [Next]_vars, [NoSuccessOfFailed]_vars
  PROVE  \A i \in Instruments : Live(i)' =>
           \/ global_subscriptions'[i].assigned \in Pool!Available
           \/ /\ Live(i)
              /\ global_subscriptions'[i].assigned = global_subscriptions[i].assigned
<1> DEFINE AllRight ==
      \A i \in Instruments : Live(i)' =>
        \/ global_subscriptions'[i].assigned \in Pool!Available
        \/ /\ Live(i)
           /\ global_subscriptions'[i].assigned = global_subscriptions[i].assigned
<1> SUFFICES AllRight
  OBVIOUS
<1>1. /\ global_subscriptions \in [Instruments -> SubscriptionInfo]
      /\ \A i \in Instruments : global_subscriptions[i] \in SubscriptionInfo
  BY DEF TypeOK
<1>2. UNCHANGED global_subscriptions => AllRight
  BY DEF Live
<1>3. CASE UNCHANGED vars
  BY <1>2, <1>3 DEF vars, tables
<1>4. ASSUME NEW s \in Sessions, SessionStep(s) PROVE AllRight
  <2>1. ASSUME NEW i \in Instruments, AddSubscription(s, i) PROVE AllRight
    <3>1. CASE Exists(i)
      <4>1. global_subscriptions' = [global_subscriptions EXCEPT ![i].sessions = @ \cup {s}]
        BY <2>1, <3>1 DEF AddSubscription
      <4>2. QED
        BY <1>1, <4>1 DEF SubscriptionInfo, Live
    <3>2. CASE ~Exists(i)
      <4>1. \A c, ok : NewEntry(s, c, ok).assigned = c
        BY DEF NewEntry
      <4>2. \A c, ok : ~ok => NewEntry(s, c, ok).status = "FAILED"
        BY DEF NewEntry
      <4>3. PICK c \in Connections \cup {NoConnection}, ok \in BOOLEAN :
              /\ c \in Pool!Available \/ ~ok
              /\ global_subscriptions' =
                   [global_subscriptions EXCEPT ![i] = NewEntry(s, c, ok)]
        <5>1. CASE Pool!Available = {}
          <6>1. global_subscriptions' =
                  [global_subscriptions EXCEPT ![i] = NewEntry(s, NoConnection, FALSE)]
            BY <2>1, <3>2, <5>1 DEF AddSubscription
          <6>2. QED
            BY <6>1
        <5>2. CASE Pool!Available # {}
          BY <2>1, <3>2, <5>2 DEF AddSubscription, Pool!Available
        <5>3. QED
          BY <5>1, <5>2
      <4>4. QED
        BY <1>1, <4>1, <4>2, <4>3 DEF Live
    <3>3. QED
      BY <3>1, <3>2
  <2>2. ASSUME NEW i \in Instruments, RemoveFor(s, i) PROVE AllRight
    <3>1. \/ global_subscriptions' = [global_subscriptions EXCEPT ![i] = NoEntry]
          \/ global_subscriptions' =
               [global_subscriptions EXCEPT
                  ![i].sessions = global_subscriptions[i].sessions \ {s}]
      BY <2>2 DEF RemoveFor
    <3>2. QED
      BY <1>1, <3>1 DEF SubscriptionInfo, NoEntry, Live
  <2>3. CASE RemoveAllBegin(s)
    BY <1>2, <2>3 DEF RemoveAllBegin, tables
  <2>4. QED
    BY <1>4, <2>1, <2>2, <2>3
       DEF SessionStep, RemoveSubscription, RemoveAllNext, TypeOK
<1>5. ASSUME NEW c \in Connections, CallbackStep(c), NoSuccessOfFailed PROVE AllRight
  <2>1. ASSUME NEW i \in Instruments, SubscriptionSuccess(c, i) PROVE AllRight
    <3>1. CASE ~Exists(i)
      BY <1>2, <2>1, <3>1 DEF SubscriptionSuccess
    <3>2. CASE Exists(i)
      <4>1. Live(i)
        BY <1>1, <1>5, <2>1, <3>2
           DEF NoSuccessOfFailed, Exists, Live, SubscriptionInfo, SubscriptionStatus
      <4>2. global_subscriptions' = [global_subscriptions EXCEPT ![i].status = "ACTIVE"]
        BY <2>1, <3>2 DEF SubscriptionSuccess
      <4>3. QED
        BY <1>1, <4>1, <4>2 DEF SubscriptionInfo, Live
    <3>3. QED
      BY <3>1, <3>2
  <2>2. ASSUME NEW i \in Instruments, SubscriptionFailed(c, i) PROVE AllRight
    <3> DEFINE e == [global_subscriptions[i] EXCEPT !.status = "FAILED", !.retries = Bump(@)]
    <3>1. CASE UNCHANGED global_subscriptions
      BY <1>2, <3>1
    <3>2. CASE global_subscriptions' = [global_subscriptions EXCEPT ![i] = e]
      <4>1. e.status = "FAILED"
        BY <1>1, StatusWritten
      <4> HIDE DEF e
      <4>2. QED
        BY <1>1, <3>2, <4>1 DEF Live
    <3>3. QED
      BY <2>2, <3>1, <3>2 DEF SubscriptionFailed
  <2>3. QED
    BY <1>2, <1>5, <2>1, <2>2
       DEF CallbackStep, ConnectionLost, ConnectionRecovered, FrontConnected, LoginFailed,
           ErrorStorm, UnsubscriptionSuccess, UnsubscriptionFailed, tables
<1>6. ASSUME NEW t \in Threads, ThreadStep(t) PROVE AllRight
  <2>1. CASE FailureBegin(t)
    <3>1. \A i \in Instruments :
            \/ global_subscriptions'[i] = [global_subscriptions[i] EXCEPT !.status = "FAILED"]
            \/ global_subscriptions'[i] = global_subscriptions[i]
      BY <2>1 DEF FailureBegin
    <3>2. \A i \in Instruments :
            [global_subscriptions[i] EXCEPT !.status = "FAILED"].status = "FAILED"
      BY <1>1, StatusWritten
    <3>3. QED
      BY <3>1, <3>2 DEF Live
  <2>2. ASSUME NEW i \in Instruments, MigrateOne(t, i) PROVE AllRight
    <3>1. CASE UNCHANGED global_subscriptions
      BY <1>2, <3>1
    <3>2. CASE global_subscriptions' # global_subscriptions
      <4>1. PICK c \in Pool!Available, ok \in BOOLEAN :
              global_subscriptions' =
                [global_subscriptions EXCEPT
                   ![i].assigned = c,
                   ![i].status = IF ok THEN "SUBSCRIBING" ELSE "FAILED",
                   ![i].retries = 0]
        BY <2>2, <3>2 DEF MigrateOne
      <4> DEFINE e == [global_subscriptions[i] EXCEPT
                         !.assigned = c,
                         !.status = IF ok THEN "SUBSCRIBING" ELSE "FAILED",
                         !.retries = 0]
      <4>2. e.assigned = c
        BY <1>1, StatusWritten
      <4>3. /\ global_subscriptions'[i] = e
            /\ \A j \in Instruments \ {i} : global_subscriptions'[j] = global_subscriptions[j]
        BY <1>1, <4>1
      <4> HIDE DEF e
      <4>4. QED
        BY <4>2, <4>3 DEF Live
    <3>3. QED
      BY <3>1, <3>2
  <2>3. CASE RetryOne(t)
    <3>1. CASE UNCHANGED global_subscriptions
      BY <1>2, <3>1
    <3>2. CASE global_subscriptions' # global_subscriptions
      <4> DEFINE i == Head(work[t])
      <4>1. i \in Instruments
        BY <2>3, HeadTailProperties DEF RetryOne, TypeInv, TablesTyped, RetryHasWork
      <4>2. PICK c \in Pool!Available, ok \in BOOLEAN :
              global_subscriptions' =
                [global_subscriptions EXCEPT
                   ![i].assigned = c,
                   ![i].status = IF ok THEN "SUBSCRIBING" ELSE "FAILED"]
        BY <2>3, <3>2 DEF RetryOne
      <4> DEFINE e == [global_subscriptions[i] EXCEPT
                         !.assigned = c,
                         !.status = IF ok THEN "SUBSCRIBING" ELSE "FAILED"]
      <4>3. e.assigned = c
        BY <1>1, <4>1, StatusWritten
      <4>4. /\ global_subscriptions'[i] = e
            /\ \A j \in Instruments \ {i} : global_subscriptions'[j] = global_subscriptions[j]
        BY <1>1, <4>1, <4>2
      <4> HIDE DEF e, i
      <4>5. QED
        BY <4>3, <4>4 DEF Live
    <3>3. QED
      BY <3>1, <3>2
  <2>4. CASE FailureEnd(t) \/ TakeRetryQueue(t)
    BY <1>2, <2>4 DEF FailureEnd, TakeRetryQueue, tables
  <2>5. QED
    BY <1>6, <2>1, <2>2, <2>3, <2>4 DEF ThreadStep
<1>7. ASSUME NEW c \in Connections, HeartbeatTimeout(c) \/ HealthRestart(c) PROVE AllRight
  BY <1>2, <1>7 DEF HeartbeatTimeout, HealthRestart, tables
<1>8. CASE MaintenanceDue
  BY <1>2, <1>8 DEF MaintenanceDue, tables
<1>9. CASE Cleanup
  <2>1. \A i \in Instruments : global_subscriptions'[i] \in {global_subscriptions[i], NoEntry}
    BY <1>9 DEF Cleanup
  <2>2. NoEntry.status = "CANCELLED"
    BY DEF NoEntry
  <2>3. QED
    BY <2>1, <2>2 DEF Live
<1> HIDE DEF AllRight
<1>10. QED
  BY <1>3, <1>4, <1>5, <1>6, <1>7, <1>8, <1>9 DEF Next

\* Only the front's callback and stop() make a connection DISCONNECTED.
LEMMA WhoDisconnects ==
  ASSUME TypeOK, TypeInv, [Next]_vars, NEW c \in Connections,
         status[c] # "DISCONNECTED", status'[c] = "DISCONNECTED"
  PROVE  ConnectionLost(c) \/ (Pool!StopBegin(c) /\ UNCHANGED tables)
<1>1. status \in [Connections -> Pool!Statuses]
  BY DEF TypeOK, Pool!TypeOK
<1>2. ~UNCHANGED status
  OBVIOUS
<1>3. ASSUME NEW d \in Connections, NEW i \in Instruments, NEW ok,
             \/ Pool!SubscribeInstrument(d, i, ok) \/ Pool!UnsubscribeInstrument(d, i)
             \/ Pool!Subscribed(d, i) \/ Pool!SubscribeRejected(d, i)
             \/ Pool!Unsubscribed(d, i) \/ Pool!UnsubscribeRejected(d, i)
      PROVE  FALSE
  BY <1>2, <1>3 DEF Pool!SubscribeInstrument, Pool!UnsubscribeInstrument,
     Pool!Subscribed, Pool!SubscribeRejected, Pool!Unsubscribed,
     Pool!UnsubscribeRejected, Pool!Answer
<1>4. Pool!Available \subseteq Connections
  BY DEF Pool!Available
<1>5. ASSUME NEW s \in Sessions, SessionStep(s) PROVE FALSE
  <2>1. ASSUME NEW i \in Instruments, AddSubscription(s, i) PROVE FALSE
    BY <1>2, <1>3, <1>4, <2>1 DEF AddSubscription, connVars
  <2>2. ASSUME NEW i \in Instruments, RemoveFor(s, i) PROVE FALSE
    <3>1. global_subscriptions[i].assigned \in Connections \cup {NoConnection}
      BY DEF TypeInv, TablesTyped, SubscriptionInfo
    <3>2. QED
      BY <1>2, <1>3, <2>2, <3>1 DEF RemoveFor, ExecuteUnsubscription, connVars
  <2>3. QED
    BY <1>2, <1>5, <2>1, <2>2
       DEF SessionStep, RemoveSubscription, RemoveAllBegin, RemoveAllNext, connVars,
           TypeInv, TablesTyped
<1>6. ASSUME NEW t \in Threads, ThreadStep(t) PROVE FALSE
  <2>1. ASSUME NEW i \in Instruments, MigrateOne(t, i) PROVE FALSE
    BY <1>2, <1>3, <1>4, <2>1 DEF MigrateOne, connVars
  <2>2. CASE RetryOne(t)
    <3>1. Head(work[t]) \in Instruments
      BY <2>2, HeadTailProperties DEF RetryOne, TypeInv, TablesTyped, RetryHasWork
    <3>2. QED
      BY <1>2, <1>3, <1>4, <2>2, <3>1 DEF RetryOne, connVars
  <2>3. CASE FailureBegin(t) \/ FailureEnd(t) \/ TakeRetryQueue(t)
    BY <1>2, <2>3 DEF FailureBegin, FailureEnd, TakeRetryQueue, connVars
  <2>4. QED
    BY <1>6, <2>1, <2>2, <2>3 DEF ThreadStep
<1>7. ASSUME NEW d \in Connections, HeartbeatTimeout(d) PROVE FALSE
  BY <1>2, <1>7 DEF HeartbeatTimeout, connVars
<1>8. ~MaintenanceDue /\ ~Cleanup /\ ~UNCHANGED vars
  BY <1>2 DEF MaintenanceDue, Cleanup, vars, connVars
<1>9. ASSUME NEW d \in Connections, HealthRestart(d)
      PROVE  Pool!StopBegin(c) /\ UNCHANGED tables
  BY <1>1, <1>9 DEF HealthRestart, Pool!ChooseForRestart, Pool!StopBegin,
                    Pool!StopEnd, Pool!Start
<1>10. ASSUME NEW d \in Connections, CallbackStep(d) PROVE ConnectionLost(c)
  <2>1. CASE ConnectionLost(d)
    BY <1>1, <2>1 DEF ConnectionLost, Pool!OnFrontDisconnected
  <2>2. CASE ConnectionRecovered(d) \/ FrontConnected(d) \/ LoginFailed(d) \/ ErrorStorm(d)
    BY <1>1, <2>2 DEF ConnectionRecovered, FrontConnected, LoginFailed, ErrorStorm,
       Pool!LoggedIn, Pool!OnFrontConnected, Pool!LoginRejected, Pool!TooManyErrors
  <2>3. QED
    BY <1>3, <1>10, <2>1, <2>2
       DEF CallbackStep, SubscriptionSuccess, SubscriptionFailed,
           UnsubscriptionSuccess, UnsubscriptionFailed
<1>11. QED
  BY <1>5, <1>6, <1>7, <1>8, <1>9, <1>10 DEF Next

\* A callback thread leaves its report by handling it.
LEMMA WhoReports ==
  ASSUME TypeInv, [Next]_vars, NEW c \in Connections,
         pc[c] = "failure", pc'[c] # "failure"
  PROVE  FailureBegin(c)
<1>1. /\ pc \in [Threads -> Places] /\ c \in Threads
      /\ c # Maintenance /\ c # Health
  BY ThreadsAssumption DEF TypeInv, TablesTyped, Threads
<1> USE DEF At, GoTo
<1>2. ~UNCHANGED pc
  OBVIOUS
<1>3. ASSUME NEW s \in Sessions, SessionStep(s) PROVE FALSE
  BY <1>2, <1>3 DEF SessionStep, AddSubscription, RemoveSubscription, RemoveFor,
                    RemoveAllBegin, RemoveAllNext, threadVars
<1>4. ASSUME NEW d \in Connections, CallbackStep(d) PROVE FALSE
  BY <1>1, <1>4 DEF CallbackStep, ConnectionLost, ConnectionRecovered, FrontConnected,
     LoginFailed, ErrorStorm, SubscriptionSuccess, SubscriptionFailed,
     UnsubscriptionSuccess, UnsubscriptionFailed, threadVars
<1>5. ASSUME NEW t \in Threads, ThreadStep(t) PROVE FailureBegin(c)
  BY <1>1, <1>5 DEF ThreadStep, FailureBegin, MigrateOne, FailureEnd, TakeRetryQueue,
                    RetryOne
<1>6. ASSUME NEW d \in Connections, HeartbeatTimeout(d) \/ HealthRestart(d) PROVE FALSE
  BY <1>1, <1>6 DEF HeartbeatTimeout, HealthRestart, threadVars
<1>7. ~MaintenanceDue /\ ~Cleanup /\ ~UNCHANGED vars
  BY <1>1 DEF MaintenanceDue, Cleanup, vars, threadVars
<1>8. QED
  BY <1>3, <1>4, <1>5, <1>6, <1>7 DEF Next

\* What a failover does not look after: what a connection carries when stop()
\* ends it (handle_connection_failure is not called), what is SUBSCRIBING when
\* the loss is handled (only ACTIVE entries are collected), and what a late
\* success makes ACTIVE again.
NothingIsMissed ==
  /\ \A c \in Connections : Pool!StopBegin(c) =>
       \A i \in Instruments : Live(i) => global_subscriptions[i].assigned # c
  /\ \A c \in Connections : FailureBegin(c) =>
       \A i \in Instruments : global_subscriptions[i].status = "SUBSCRIBING" =>
         global_subscriptions[i].assigned # c
  /\ NoSuccessOfFailed

\* Nothing is live on a lost connection but until its loss is handled.
LostIsCleared ==
  \A c \in Connections : status[c] = "DISCONNECTED" /\ pc[c] # "failure" =>
    \A i \in Instruments : Live(i) => global_subscriptions[i].assigned # c

\* A failover leaves nothing live on a lost connection, but for these three
\* reasons: whoever subscribes, logs in, retries or expires in between, and
\* whether or not calls fail, what was ACTIVE is migrated or FAILED.
THEOREM FailoverMissesOnlyThat ==
  Spec /\ [][NothingIsMissed]_vars => []FailoverLeavesNothing
<1>1. Init => LostIsCleared
  BY DEF Init, Pool!Init, LostIsCleared
<1>2. TypeOK /\ TypeInv /\ ReportsAreFounded /\ LostIsCleared
        /\ [Next]_vars /\ [NothingIsMissed]_vars => LostIsCleared'
  <2> SUFFICES ASSUME TypeOK, TypeInv, ReportsAreFounded, LostIsCleared,
                      [Next]_vars, [NothingIsMissed]_vars,
                      NEW c \in Connections, NEW i \in Instruments,
                      status'[c] = "DISCONNECTED", pc'[c] # "failure",
                      Live(i)', global_subscriptions'[i].assigned = c
               PROVE  FALSE
    BY DEF LostIsCleared
  <2>1. CASE UNCHANGED vars
    BY <2>1 DEF vars, connVars, tables, threadVars, LostIsCleared, Live
  <2>2. CASE NothingIsMissed
    <3>1. \/ c \in Pool!Available
          \/ Live(i) /\ global_subscriptions[i].assigned = c
      BY <2>2, OnlyAvailableTakes DEF NothingIsMissed
    <3>2. CASE status[c] # "DISCONNECTED"
      <4>1. CASE ConnectionLost(c)
        BY <4>1 DEF ConnectionLost, GoTo, TypeInv, TablesTyped, Threads
      <4>2. CASE Pool!StopBegin(c) /\ UNCHANGED tables
        BY <2>2, <4>2 DEF NothingIsMissed, tables, Live
      <4>3. QED
        BY <3>2, <4>1, <4>2, WhoDisconnects
    <3>3. CASE status[c] = "DISCONNECTED"
      <4>1. Live(i) /\ global_subscriptions[i].assigned = c
        BY <3>1, <3>3 DEF Pool!Available
      <4>2. pc[c] = "failure"
        BY <3>3, <4>1 DEF LostIsCleared
      <4>3. FailureBegin(c)
        BY <4>2, WhoReports
      <4>4. failing[c] = c /\ global_subscriptions[i].status = "ACTIVE"
        BY <2>2, <4>1, <4>2, <4>3 DEF ReportsAreFounded, At, NothingIsMissed, Live
      <4>5. global_subscriptions'[i] = [global_subscriptions[i] EXCEPT !.status = "FAILED"]
        BY <4>1, <4>3, <4>4 DEF FailureBegin, CarriedBy
      <4>6. global_subscriptions[i] \in SubscriptionInfo
        BY DEF TypeInv, TablesTyped
      <4>7. QED
        BY <4>5, <4>6, StatusWritten DEF Live
    <3>4. QED
      BY <3>2, <3>3
  <2>3. QED
    BY <2>1, <2>2
<1>3. LostIsCleared => FailoverLeavesNothing
  BY DEF LostIsCleared, FailoverLeavesNothing, At
<1>4. QED
  BY <1>1, <1>2, <1>3, DispatcherTypeCorrect, TablesTypeCorrect, ReportsAlwaysFounded,
     PTL DEF Spec

=============================================================================
