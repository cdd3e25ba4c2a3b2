------------------------ MODULE SubscriptionDispatcher ------------------------
(***************************************************************************)
(* The global subscription dispatcher (src/src/subscription_dispatcher.cpp) *)
(* on top of the connection pool of CTPConnection: which sessions want     *)
(* which instruments, which connection carries each instrument, and what   *)
(* happens to the assignment when connections fail and recover.            *)
(*                                                                         *)
(* Threads.  The io thread runs the requests of all sessions.  Connection  *)
(* c has one callback thread, named c.  Maintenance and Health are the two *)
(* timer threads.                                                          *)
(*                                                                         *)
(* Atomicity.  A handler that takes subscriptions_mutex_ and keeps it to   *)
(* its end is one action, taken when nobody else holds the mutex.          *)
(* handle_connection_failure keeps it over several steps, during which the *)
(* other connections change their status, so it is spelled out.            *)
(* process_pending_subscriptions takes it anew for each instrument.        *)
(***************************************************************************)
EXTENDS Naturals, FiniteSets, Sequences

CONSTANTS
  Connections, Instruments, Sessions,
  MaxSubscriptions,   \* of each connection
  MaxRetry,           \* max_retry_count_
  CallsMayFail,       \* external: may calls of the CTP API return an error?
  NoConnection,       \* the empty assigned_connection_id
  Maintenance, Health \* the two timer threads

ASSUME PoolAssumption ==
  MaxSubscriptions \in Nat /\ IsFiniteSet(Instruments) /\ CallsMayFail \in BOOLEAN
ASSUME MaxRetryAssumption == MaxRetry \in Nat
ASSUME ThreadsAssumption ==
  /\ NoConnection \notin Connections
  /\ Maintenance \notin Connections
  /\ Health \notin Connections \cup {Maintenance}

VARIABLES
  status, subscribed, restarting, front, requests, feed,  \* of the pool
  global_subscriptions,      \* instrument -> its SubscriptionInfo
  session_subscriptions,     \* session -> instruments
  connection_subscriptions,  \* connection -> instruments
  retry_queue,
  pc,                        \* thread -> where it is in the dispatcher
  failing,                   \* thread -> the connection it reports as failed
  work,                      \* thread -> its copy of the retry queue
  affected,                  \* instruments still to migrate
  leaving                    \* session -> instruments it still has to remove

connVars == <<status, subscribed, restarting, front, requests, feed>>
tables == <<global_subscriptions, session_subscriptions, connection_subscriptions>>
threadVars == <<pc, failing, work, affected>>
vars == <<connVars, tables, retry_queue, threadVars, leaving>>

Pool == INSTANCE CTPConnection

Threads == Connections \cup {Maintenance, Health}

SubscriptionStatus == {"SUBSCRIBING", "ACTIVE", "FAILED", "CANCELLED"}

SubscriptionInfo ==
  [status : SubscriptionStatus,
   assigned : Connections \cup {NoConnection},
   sessions : SUBSET Sessions,
   retries : 0..MaxRetry]

\* An instrument that is not in global_subscriptions_: get_subscription_status
\* answers CANCELLED for it, and no entry of the map has that status.
NoEntry ==
  [status |-> "CANCELLED", assigned |-> NoConnection, sessions |-> {}, retries |-> 0]

\* "failure": about to call handle_connection_failure(failing[t]).
\* "migrate": in it, holding the mutex.  "recovery": about to call
\* process_pending_subscriptions.  "retry": in its loop.
Places == {"idle", "failure", "migrate", "recovery", "retry", "cleanup"}

TypeOK ==
  /\ Pool!TypeOK
  /\ global_subscriptions \in [Instruments -> SubscriptionInfo]
  /\ session_subscriptions \in [Sessions -> SUBSET Instruments]
  /\ connection_subscriptions \in [Connections -> SUBSET Instruments]
  /\ retry_queue \in Seq(Instruments)
  /\ pc \in [Threads -> Places]
  /\ failing \in [Threads -> Connections \cup {NoConnection}]
  /\ work \in [Threads -> Seq(Instruments)]
  /\ affected \in SUBSET Instruments
  /\ leaving \in [Sessions -> SUBSET Instruments]

Init ==
  /\ Pool!Init
  /\ global_subscriptions = [i \in Instruments |-> NoEntry]
  /\ session_subscriptions = [s \in Sessions |-> {}]
  /\ connection_subscriptions = [c \in Connections |-> {}]
  /\ retry_queue = <<>>
  /\ pc = [t \in Threads |-> "idle"]
  /\ failing = [t \in Threads |-> NoConnection]
  /\ work = [t \in Threads |-> <<>>]
  /\ affected = {}
  /\ leaving = [s \in Sessions |-> {}]

Exists(i) == global_subscriptions[i].status # "CANCELLED"

\* subscriptions_mutex_ is free.
Unlocked == \A t \in Threads : pc[t] # "migrate"

At(t, place) == pc[t] = place
GoTo(t, place) == pc' = [pc EXCEPT ![t] = place]

-----------------------------------------------------------------------------
(* Requests of the sessions *)

\* Variant: the status the constructor gave is not overwritten.
NewEntryPending(s, c, ok) ==
  [status |-> IF ok THEN "PENDING" ELSE "FAILED",
   assigned |-> c, sessions |-> {s}, retries |-> 0]

NewEntry(s, c, ok) ==
  [status |-> IF ok THEN "SUBSCRIBING" ELSE "FAILED",
   assigned |-> c, sessions |-> {s}, retries |-> 0]

\* add_subscription().  The load-balancing strategies only choose among the
\* available connections; without one the entry stays, FAILED.
AddSubscription(s, i) ==
  /\ Unlocked
  /\ leaving[s] = {}
  /\ session_subscriptions' = [session_subscriptions EXCEPT ![s] = @ \cup {i}]
  /\ \/ /\ Exists(i)
        /\ global_subscriptions' = [global_subscriptions EXCEPT ![i].sessions = @ \cup {s}]
        /\ UNCHANGED connVars
     \/ /\ ~Exists(i)
        /\ Pool!Available = {}
        /\ global_subscriptions' =
             [global_subscriptions EXCEPT ![i] = NewEntry(s, NoConnection, FALSE)]
        /\ UNCHANGED connVars
     \/ /\ ~Exists(i)
        /\ \E c \in Pool!Available, ok \in BOOLEAN :
             /\ Pool!SubscribeInstrument(c, i, ok)
             /\ global_subscriptions' =
                  [global_subscriptions EXCEPT ![i] = NewEntry(s, c, ok)]
  /\ UNCHANGED <<connection_subscriptions, retry_queue, threadVars, leaving>>

\* Variant: the request to CTP is forgotten.
ExecuteNoUnsubscription(c, i) == UNCHANGED connVars

\* execute_unsubscription(): without a connection there is nothing to do.
ExecuteUnsubscription(c, i) ==
  IF c = NoConnection THEN UNCHANGED connVars ELSE Pool!UnsubscribeInstrument(c, i)

\* Variant: the session stays in the entry while others want it too.
RemoveForKeepingSession(s, i) ==
  /\ Unlocked
  /\ session_subscriptions' = [session_subscriptions EXCEPT ![s] = @ \ {i}]
  /\ IF Exists(i) /\ global_subscriptions[i].sessions = {s}
     THEN /\ ExecuteUnsubscription(global_subscriptions[i].assigned, i)
          /\ global_subscriptions' = [global_subscriptions EXCEPT ![i] = NoEntry]
     ELSE UNCHANGED <<connVars, global_subscriptions>>
  /\ UNCHANGED <<connection_subscriptions, retry_queue, threadVars>>

\* Variant: CTP is told at once, without looking for other sessions.
RemoveForEveryone(s, i) ==
  /\ Unlocked
  /\ session_subscriptions' = [session_subscriptions EXCEPT ![s] = @ \ {i}]
  /\ LET rest == global_subscriptions[i].sessions \ {s} IN
     /\ ExecuteUnsubscription(global_subscriptions[i].assigned, i)
     /\ global_subscriptions' =
          IF rest = {} THEN [global_subscriptions EXCEPT ![i] = NoEntry]
          ELSE [global_subscriptions EXCEPT ![i].sessions = rest]
  /\ UNCHANGED <<connection_subscriptions, retry_queue, threadVars>>

\* remove_subscription(), called for any instrument, also one s never had.
RemoveFor(s, i) ==
  /\ Unlocked
  /\ session_subscriptions' = [session_subscriptions EXCEPT ![s] = @ \ {i}]
  /\ LET rest == global_subscriptions[i].sessions \ {s} IN
     \/ /\ Exists(i) /\ rest = {}
        /\ ExecuteUnsubscription(global_subscriptions[i].assigned, i)
        /\ global_subscriptions' = [global_subscriptions EXCEPT ![i] = NoEntry]
     \/ /\ ~Exists(i) \/ rest # {}
        /\ global_subscriptions' = [global_subscriptions EXCEPT ![i].sessions = rest]
        /\ UNCHANGED connVars
  /\ UNCHANGED <<connection_subscriptions, retry_queue, threadVars>>

RemoveSubscription(s, i) ==
  /\ leaving[s] = {}
  /\ RemoveFor(s, i)
  /\ UNCHANGED leaving

\* remove_all_subscriptions_for_session(), from the destructor of session s:
\* a snapshot under sessions_mutex_, then one removal after the other.
RemoveAllBegin(s) ==
  /\ leaving[s] = {}
  /\ leaving' = [leaving EXCEPT ![s] = session_subscriptions[s]]
  /\ UNCHANGED <<connVars, tables, retry_queue, threadVars>>

\* Variant: the loop ends after its first turn.
RemoveOnlyOne(s) ==
  \E i \in leaving[s] :
    /\ RemoveFor(s, i)
    /\ leaving' = [leaving EXCEPT ![s] = {}]

RemoveAllNext(s) ==
  \E i \in leaving[s] :
    /\ RemoveFor(s, i)
    /\ leaving' = [leaving EXCEPT ![s] = @ \ {i}]

-----------------------------------------------------------------------------
(* Failure and recovery of connections *)

\* OnFrontDisconnected(): the status first, the dispatcher later.
ConnectionLost(c) ==
  /\ At(c, "idle")
  /\ Pool!OnFrontDisconnected(c)
  /\ GoTo(c, "failure")
  /\ failing' = [failing EXCEPT ![c] = c]
  /\ UNCHANGED <<tables, retry_queue, work, affected, leaving>>

\* The health check finds a logged-in connection silent for a minute; by the
\* time it reports the failure the status may be another.
HeartbeatTimeout(c) ==
  /\ At(Health, "idle")
  /\ \A d \in Connections : restarting[d] = "no"
  /\ status[c] = "LOGGED_IN"
  /\ GoTo(Health, "failure")
  /\ failing' = [failing EXCEPT ![Health] = c]
  /\ UNCHANGED <<connVars, tables, retry_queue, work, affected, leaving>>

CarriedBy(c) ==
  {i \in Instruments : global_subscriptions[i].assigned = c
                       /\ global_subscriptions[i].status = "ACTIVE"}

\* handle_connection_failure() takes the mutex and fails what c carried.
FailureBegin(t) ==
  /\ At(t, "failure")
  /\ Unlocked
  /\ GoTo(t, "migrate")
  /\ affected' = CarriedBy(failing[t])
  /\ global_subscriptions' =
       [i \in Instruments |->
          IF i \in CarriedBy(failing[t])
          THEN [global_subscriptions[i] EXCEPT !.status = "FAILED"]
          ELSE global_subscriptions[i]]
  /\ UNCHANGED <<connVars, session_subscriptions, connection_subscriptions,
                 retry_queue, failing, work, leaving>>

\* One turn of its loop: migrate_subscription() to the connection of best
\* quality, unless there is none or it is the failed one itself.
MigrateOne(t, i) ==
  /\ At(t, "migrate")
  /\ i \in affected
  /\ affected' = affected \ {i}
  /\ \/ /\ Pool!Available = {} \/ failing[t] \in Pool!Available
        /\ UNCHANGED <<connVars, global_subscriptions>>
     \/ \E c \in Pool!Available \ {failing[t]}, ok \in BOOLEAN :
          /\ Pool!SubscribeInstrument(c, i, ok)
          /\ global_subscriptions' =
               [global_subscriptions EXCEPT
                  ![i].assigned = c,
                  ![i].status = IF ok THEN "SUBSCRIBING" ELSE "FAILED",
                  ![i].retries = 0]
  /\ UNCHANGED <<session_subscriptions, connection_subscriptions, retry_queue,
                 pc, failing, work, leaving>>

FailureEnd(t) ==
  /\ At(t, "migrate")
  /\ affected = {}
  /\ connection_subscriptions' =
       [connection_subscriptions EXCEPT ![failing[t]] = {}]
  /\ GoTo(t, "idle")
  /\ failing' = [failing EXCEPT ![t] = NoConnection]
  /\ UNCHANGED <<connVars, global_subscriptions, session_subscriptions,
                 retry_queue, work, affected, leaving>>

\* OnRspUserLogin(): logged in, then handle_connection_recovery().
ConnectionRecovered(c) ==
  /\ At(c, "idle")
  /\ Pool!LoggedIn(c)
  /\ GoTo(c, "recovery")
  /\ UNCHANGED <<tables, retry_queue, failing, work, affected, leaving>>

MaintenanceDue ==
  /\ At(Maintenance, "idle")
  /\ GoTo(Maintenance, "recovery")
  /\ UNCHANGED <<connVars, tables, retry_queue, failing, work, affected, leaving>>

\* Where the thread goes after process_pending_subscriptions().
AfterRetry(t) == IF t = Maintenance THEN "cleanup" ELSE "idle"

\* process_pending_subscriptions() swaps the queue out under its own mutex.
TakeRetryQueue(t) ==
  /\ At(t, "recovery")
  /\ work' = [work EXCEPT ![t] = retry_queue]
  /\ retry_queue' = <<>>
  /\ GoTo(t, IF retry_queue = <<>> THEN AfterRetry(t) ELSE "retry")
  /\ UNCHANGED <<connVars, tables, failing, affected, leaving>>

\* Put back into the queue while fewer than max_retry_count_ attempts failed.
Requeue(i, retries) ==
  retry_queue' = IF retries < MaxRetry THEN Append(retry_queue, i) ELSE retry_queue

\* Variant: without a connection the instrument waits in the copy of the queue.
RetryOneWaiting(t) ==
  /\ At(t, "retry")
  /\ Unlocked
  /\ work' = [work EXCEPT ![t] = IF Pool!Available = {} THEN @ ELSE Tail(@)]
  /\ GoTo(t, IF work'[t] = <<>> THEN AfterRetry(t) ELSE "retry")
  /\ UNCHANGED <<connVars, tables, retry_queue, failing, affected, leaving>>

\* One turn of its loop.  An instrument that is not FAILED any more, or for
\* which no connection is available, leaves the queue without a trace.
RetryOne(t) ==
  /\ At(t, "retry")
  /\ Unlocked
  /\ work' = [work EXCEPT ![t] = Tail(@)]
  /\ GoTo(t, IF Tail(work[t]) = <<>> THEN AfterRetry(t) ELSE "retry")
  /\ LET i == Head(work[t]) IN
     \/ /\ global_subscriptions[i].status # "FAILED" \/ Pool!Available = {}
        /\ UNCHANGED <<connVars, global_subscriptions, retry_queue>>
     \/ /\ global_subscriptions[i].status = "FAILED"
        /\ \E c \in Pool!Available, ok \in BOOLEAN :
             /\ Pool!SubscribeInstrument(c, i, ok)
             /\ global_subscriptions' =
                  [global_subscriptions EXCEPT
                     ![i].assigned = c,
                     ![i].status = IF ok THEN "SUBSCRIBING" ELSE "FAILED"]
             /\ IF ok THEN UNCHANGED retry_queue
                      ELSE Requeue(i, global_subscriptions[i].retries)
  /\ UNCHANGED <<session_subscriptions, connection_subscriptions, failing,
                 affected, leaving>>

\* Variant: the expiry looks at the age of an entry and not at its status.
CleanupByAge ==
  /\ At(Maintenance, "cleanup")
  /\ Unlocked
  /\ \E expired \in SUBSET {i \in Instruments : Exists(i)} :
       global_subscriptions' =
         [i \in Instruments |-> IF i \in expired THEN NoEntry ELSE global_subscriptions[i]]
  /\ GoTo(Maintenance, "idle")
  /\ UNCHANGED <<connVars, session_subscriptions, connection_subscriptions,
                 retry_queue, failing, work, affected, leaving>>

\* cleanup_expired_subscriptions(): entries FAILED for more than ten minutes,
\* any of those now FAILED, are erased from the global table alone.
Cleanup ==
  /\ At(Maintenance, "cleanup")
  /\ Unlocked
  /\ \E expired \in SUBSET {i \in Instruments : global_subscriptions[i].status = "FAILED"} :
       global_subscriptions' =
         [i \in Instruments |-> IF i \in expired THEN NoEntry ELSE global_subscriptions[i]]
  /\ GoTo(Maintenance, "idle")
  /\ UNCHANGED <<connVars, session_subscriptions, connection_subscriptions,
                 retry_queue, failing, work, affected, leaving>>

-----------------------------------------------------------------------------
(* Answers of the front, on the connection's callback thread *)

\* Variant: on_subscription_success() does not take subscriptions_mutex_.
SubscriptionSuccessUnlocked(c, i) ==
  /\ At(c, "idle")
  /\ Pool!Subscribed(c, i)
  /\ Exists(i)
  /\ global_subscriptions' = [global_subscriptions EXCEPT ![i].status = "ACTIVE"]
  /\ UNCHANGED <<session_subscriptions, connection_subscriptions, retry_queue,
                 threadVars, leaving>>

\* Variant: on_subscription_success() records the connection, not the status.
SubscriptionSuccessSilent(c, i) ==
  /\ At(c, "idle")
  /\ Unlocked
  /\ Pool!Subscribed(c, i)
  /\ UNCHANGED <<tables, retry_queue, threadVars, leaving>>

\* OnRspSubMarketData() without error: on_subscription_success().
SubscriptionSuccess(c, i) ==
  /\ At(c, "idle")
  /\ Unlocked
  /\ Pool!Subscribed(c, i)
  /\ \/ /\ Exists(i)
        /\ global_subscriptions' = [global_subscriptions EXCEPT ![i].status = "ACTIVE"]
        /\ connection_subscriptions' =
             [connection_subscriptions EXCEPT ![c] = @ \cup {i}]
     \/ /\ ~Exists(i)
        /\ UNCHANGED <<global_subscriptions, connection_subscriptions>>
  /\ UNCHANGED <<session_subscriptions, retry_queue, threadVars, leaving>>

\* retry_count++ is only ever compared with max_retry_count_: it stops there.
Bump(n) == IF n < MaxRetry THEN n + 1 ELSE n

\* Variant: the retry loop works on the queue itself, which rejections refill.
SubscriptionFailedRefilling(c, i) ==
  /\ At(c, "idle")
  /\ Unlocked
  /\ Pool!SubscribeRejected(c, i)
  /\ Exists(i)
  /\ global_subscriptions' = [global_subscriptions EXCEPT ![i].status = "FAILED"]
  /\ work' = [t \in Threads |-> IF At(t, "retry") THEN Append(work[t], i) ELSE work[t]]
  /\ Requeue(i, global_subscriptions[i].retries)
  /\ UNCHANGED <<session_subscriptions, connection_subscriptions, pc, failing, affected, leaving>>

\* OnRspSubMarketData() with an error: on_subscription_failed(), which knows no
\* instrument that nobody wants, and is not called if the answer names none.
SubscriptionFailed(c, i) ==
  /\ At(c, "idle")
  /\ Pool!SubscribeRejected(c, i)
  /\ \/ /\ Exists(i)
        /\ Unlocked
        /\ global_subscriptions' =
             [global_subscriptions EXCEPT
                ![i].status = "FAILED",
                ![i].retries = Bump(@)]
        /\ Requeue(i, Bump(global_subscriptions[i].retries))
     \/ UNCHANGED <<global_subscriptions, retry_queue>>
  /\ UNCHANGED <<session_subscriptions, connection_subscriptions, threadVars, leaving>>

\* OnRspUnSubMarketData() without error: on_unsubscription_success().
UnsubscriptionSuccess(c, i) ==
  /\ At(c, "idle")
  /\ Unlocked
  /\ Pool!Unsubscribed(c, i)
  /\ connection_subscriptions' = [connection_subscriptions EXCEPT ![c] = @ \ {i}]
  /\ UNCHANGED <<global_subscriptions, session_subscriptions, retry_queue, threadVars, leaving>>

\* OnRspUnSubMarketData() with an error: logged and counted.
UnsubscriptionFailed(c, i) ==
  /\ At(c, "idle")
  /\ Pool!UnsubscribeRejected(c, i)
  /\ UNCHANGED <<tables, retry_queue, threadVars, leaving>>

-----------------------------------------------------------------------------
(* What happens in the pool without the dispatcher *)

FrontConnected(c) ==
  /\ At(c, "idle")
  /\ Pool!OnFrontConnected(c)
  /\ UNCHANGED <<tables, retry_queue, threadVars, leaving>>

LoginFailed(c) ==
  /\ At(c, "idle")
  /\ Pool!LoginRejected(c)
  /\ UNCHANGED <<tables, retry_queue, threadVars, leaving>>

ErrorStorm(c) ==
  /\ At(c, "idle")
  /\ Pool!TooManyErrors(c)
  /\ UNCHANGED <<tables, retry_queue, threadVars, leaving>>

\* restart() on the health thread; Release() outlasts a running callback.
HealthRestart(c) ==
  /\ At(Health, "idle")
  /\ \/ Pool!ChooseForRestart(c)
     \/ Pool!StopBegin(c)
     \/ At(c, "idle") /\ Pool!StopEnd(c)
     \/ Pool!Start(c)
  /\ UNCHANGED <<tables, retry_queue, threadVars, leaving>>

-----------------------------------------------------------------------------

SessionStep(s) ==
  \/ RemoveAllBegin(s)
  \/ RemoveAllNext(s)
  \/ \E i \in Instruments : AddSubscription(s, i) \/ RemoveSubscription(s, i)

CallbackStep(c) ==
  \/ ConnectionLost(c)
  \/ ConnectionRecovered(c)
  \/ FrontConnected(c)
  \/ LoginFailed(c)
  \/ ErrorStorm(c)
  \/ \E i \in Instruments :
       \/ SubscriptionSuccess(c, i)
       \/ SubscriptionFailed(c, i)
       \/ UnsubscriptionSuccess(c, i)
       \/ UnsubscriptionFailed(c, i)

ThreadStep(t) ==
  \/ FailureBegin(t)
  \/ \E i \in Instruments : MigrateOne(t, i)
  \/ FailureEnd(t)
  \/ TakeRetryQueue(t)
  \/ RetryOne(t)

Next ==
  \/ \E s \in Sessions : SessionStep(s)
  \/ \E c \in Connections : CallbackStep(c) \/ HeartbeatTimeout(c) \/ HealthRestart(c)
  \/ \E t \in Threads : ThreadStep(t)
  \/ MaintenanceDue
  \/ Cleanup

Spec == Init /\ [][Next]_vars

-----------------------------------------------------------------------------
(* Properties *)

Live(i) == global_subscriptions[i].status \in {"SUBSCRIBING", "ACTIVE"}

\* The tables agree: an entry of the global table has a session that wants
\* it, and every session of an entry lists the instrument itself, so that
\* remove_all_subscriptions_for_session() finds it.  The two tables are under
\* two mutexes and cleanup erases from one of them only.
TablesAgree ==
  \A i \in Instruments :
    LET wanting == global_subscriptions[i].sessions IN
    /\ Exists(i) <=> wanting # {}
    /\ \A s \in wanting : i \in session_subscriptions[s]

\* When the destructor of a session has removed the last instrument of its
\* snapshot, no table names the session any more.
LeftForGood ==
  [][\A s \in Sessions : leaving[s] # {} /\ leaving'[s] = {} =>
        /\ session_subscriptions'[s] = {}
        /\ \A i \in Instruments : s \notin global_subscriptions'[i].sessions]_vars

\* A connection stops carrying an instrument only when the last session that
\* wanted it has left, or when the connection itself is stopped: one session's
\* unsubscribe, a failover or a cleanup never takes another session's quotes.
OnlyTheLastUnsubscribes ==
  [][\A c \in Connections : \A i \in subscribed[c] :
        i \notin subscribed'[c] =>
          \/ restarting[c] = "stopping"
          \/ Exists(i) /\ ~Exists(i)']_vars

\* Nothing takes an instrument that counts as live from a session, no failover,
\* retry, expiry or answer and no other session: its claim ends when it asks for
\* that itself, or in its destructor.
LiveClaimsEndByLeaving ==
  [][\A i \in Instruments, s \in Sessions :
        /\ Live(i)
        /\ s \in global_subscriptions[i].sessions
        /\ s \notin global_subscriptions'[i].sessions
        => RemoveSubscription(s, i) \/ RemoveAllNext(s)]_vars

\* What handle_connection_failure() still has to migrate is as it was when the
\* list was made: failed, wanted, and assigned to the failed connection.  It
\* writes to these entries without looking again.
MigrationListIsFresh ==
  \A t \in Threads : At(t, "migrate") =>
    \A i \in affected :
      /\ global_subscriptions[i].status = "FAILED"
      /\ global_subscriptions[i].assigned = failing[t]
      /\ global_subscriptions[i].sessions # {}

\* Nothing fails that carries something: a connection that loses its session,
\* counts too many errors or is stopped has nothing recorded, the health check
\* reports none that carries, and the front refuses no subscription that is
\* wanted and no unsubscription that is meant.
Undisturbed ==
  /\ Pool!CarriersAreSpared
  /\ FailureBegin(Health) => CarriedBy(failing[Health]) = {}
  /\ \A c \in Connections, i \in Instruments :
       /\ SubscriptionFailed(c, i) => ~Exists(i)
       /\ UnsubscriptionFailed(c, i) => i \in subscribed[c]

\* As long as nothing fails that carries something, the record of every
\* connection is exactly what the dispatcher assigned to it, whatever the order
\* of requests, of late answers and of sessions, and whatever restarts or logs
\* in: nothing is carried twice or for nobody.
RecordsMatchAssignments ==
  \A c \in Connections : \A i \in Instruments :
    i \in subscribed[c] <=> Live(i) /\ global_subscriptions[i].assigned = c

\* SUBSCRIBING ("subscription in progress") has a request to CTP in progress:
\* one for the instrument is unanswered on some connection.
SubscribingIsRequested ==
  \A i \in Instruments : global_subscriptions[i].status = "SUBSCRIBING" =>
    \E c \in Connections : \E n \in DOMAIN requests[c] :
      requests[c][n] = [op |-> "sub", ins |-> i]

\* End to end: what the front streams on a session whose requests are answered
\* is what the dispatcher's table says is served there.
StreamsFollowAssignments ==
  \A c \in Connections : \A i \in Instruments :
    Pool!Settled(c, i) =>
      (i \in feed[c] <=> Live(i) /\ global_subscriptions[i].assigned = c)

\* When the loss of a connection has been handled, nothing that counts as live
\* is left on it: it was migrated, or failed for want of another connection.
FailoverLeavesNothing ==
  \A c \in Connections :
    status[c] = "DISCONNECTED" /\ At(c, "idle") /\ Unlocked =>
      \A i \in Instruments : Live(i) => global_subscriptions[i].assigned # c

ServiceOf(i) ==
  IF Live(i) THEN "serving" ELSE IF Exists(i) THEN "failed" ELSE "none"

Service == INSTANCE SubscriptionService WITH
  Capacity <- MaxSubscriptions,
  wanted <- [i \in Instruments |-> global_subscriptions[i].sessions],
  service <- [i \in Instruments |-> ServiceOf(i)],
  carried <- subscribed

\* Seen through its tables the dispatcher, with all its threads, is the service
\* SubscriptionService.  Only the last session's leaving drops an instrument
\* from a connection that keeps the others; only what is counted as failed is
\* migrated, retried or given up, a claim on it included; a connection takes an
\* instrument on only if it has room.  The service allows that a connection
\* loses all it carries without anybody noticing, and that a late answer has an
\* instrument count as served again that no connection carries.
ServiceSpec == Service!Spec

\* A thread inside the dispatcher gets nearer to its end, or is left alone: a
\* migration has fewer instruments to go, a retry loop a shorter queue.  What
\* fails again meanwhile waits for the next round, and no other thread gives it
\* more to do.
Nearer(t) ==
  \/ At(t, "failure") /\ At(t, "migrate")'
  \/ At(t, "migrate") /\ At(t, "idle")'
  \/ At(t, "migrate") /\ affected' \subseteq affected /\ affected' # affected
  \/ At(t, "recovery") /\ pc'[t] \in {"retry", AfterRetry(t)}
  \/ At(t, "retry") /\ pc'[t] \in {"retry", AfterRetry(t)} /\ Len(work'[t]) < Len(work[t])
  \/ At(t, "cleanup") /\ At(t, "idle")'

LeftAlone(t) ==
  /\ UNCHANGED <<pc[t], work[t]>>
  /\ At(t, "migrate") => UNCHANGED affected

HandlersAdvance ==
  [][\A t \in Threads : ~At(t, "idle") => Nearer(t) \/ LeftAlone(t)]_vars

\* Every thread that enters the dispatcher comes out again.
HandlersReturn == \A t \in Threads : ~At(t, "idle") ~> At(t, "idle")

=============================================================================
