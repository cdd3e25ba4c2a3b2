------------------------ MODULE DispatcherService_proofs ------------------------
(***************************************************************************)
(* The dispatcher implements SubscriptionService, for any number of        *)
(* sessions, connections and instruments.                                  *)
(***************************************************************************)
EXTENDS SubscriptionDispatcher_proofs

\* What the steps below are taken from: types, and that an entry exists only
\* while a session wants it.
ServiceInv == TypeOK /\ TypeInv /\ TablesAgree /\ MigrationListIsFresh

-----------------------------------------------------------------------------
(* How changes of the tables look from outside *)

\* Which service a status stands for, before and after a step.
LEMMA ServiceByStatus ==
  ASSUME TypeInv
  PROVE  \A i \in Instruments :
           /\ global_subscriptions[i].status = "FAILED" => ServiceOf(i) = "failed"
           /\ Live(i) => ServiceOf(i) = "serving"
           /\ ~Exists(i) => ServiceOf(i) = "none"
           /\ Exists(i) => Live(i) \/ global_subscriptions[i].status = "FAILED"
BY DEF TypeInv, TablesTyped, SubscriptionInfo, SubscriptionStatus, ServiceOf, Live, Exists

LEMMA ServiceByStatusNext ==
  \A i \in Instruments :
    /\ global_subscriptions'[i].status = "FAILED" => ServiceOf(i)' = "failed"
    /\ global_subscriptions'[i].status \in {"SUBSCRIBING", "ACTIVE"}
         => ServiceOf(i)' = "serving"
    /\ global_subscriptions'[i].status = "CANCELLED" => ServiceOf(i)' = "none"
    /\ global_subscriptions'[i].status = global_subscriptions[i].status
         => ServiceOf(i)' = ServiceOf(i)
BY DEF ServiceOf, Live, Exists

\* Entries whose status changes to one meaning, and all others as they were.
LEMMA ServiceBecomes ==
  ASSUME NEW I \in SUBSET Instruments, NEW v,
         \A i \in I : ServiceOf(i)' = v,
         \A i \in Instruments \ I : ServiceOf(i)' = ServiceOf(i)
  PROVE  Service!Becomes(I, v)
BY DEF Service!Becomes

LEMMA ServiceSame ==
  ASSUME \A i \in Instruments :
           /\ global_subscriptions'[i].sessions = global_subscriptions[i].sessions
           /\ ServiceOf(i)' = ServiceOf(i)
  PROVE  /\ [i \in Instruments |-> global_subscriptions[i].sessions]'
              = [i \in Instruments |-> global_subscriptions[i].sessions]
         /\ [i \in Instruments |-> ServiceOf(i)]' = [i \in Instruments |-> ServiceOf(i)]
OBVIOUS

\* What a subscription the pool accepted means, and a refused one.
LEMMA SubscribeCarries ==
  ASSUME TypeOK, NEW c \in Connections, NEW i \in Instruments, NEW ok \in BOOLEAN,
         Pool!SubscribeInstrument(c, i, ok)
  PROVE  IF ok THEN Service!Carry(c, i) ELSE UNCHANGED subscribed
<1>1. subscribed \in [Connections -> SUBSET Instruments]
  BY DEF TypeOK, Pool!TypeOK
<1>2. Pool!Cardinality(subscribed[c]) = Service!Cardinality(subscribed[c])
  BY Zenon DEF Pool!Cardinality, Service!Cardinality
<1>3. CASE UNCHANGED subscribed /\ (ok => i \in subscribed[c])
  <2>1. ok => subscribed' = [subscribed EXCEPT ![c] = @ \cup {i}]
    BY <1>1, <1>3
  <2>2. QED
    BY <1>3, <2>1 DEF Service!Carry
<1>4. CASE ok /\ Pool!HasRoom(c) /\ subscribed' = [subscribed EXCEPT ![c] = @ \cup {i}]
  BY <1>2, <1>4 DEF Pool!HasRoom, Service!Carry
<1>5. QED
  BY <1>3, <1>4 DEF Pool!SubscribeInstrument

-----------------------------------------------------------------------------
(* One kind of step after the other *)

\* Requests of sessions: the service's Join and Leave.
LEMMA SessionStepServes ==
  ASSUME ServiceInv, NEW s \in Sessions, SessionStep(s)
  PROVE  [Service!Next]_(Service!serviceVars)
<1> USE DEF ServiceInv
<1>1. /\ global_subscriptions \in [Instruments -> SubscriptionInfo]
      /\ subscribed \in [Connections -> SUBSET Instruments]
  BY DEF TypeInv, TablesTyped, TypeOK, Pool!TypeOK
<1>2. ASSUME NEW i \in Instruments, AddSubscription(s, i) PROVE Service!Join(s, i)
  <2>1. CASE Exists(i)
    <3>1. /\ global_subscriptions' = [global_subscriptions EXCEPT ![i].sessions = @ \cup {s}]
          /\ UNCHANGED subscribed
      BY <1>2, <2>1 DEF AddSubscription, connVars
    <3>2. \A j \in Instruments :
            /\ global_subscriptions'[j].status = global_subscriptions[j].status
            /\ global_subscriptions'[j].sessions =
                 IF j = i THEN global_subscriptions[j].sessions \cup {s}
                 ELSE global_subscriptions[j].sessions
      BY <1>1, <3>1 DEF SubscriptionInfo
    <3>3. ServiceOf(i) # "none"
      BY <2>1, ServiceByStatus
    <3>4. QED
      BY <3>1, <3>2, <3>3, ServiceByStatusNext DEF Service!Join
  <2>2. CASE ~Exists(i)
    <3>1. global_subscriptions[i].sessions = {} /\ ServiceOf(i) = "none"
      BY <2>2, ServiceByStatus DEF TablesAgree
    <3>2. PICK c \in Connections \cup {NoConnection}, ok \in BOOLEAN :
            /\ global_subscriptions' = [global_subscriptions EXCEPT ![i] = NewEntry(s, c, ok)]
            /\ IF ok THEN \E d \in Connections : Service!Carry(d, i) ELSE UNCHANGED subscribed
      <4>1. ASSUME NEW c \in Pool!Available, NEW ok \in BOOLEAN,
                   Pool!SubscribeInstrument(c, i, ok)
            PROVE  IF ok THEN \E d \in Connections : Service!Carry(d, i)
                         ELSE UNCHANGED subscribed
        <5>1. c \in Connections
          BY DEF Pool!Available
        <5>2. QED
          BY <4>1, <5>1, SubscribeCarries
      <4>2. \/ /\ global_subscriptions' =
                    [global_subscriptions EXCEPT ![i] = NewEntry(s, NoConnection, FALSE)]
               /\ UNCHANGED connVars
            \/ \E c \in Pool!Available, ok \in BOOLEAN :
                 /\ Pool!SubscribeInstrument(c, i, ok)
                 /\ global_subscriptions' =
                      [global_subscriptions EXCEPT ![i] = NewEntry(s, c, ok)]
        BY <1>2, <2>2 DEF AddSubscription
      <4>3. CASE /\ global_subscriptions' =
                    [global_subscriptions EXCEPT ![i] = NewEntry(s, NoConnection, FALSE)]
                 /\ UNCHANGED connVars
        <5> WITNESS NoConnection \in Connections \cup {NoConnection}, FALSE \in BOOLEAN
        <5> QED
          BY <4>3 DEF connVars
      <4>4. ASSUME NEW c \in Pool!Available, NEW ok \in BOOLEAN,
                   /\ Pool!SubscribeInstrument(c, i, ok)
                   /\ global_subscriptions' =
                        [global_subscriptions EXCEPT ![i] = NewEntry(s, c, ok)]
            PROVE  \E d \in Connections \cup {NoConnection}, b \in BOOLEAN :
                     /\ global_subscriptions' =
                          [global_subscriptions EXCEPT ![i] = NewEntry(s, d, b)]
                     /\ IF b THEN \E e \in Connections : Service!Carry(e, i)
                             ELSE UNCHANGED subscribed
        <5>1. c \in Connections \cup {NoConnection}
          BY DEF Pool!Available
        <5> WITNESS c \in Connections \cup {NoConnection}, ok \in BOOLEAN
        <5> QED
          BY <4>1, <4>4
      <4>5. QED
        BY <4>2, <4>3, <4>4
    <3>3. /\ global_subscriptions'[i].sessions = {s}
          /\ global_subscriptions'[i].status = IF ok THEN "SUBSCRIBING" ELSE "FAILED"
          /\ \A j \in Instruments \ {i} : global_subscriptions'[j] = global_subscriptions[j]
      BY <1>1, <3>2 DEF NewEntry
    <3>4. /\ ServiceOf(i)' = IF ok THEN "serving" ELSE "failed"
          /\ \A j \in Instruments \ {i} : ServiceOf(j)' = ServiceOf(j)
      BY <3>3, ServiceByStatusNext
    <3>5. Service!Becomes({i}, IF ok THEN "serving" ELSE "failed")
      BY <3>4, ServiceBecomes
    <3>6. [j \in Instruments |-> global_subscriptions[j].sessions]' =
            [[j \in Instruments |-> global_subscriptions[j].sessions] EXCEPT ![i] = @ \cup {s}]
      BY <3>1, <3>3
    <3>7. QED
      BY <3>1, <3>2, <3>5, <3>6 DEF Service!Join
  <2>3. QED
    BY <2>1, <2>2
<1>3. ASSUME NEW i \in Instruments, RemoveFor(s, i)
      PROVE  Service!Leave(s, i) \/ UNCHANGED Service!serviceVars
  <2> DEFINE rest == global_subscriptions[i].sessions \ {s}
  <2>1. CASE Exists(i) /\ rest = {}
    <3>1. global_subscriptions[i].sessions = {s}
      BY <2>1 DEF TablesAgree
    <3>2. global_subscriptions' = [global_subscriptions EXCEPT ![i] = NoEntry]
      BY <1>3, <2>1 DEF RemoveFor
    <3>3. \/ UNCHANGED subscribed
          \/ \E c \in Connections : subscribed' = [subscribed EXCEPT ![c] = @ \ {i}]
      <4>1. global_subscriptions[i].assigned \in Connections \cup {NoConnection}
        BY <1>1 DEF SubscriptionInfo
      <4>2. QED
        BY <1>3, <2>1, <4>1 DEF RemoveFor, ExecuteUnsubscription,
                                Pool!UnsubscribeInstrument, connVars
    <3>4. /\ global_subscriptions'[i].sessions = {} /\ global_subscriptions'[i].status = "CANCELLED"
          /\ \A j \in Instruments \ {i} : global_subscriptions'[j] = global_subscriptions[j]
      BY <1>1, <3>2 DEF NoEntry
    <3>5. Service!Becomes({i}, "none")
      BY <3>4, ServiceByStatusNext, ServiceBecomes
    <3>6. [j \in Instruments |-> global_subscriptions[j].sessions]' =
            [[j \in Instruments |-> global_subscriptions[j].sessions] EXCEPT ![i] = @ \ {s}]
      BY <3>1, <3>4
    <3>7. QED
      BY <3>1, <3>3, <3>5, <3>6 DEF Service!Leave
  <2>2. CASE ~Exists(i) \/ rest # {}
    <3>1. /\ global_subscriptions' = [global_subscriptions EXCEPT ![i].sessions = rest]
          /\ UNCHANGED subscribed
      BY <1>3, <2>2 DEF RemoveFor, connVars
    <3>2. \A j \in Instruments :
            /\ global_subscriptions'[j].status = global_subscriptions[j].status
            /\ global_subscriptions'[j].sessions =
                 IF j = i THEN rest ELSE global_subscriptions[j].sessions
      BY <1>1, <3>1 DEF SubscriptionInfo
    <3>3. \A j \in Instruments : ServiceOf(j)' = ServiceOf(j)
      BY <3>2, ServiceByStatusNext
    <3>4. CASE s \notin global_subscriptions[i].sessions
      BY <3>1, <3>2, <3>3, <3>4 DEF Service!serviceVars
    <3>5. CASE s \in global_subscriptions[i].sessions
      <4>1. global_subscriptions[i].sessions # {s}
        BY <2>2, <3>5 DEF TablesAgree
      <4>2. QED
        BY <3>1, <3>2, <3>3, <3>5, <4>1 DEF Service!Leave
    <3>6. QED
      BY <3>4, <3>5
  <2>3. QED
    BY <2>1, <2>2
<1>4. CASE RemoveAllBegin(s)
  BY <1>4 DEF RemoveAllBegin, connVars, tables, Service!serviceVars, ServiceOf, Live, Exists
<1>5. CASE RemoveAllNext(s)
  BY <1>3, <1>5 DEF RemoveAllNext, TypeInv, TablesTyped, Service!Next
<1>6. QED
  BY <1>2, <1>3, <1>4, <1>5 DEF SessionStep, RemoveSubscription, Service!Next

\* An entry that is now served was served before, or its failure is over.
LEMMA EntryServed ==
  ASSUME TypeInv, NEW i \in Instruments, Exists(i),
         global_subscriptions'[i].status \in {"SUBSCRIBING", "ACTIVE"},
         \A j \in Instruments :
           /\ global_subscriptions'[j].sessions = global_subscriptions[j].sessions
           /\ j # i => global_subscriptions'[j].status = global_subscriptions[j].status,
         UNCHANGED subscribed
  PROVE  Service!Confirm(i) \/ UNCHANGED Service!serviceVars
<1>1. ServiceOf(i)' = "serving" /\ \A j \in Instruments \ {i} : ServiceOf(j)' = ServiceOf(j)
  BY ServiceByStatusNext
<1>2. CASE ServiceOf(i) = "serving"
  <2>1. \A j \in Instruments : ServiceOf(j)' = ServiceOf(j)
    BY <1>1, <1>2
  <2>2. QED
    BY <2>1, ServiceSame DEF Service!serviceVars
<1>3. CASE ServiceOf(i) = "failed"
  <2>1. Service!Becomes({i}, "serving")
    BY <1>1, ServiceBecomes
  <2>2. QED
    BY <1>3, <2>1 DEF Service!Confirm
<1>4. QED
  BY <1>2, <1>3 DEF ServiceOf

\* An entry that has now failed was served before, or had failed already.
LEMMA EntryFailed ==
  ASSUME TypeInv, NEW i \in Instruments, Exists(i),
         global_subscriptions'[i].status = "FAILED",
         \A j \in Instruments :
           /\ global_subscriptions'[j].sessions = global_subscriptions[j].sessions
           /\ j # i => global_subscriptions'[j].status = global_subscriptions[j].status,
         UNCHANGED subscribed
  PROVE  Service!Fail({i}) \/ UNCHANGED Service!serviceVars
<1>1. ServiceOf(i)' = "failed" /\ \A j \in Instruments \ {i} : ServiceOf(j)' = ServiceOf(j)
  BY ServiceByStatusNext
<1>2. CASE ServiceOf(i) = "failed"
  <2>1. \A j \in Instruments : ServiceOf(j)' = ServiceOf(j)
    BY <1>1, <1>2
  <2>2. QED
    BY <2>1, ServiceSame DEF Service!serviceVars
<1>3. CASE ServiceOf(i) = "serving"
  <2>1. Service!Becomes({i}, "failed")
    BY <1>1, ServiceBecomes
  <2>2. QED
    BY <1>3, <2>1 DEF Service!Fail
<1>4. QED
  BY <1>2, <1>3 DEF ServiceOf, Exists

\* A failed entry that is subscribed anew, with what subscribe_instrument() says.
LEMMA EntryRetried ==
  ASSUME ServiceInv, NEW i \in Instruments, NEW c \in Pool!Available, NEW ok \in BOOLEAN,
         global_subscriptions[i].status = "FAILED",
         Pool!SubscribeInstrument(c, i, ok),
         global_subscriptions'[i].status = IF ok THEN "SUBSCRIBING" ELSE "FAILED",
         \A j \in Instruments :
           /\ global_subscriptions'[j].sessions = global_subscriptions[j].sessions
           /\ j # i => global_subscriptions'[j].status = global_subscriptions[j].status
  PROVE  Service!Rescue(c, i) \/ UNCHANGED Service!serviceVars
<1>1. c \in Connections
  BY DEF Pool!Available
<1>2. ServiceOf(i) = "failed" /\ Exists(i)
  BY ServiceByStatus DEF ServiceInv, Exists
<1>3. CASE ok
  <2>1. Service!Carry(c, i)
    BY <1>1, <1>3, SubscribeCarries DEF ServiceInv
  <2>2. ServiceOf(i)' = "serving" /\ \A j \in Instruments \ {i} : ServiceOf(j)' = ServiceOf(j)
    BY <1>3, ServiceByStatusNext
  <2>3. Service!Becomes({i}, "serving")
    BY <2>2, ServiceBecomes
  <2>4. QED
    BY <1>2, <2>1, <2>3 DEF Service!Rescue
<1>4. CASE ~ok
  <2>1. UNCHANGED subscribed
    BY <1>1, <1>4, SubscribeCarries DEF ServiceInv
  <2>2. \A j \in Instruments : ServiceOf(j)' = ServiceOf(j)
    BY <1>4, ServiceByStatusNext
  <2>3. QED
    BY <2>1, <2>2, ServiceSame DEF Service!serviceVars
<1>5. QED
  BY <1>3, <1>4

\* No callback changes the record of a connection.
LEMMA CallbacksLeaveRecords ==
  ASSUME NEW c, CallbackStep(c) PROVE UNCHANGED subscribed
BY DEF CallbackStep, ConnectionLost, ConnectionRecovered, FrontConnected, LoginFailed,
       ErrorStorm, SubscriptionSuccess, SubscriptionFailed, UnsubscriptionSuccess,
       UnsubscriptionFailed, Pool!OnFrontDisconnected, Pool!LoggedIn, Pool!OnFrontConnected,
       Pool!LoginRejected, Pool!TooManyErrors, Pool!Subscribed, Pool!SubscribeRejected,
       Pool!Unsubscribed, Pool!UnsubscribeRejected, Pool!Answer

\* Nobody notices a step that leaves the global table and the records alone.
LEMMA Unnoticed ==
  ASSUME UNCHANGED <<global_subscriptions, subscribed>>
  PROVE  UNCHANGED Service!serviceVars
BY DEF Service!serviceVars, ServiceOf, Live, Exists

\* Answers confirm or fail one instrument; the session callbacks go unnoticed.
LEMMA CallbackStepServes ==
  ASSUME ServiceInv, NEW c \in Connections, CallbackStep(c)
  PROVE  [Service!Next]_(Service!serviceVars)
<1>1. /\ global_subscriptions \in [Instruments -> SubscriptionInfo]
      /\ UNCHANGED subscribed
  BY CallbacksLeaveRecords DEF ServiceInv, TypeInv, TablesTyped
<1>2. ASSUME NEW i \in Instruments, SubscriptionSuccess(c, i)
      PROVE  Service!Confirm(i) \/ UNCHANGED Service!serviceVars
  <2>1. CASE UNCHANGED global_subscriptions
    BY <1>1, <2>1, Unnoticed
  <2>2. CASE /\ Exists(i)
             /\ global_subscriptions' = [global_subscriptions EXCEPT ![i].status = "ACTIVE"]
    <3>1. /\ global_subscriptions'[i].status = "ACTIVE"
          /\ \A j \in Instruments :
               /\ global_subscriptions'[j].sessions = global_subscriptions[j].sessions
               /\ j # i => global_subscriptions'[j].status = global_subscriptions[j].status
      BY <1>1, <2>2 DEF SubscriptionInfo
    <3>2. QED
      BY <1>1, <2>2, <3>1, EntryServed DEF ServiceInv
  <2>3. QED
    BY <1>2, <2>1, <2>2 DEF SubscriptionSuccess
<1>3. ASSUME NEW i \in Instruments, SubscriptionFailed(c, i)
      PROVE  Service!Fail({i}) \/ UNCHANGED Service!serviceVars
  <2>1. CASE UNCHANGED global_subscriptions
    BY <1>1, <2>1, Unnoticed
  <2>2. CASE /\ Exists(i)
             /\ global_subscriptions' = [global_subscriptions EXCEPT
                  ![i].status = "FAILED", ![i].retries = Bump(@)]
    <3>1. /\ global_subscriptions'[i].status = "FAILED"
          /\ \A j \in Instruments :
               /\ global_subscriptions'[j].sessions = global_subscriptions[j].sessions
               /\ j # i => global_subscriptions'[j].status = global_subscriptions[j].status
      BY <1>1, <2>2 DEF SubscriptionInfo
    <3>2. QED
      BY <1>1, <2>2, <3>1, EntryFailed DEF ServiceInv
  <2>3. QED
    BY <1>3, <2>1, <2>2 DEF SubscriptionFailed
<1>4. CASE ConnectionLost(c) \/ ConnectionRecovered(c)
  BY <1>1, <1>4, Unnoticed DEF ConnectionLost, ConnectionRecovered, tables
<1>5. CASE FrontConnected(c) \/ LoginFailed(c) \/ ErrorStorm(c)
  BY <1>1, <1>5, Unnoticed DEF FrontConnected, LoginFailed, ErrorStorm, tables
<1>6. ASSUME NEW i \in Instruments,
             UnsubscriptionSuccess(c, i) \/ UnsubscriptionFailed(c, i)
      PROVE  UNCHANGED Service!serviceVars
  BY <1>1, <1>6, Unnoticed DEF UnsubscriptionSuccess, UnsubscriptionFailed, tables
<1>7. \A i \in Instruments :
        /\ Service!Confirm(i) => Service!Next
        /\ Service!Fail({i}) => Service!Next
  <2>1. \A i \in Instruments : {i} \in SUBSET Instruments
    OBVIOUS
  <2>2. QED
    BY <2>1 DEF Service!Next
<1>8. QED
  BY <1>2, <1>3, <1>4, <1>5, <1>6, <1>7 DEF CallbackStep

\* A failure handler fails all its connection carried, and rescues one after
\* the other; so does the retry loop.
LEMMA ThreadStepServes ==
  ASSUME ServiceInv, NEW t \in Threads, ThreadStep(t)
  PROVE  [Service!Next]_(Service!serviceVars)
<1>1. global_subscriptions \in [Instruments -> SubscriptionInfo]
  BY DEF ServiceInv, TypeInv, TablesTyped
<1>2. CASE FailureBegin(t)
  <2> DEFINE I == CarriedBy(failing[t])
  <2>1. I \in SUBSET Instruments /\ \A i \in I : ServiceOf(i) = "serving"
    BY ServiceByStatus DEF CarriedBy, ServiceInv, Live
  <2>2. /\ \A i \in Instruments : global_subscriptions'[i].sessions = global_subscriptions[i].sessions
        /\ \A i \in I : global_subscriptions'[i].status = "FAILED"
        /\ \A i \in Instruments \ I : global_subscriptions'[i] = global_subscriptions[i]
        /\ UNCHANGED subscribed
    BY <1>1, <1>2, <2>1 DEF FailureBegin, connVars, SubscriptionInfo
  <2> HIDE DEF I
  <2>3. Service!Becomes(I, "failed")
    BY <2>1, <2>2, ServiceByStatusNext, ServiceBecomes
  <2>4. Service!Fail(I)
    BY <2>1, <2>2, <2>3 DEF Service!Fail
  <2>5. QED
    BY <2>1, <2>4 DEF Service!Next
<1>3. ASSUME NEW i \in Instruments, MigrateOne(t, i)
      PROVE  [Service!Next]_(Service!serviceVars)
  <2>1. CASE UNCHANGED <<connVars, global_subscriptions>>
    BY <2>1, Unnoticed DEF connVars
  <2>2. ASSUME NEW c \in Pool!Available \ {failing[t]}, NEW ok \in BOOLEAN,
               Pool!SubscribeInstrument(c, i, ok),
               global_subscriptions' =
                 [global_subscriptions EXCEPT
                    ![i].assigned = c,
                    ![i].status = IF ok THEN "SUBSCRIBING" ELSE "FAILED",
                    ![i].retries = 0]
        PROVE  Service!Rescue(c, i) \/ UNCHANGED Service!serviceVars
    <3>1. global_subscriptions[i].status = "FAILED"
      BY <1>3 DEF ServiceInv, MigrationListIsFresh, MigrateOne
    <3>2. /\ global_subscriptions'[i].status = IF ok THEN "SUBSCRIBING" ELSE "FAILED"
          /\ \A j \in Instruments :
               /\ global_subscriptions'[j].sessions = global_subscriptions[j].sessions
               /\ j # i => global_subscriptions'[j].status = global_subscriptions[j].status
      BY <1>1, <2>2 DEF SubscriptionInfo
    <3>3. QED
      BY <2>2, <3>1, <3>2, EntryRetried
  <2>3. Pool!Available \subseteq Connections
    BY DEF Pool!Available
  <2>4. QED
    BY <1>3, <2>1, <2>2, <2>3 DEF MigrateOne, Service!Next
<1>4. CASE FailureEnd(t) \/ TakeRetryQueue(t)
  BY <1>4, Unnoticed DEF FailureEnd, TakeRetryQueue, connVars, tables
<1>5. CASE RetryOne(t)
  <2> DEFINE i == Head(work[t])
  <2>1. i \in Instruments
    BY <1>5 DEF ServiceInv, TypeInv, TablesTyped, RetryHasWork, RetryOne
  <2> HIDE DEF i
  <2>2. CASE UNCHANGED <<connVars, global_subscriptions>>
    BY <2>2, Unnoticed DEF connVars
  <2>3. ASSUME NEW c \in Pool!Available, NEW ok \in BOOLEAN,
               global_subscriptions[i].status = "FAILED",
               Pool!SubscribeInstrument(c, i, ok),
               global_subscriptions' =
                 [global_subscriptions EXCEPT
                    ![i].assigned = c,
                    ![i].status = IF ok THEN "SUBSCRIBING" ELSE "FAILED"]
        PROVE  Service!Rescue(c, i) \/ UNCHANGED Service!serviceVars
    <3>1. /\ global_subscriptions'[i].status = IF ok THEN "SUBSCRIBING" ELSE "FAILED"
          /\ \A j \in Instruments :
               /\ global_subscriptions'[j].sessions = global_subscriptions[j].sessions
               /\ j # i => global_subscriptions'[j].status = global_subscriptions[j].status
      BY <1>1, <2>1, <2>3 DEF SubscriptionInfo
    <3>2. QED
      BY <2>1, <2>3, <3>1, EntryRetried
  <2>4. \/ UNCHANGED <<connVars, global_subscriptions>>
        \/ /\ global_subscriptions[i].status = "FAILED"
           /\ \E c \in Pool!Available, ok \in BOOLEAN :
                /\ Pool!SubscribeInstrument(c, i, ok)
                /\ global_subscriptions' =
                     [global_subscriptions EXCEPT
                        ![i].assigned = c,
                        ![i].status = IF ok THEN "SUBSCRIBING" ELSE "FAILED"]
    BY <1>5 DEF RetryOne, i
  <2>5. Pool!Available \subseteq Connections
    BY DEF Pool!Available
  <2>6. QED
    BY <2>1, <2>2, <2>3, <2>4, <2>5 DEF Service!Next
<1>6. QED
  BY <1>2, <1>3, <1>4, <1>5 DEF ThreadStep

\* stop() loses all a connection carried; nobody who wanted it is told.
LEMMA HealthRestartServes ==
  ASSUME ServiceInv, NEW c \in Connections, HealthRestart(c)
  PROVE  [Service!Next]_(Service!serviceVars)
<1>1. CASE UNCHANGED subscribed
  BY <1>1, Unnoticed DEF HealthRestart, tables
<1>2. CASE Pool!StopEnd(c)
  <2>1. UNCHANGED global_subscriptions
    BY DEF HealthRestart, tables
  <2>2. Service!Becomes({}, "failed")
    BY <2>1 DEF Service!Becomes, ServiceOf, Live, Exists
  <2>3. Service!Lose(c, {})
    BY <1>2, <2>1, <2>2 DEF Pool!StopEnd, Service!Lose
  <2>4. QED
    BY <2>3 DEF Service!Next
<1>3. QED
  BY <1>1, <1>2 DEF HealthRestart, Pool!ChooseForRestart, Pool!StopBegin, Pool!Start

\* Only what has failed expires.
LEMMA CleanupServes ==
  ASSUME ServiceInv, Cleanup
  PROVE  [Service!Next]_(Service!serviceVars)
<1>1. PICK expired \in SUBSET {i \in Instruments : global_subscriptions[i].status = "FAILED"} :
        /\ global_subscriptions' =
             [i \in Instruments |-> IF i \in expired THEN NoEntry ELSE global_subscriptions[i]]
        /\ UNCHANGED subscribed
  BY DEF Cleanup, connVars
<1>2. expired \in SUBSET Instruments /\ \A i \in expired : ServiceOf(i) = "failed"
  BY ServiceByStatus DEF ServiceInv
<1>3. /\ \A i \in expired : /\ global_subscriptions'[i].status = "CANCELLED"
                            /\ global_subscriptions'[i].sessions = {}
      /\ \A i \in Instruments \ expired : global_subscriptions'[i] = global_subscriptions[i]
  BY <1>1 DEF NoEntry
<1>4. Service!Becomes(expired, "none")
  BY <1>2, <1>3, ServiceByStatusNext, ServiceBecomes
<1>5. Service!GiveUp(expired)
  BY <1>1, <1>2, <1>3, <1>4 DEF Service!GiveUp
<1>6. QED
  BY <1>2, <1>5 DEF Service!Next

-----------------------------------------------------------------------------

\* The dispatcher with its pool, its mutexes, its threads and its retries is
\* the service its sessions expect.  A step outside the agreement of the tables
\* would break this: a rescue of what nobody wants any more, or a migration of
\* what is served elsewhere.
THEOREM DispatcherServes == Spec => ServiceSpec
<1> DEFINE Inv == ServiceInv
<1>1. Init => Service!Init
  BY DEF Init, Pool!Init, Service!Init, NoEntry, ServiceOf, Live, Exists
<1>2. Inv /\ [Next]_vars => [Service!Next]_(Service!serviceVars)
  <2> SUFFICES ASSUME ServiceInv, [Next]_vars
               PROVE  [Service!Next]_(Service!serviceVars)
    OBVIOUS
  <2>1. CASE UNCHANGED vars
    BY <2>1, Unnoticed DEF vars, connVars, tables
  <2>2. CASE MaintenanceDue \/ \E c \in Connections : HeartbeatTimeout(c)
    BY <2>2, Unnoticed DEF MaintenanceDue, HeartbeatTimeout, connVars, tables
  <2>3. QED
    BY <2>1, <2>2, SessionStepServes, CallbackStepServes, ThreadStepServes,
       HealthRestartServes, CleanupServes DEF Next
<1>3. Spec => []Inv
  BY DispatcherTypeCorrect, TablesTypeCorrect, TablesAlwaysAgree,
     MigrationIsAlwaysFresh, PTL DEF ServiceInv
<1>4. QED
  BY <1>1, <1>2, <1>3, PTL DEF Spec, ServiceSpec, Service!Spec

-----------------------------------------------------------------------------
(* Who ends a claim.  The service has no actors: this is proved of the      *)
(* dispatcher itself.                                                       *)

\* No session loses its claim on i.
KeepsClaims(i) == global_subscriptions[i].sessions \subseteq global_subscriptions'[i].sessions

LEMMA SessionStepKeepsClaims ==
  ASSUME TypeInv, TablesAgree, NEW q \in Sessions, SessionStep(q), NEW i \in Instruments,
         NEW s \in global_subscriptions[i].sessions,
         s \notin global_subscriptions'[i].sessions
  PROVE  RemoveSubscription(s, i) \/ RemoveAllNext(s)
<1>1. global_subscriptions \in [Instruments -> SubscriptionInfo]
  BY DEF TypeInv, TablesTyped
<1>2. ASSUME NEW j \in Instruments, AddSubscription(q, j) PROVE FALSE
  <2>1. CASE Exists(j)
    <3>1. global_subscriptions' = [global_subscriptions EXCEPT ![j].sessions = @ \cup {q}]
      BY <1>2, <2>1 DEF AddSubscription
    <3>2. QED
      BY <1>1, <3>1 DEF SubscriptionInfo
  <2>2. CASE ~Exists(j)
    <3>1. \A k \in Instruments \ {j} : global_subscriptions'[k] = global_subscriptions[k]
      BY <1>1, <1>2, <2>2 DEF AddSubscription
    <3>2. i # j
      BY <2>2 DEF TablesAgree
    <3>3. QED
      BY <3>1, <3>2
  <2>3. QED
    BY <2>1, <2>2
<1>3. ASSUME NEW j \in Instruments, RemoveFor(q, j) PROVE j = i /\ q = s
  BY <1>1, <1>3 DEF RemoveFor, SubscriptionInfo
<1>4. CASE RemoveAllBegin(q)
  BY <1>4 DEF RemoveAllBegin, tables
<1>5. CASE RemoveAllNext(q)
  <2>1. PICK j \in leaving[q] : RemoveFor(q, j)
    BY <1>5 DEF RemoveAllNext
  <2>2. j \in Instruments
    BY <2>1 DEF TypeInv, TablesTyped
  <2>3. QED
    BY <1>3, <1>5, <2>1, <2>2
<1>6. ASSUME NEW j \in Instruments, RemoveSubscription(q, j)
      PROVE  RemoveSubscription(s, i)
  BY <1>3, <1>6 DEF RemoveSubscription
<1>7. QED
  BY <1>2, <1>4, <1>5, <1>6 DEF SessionStep

\* The other threads write statuses, assignments and counts of an entry.
LEMMA OthersKeepClaims ==
  ASSUME TypeInv, NEW i \in Instruments,
         \/ \E c \in Connections : CallbackStep(c) \/ HeartbeatTimeout(c) \/ HealthRestart(c)
         \/ \E t \in Threads : ThreadStep(t)
         \/ MaintenanceDue
  PROVE  KeepsClaims(i)
<1> USE DEF KeepsClaims
<1>1. global_subscriptions \in [Instruments -> SubscriptionInfo]
  BY DEF TypeInv, TablesTyped
<1>2. CASE UNCHANGED global_subscriptions
  BY <1>2
<1>3. ASSUME NEW c \in Connections, CallbackStep(c) PROVE KeepsClaims(i)
  <2>1. ASSUME NEW j \in Instruments, SubscriptionSuccess(c, j) \/ SubscriptionFailed(c, j)
        PROVE  KeepsClaims(i)
    BY <1>1, <2>1 DEF SubscriptionSuccess, SubscriptionFailed, SubscriptionInfo
  <2>2. QED
    BY <1>2, <1>3, <2>1
       DEF CallbackStep, ConnectionLost, ConnectionRecovered, FrontConnected, LoginFailed,
           ErrorStorm, UnsubscriptionSuccess, UnsubscriptionFailed, tables
<1>4. ASSUME NEW t \in Threads, ThreadStep(t) PROVE KeepsClaims(i)
  <2>1. CASE FailureBegin(t)
    BY <1>1, <2>1 DEF FailureBegin, SubscriptionInfo
  <2>2. ASSUME NEW j, NEW c, NEW v,
               \/ global_subscriptions' = [global_subscriptions EXCEPT
                    ![j].assigned = c, ![j].status = v, ![j].retries = 0]
               \/ global_subscriptions' = [global_subscriptions EXCEPT
                    ![j].assigned = c, ![j].status = v]
        PROVE  KeepsClaims(i)
    BY <1>1, <2>2 DEF SubscriptionInfo
  <2>3. ASSUME NEW j \in Instruments, MigrateOne(t, j) PROVE KeepsClaims(i)
    BY <1>2, <2>2, <2>3, Zenon DEF MigrateOne
  <2>4. CASE RetryOne(t)
    <3>1. CASE UNCHANGED global_subscriptions
      BY <1>2, <3>1
    <3>2. ASSUME NEW c \in Pool!Available, NEW ok \in BOOLEAN,
                 global_subscriptions' =
                   [global_subscriptions EXCEPT
                      ![Head(work[t])].assigned = c,
                      ![Head(work[t])].status = IF ok THEN "SUBSCRIBING" ELSE "FAILED"]
          PROVE  KeepsClaims(i)
      BY <2>2, <3>2, Zenon
    <3>3. QED
      BY <2>4, <3>1, <3>2, Zenon DEF RetryOne
  <2>5. QED
    BY <1>2, <1>4, <2>1, <2>3, <2>4 DEF ThreadStep, FailureEnd, TakeRetryQueue, tables
<1>5. CASE MaintenanceDue \/ \E c \in Connections : HeartbeatTimeout(c) \/ HealthRestart(c)
  BY <1>2, <1>5 DEF MaintenanceDue, HeartbeatTimeout, HealthRestart, tables
<1>6. QED
  BY <1>3, <1>4, <1>5

\* No failover, retry, expiry or answer takes a live instrument from a session
\* that wants it: SubscriptionDispatcher!LiveClaimsEndByLeaving.
THEOREM DispatcherKeepsClaims == Spec => LiveClaimsEndByLeaving
<1> DEFINE Leaving ==
      \A i \in Instruments, s \in Sessions :
        /\ Live(i)
        /\ s \in global_subscriptions[i].sessions
        /\ s \notin global_subscriptions'[i].sessions
        => RemoveSubscription(s, i) \/ RemoveAllNext(s)
<1>1. TypeInv /\ TablesAgree /\ [Next]_vars => [Leaving]_vars
  <2> SUFFICES ASSUME TypeInv, TablesAgree, Next, NEW i \in Instruments, NEW s \in Sessions, Live(i),
                      s \in global_subscriptions[i].sessions,
                      s \notin global_subscriptions'[i].sessions
               PROVE  RemoveSubscription(s, i) \/ RemoveAllNext(s)
    OBVIOUS
  <2>1. ASSUME NEW q \in Sessions, SessionStep(q)
        PROVE  RemoveSubscription(s, i) \/ RemoveAllNext(s)
    BY <2>1, SessionStepKeepsClaims
  <2>2. CASE Cleanup
    BY <2>2 DEF Cleanup, Live
  <2>3. ~KeepsClaims(i)
    BY DEF KeepsClaims
  <2>4. QED
    BY <2>1, <2>2, <2>3, OthersKeepClaims DEF Next
<1>2. QED
  BY <1>1, TablesTypeCorrect, TablesAlwaysAgree, PTL DEF Spec, LiveClaimsEndByLeaving

=============================================================================
