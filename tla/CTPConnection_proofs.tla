------------------------- MODULE CTPConnection_proofs -------------------------
(***************************************************************************)
(* Proofs about the pool of CTP connections, for any number of             *)
(* connections, any finite set of instruments and any limit.               *)
(***************************************************************************)
EXTENDS CTPConnection, FiniteSetTheorems, SequenceTheorems, TLAPS

USE DEF Statuses, Fronts, Phases

-----------------------------------------------------------------------------
(* Types *)

\* Every variable keeps its type: the status is one of the enumeration's, a
\* record holds instruments, and what waits for an answer are requests.
THEOREM PoolTypeCorrect == Spec => []TypeOK
<1>1. Init => TypeOK
  BY DEF Init, TypeOK
<1>2. TypeOK /\ [Next]_connVars => TypeOK'
  <2> SUFFICES ASSUME TypeOK, [Next]_connVars PROVE TypeOK'
    OBVIOUS
  <2> USE DEF TypeOK
  <2>1. CASE UNCHANGED connVars
    BY <2>1 DEF connVars
  <2>2. ASSUME NEW c \in Connections, Restart(c) PROVE TypeOK'
    <3>1. CASE ChooseForRestart(c)
      BY <3>1 DEF ChooseForRestart
    <3>2. CASE StopBegin(c)
      BY <3>2 DEF StopBegin
    <3>3. CASE StopEnd(c)
      BY <3>3 DEF StopEnd
    <3>4. CASE Start(c)
      BY <3>4 DEF Start
    <3>5. QED
      BY <2>2, <3>1, <3>2, <3>3, <3>4 DEF Restart
  <2>3. ASSUME NEW c \in Connections, Session(c) PROVE TypeOK'
    <3>1. CASE OnFrontConnected(c)
      BY <3>1 DEF OnFrontConnected
    <3>2. CASE OnFrontDisconnected(c)
      BY <3>2 DEF OnFrontDisconnected
    <3>3. CASE LoggedIn(c)
      BY <3>3 DEF LoggedIn
    <3>4. CASE LoginRejected(c)
      BY <3>4 DEF LoginRejected
    <3>5. CASE TooManyErrors(c)
      BY <3>5 DEF TooManyErrors
    <3>6. QED
      BY <2>3, <3>1, <3>2, <3>3, <3>4, <3>5 DEF Session
  <2>4. ASSUME NEW c \in Connections, NEW i \in Instruments, Call(c, i)
        PROVE TypeOK'
    <3>1. ASSUME NEW op \in {"sub", "unsub"}, Send(c, op, i)
          PROVE requests' \in [Connections -> Seq(Request)]
      <4>1. [op |-> op, ins |-> i] \in Request
        BY DEF Request
      <4>2. Append(requests[c], [op |-> op, ins |-> i]) \in Seq(Request)
        BY <4>1, AppendProperties
      <4>3. QED
        BY <3>1, <4>2 DEF Send
    <3>2. ASSUME NEW ok \in BOOLEAN, SubscribeInstrument(c, i, ok) PROVE TypeOK'
      BY <3>1, <3>2 DEF SubscribeInstrument
    <3>3. CASE UnsubscribeInstrument(c, i)
      BY <3>1, <3>3 DEF UnsubscribeInstrument
    <3>4. QED
      BY <2>4, <3>2, <3>3 DEF Call
  <2>5. ASSUME NEW c \in Connections, NEW i \in Instruments, Response(c, i)
        PROVE TypeOK'
    <3>1. ASSUME NEW op \in {"sub", "unsub"}, NEW streams \in SUBSET Instruments,
                 Answer(c, op, i, streams)
          PROVE TypeOK'
      <4>1. Tail(requests[c]) \in Seq(Request)
        BY <3>1, HeadTailProperties DEF Answer
      <4>2. QED
        BY <3>1, <4>1 DEF Answer
    <3>2. QED
      BY <2>5, <3>1 DEF Response, Subscribed, SubscribeRejected, Unsubscribed,
                        UnsubscribeRejected
  <2>6. QED
    BY <2>1, <2>2, <2>3, <2>4, <2>5 DEF Next
<1>3. QED
  BY <1>1, <1>2, PTL DEF Spec

-----------------------------------------------------------------------------
(* What a step does to the record of one connection and its requests *)

Kept(c) ==
  /\ subscribed'[c] = subscribed[c]
  /\ requests'[c] \in {requests[c], <<>>}

Cleared(c) == subscribed'[c] = {} /\ requests'[c] = <<>>

Answered(c) ==
  /\ requests[c] # <<>>
  /\ subscribed'[c] = subscribed[c]
  /\ requests'[c] = Tail(requests[c])

Requested(c, i) ==
  /\ i \notin subscribed[c]
  /\ HasRoom(c)
  /\ subscribed'[c] = subscribed[c] \cup {i}
  /\ requests'[c] = Append(requests[c], [op |-> "sub", ins |-> i])

Revoked(c, i) ==
  /\ i \in subscribed[c]
  /\ subscribed'[c] = subscribed[c] \ {i}
  /\ requests'[c] = Append(requests[c], [op |-> "unsub", ins |-> i])

\* A step leaves a connection's record as it is, empties it together with the
\* requests, or changes it by the one instrument it sends a request for.
LEMMA StepOfOneConnection ==
  ASSUME TypeOK, [Next]_connVars, NEW c \in Connections
  PROVE  \/ Kept(c) \/ Cleared(c) \/ Answered(c)
         \/ \E i \in Instruments : Requested(c, i) \/ Revoked(c, i)
<1> USE DEF TypeOK
<1>1. CASE UNCHANGED connVars
  BY <1>1 DEF connVars, Kept
<1>2. ASSUME NEW d \in Connections, Restart(d) PROVE Kept(c) \/ Cleared(c)
  <2>1. CASE ChooseForRestart(d)
    BY <2>1 DEF ChooseForRestart, Kept
  <2>2. CASE StopBegin(d)
    BY <2>2 DEF StopBegin, Kept
  <2>3. CASE StopEnd(d)
    BY <2>3 DEF StopEnd, Kept, Cleared
  <2>4. CASE Start(d)
    BY <2>4 DEF Start, Kept
  <2>5. QED
    BY <1>2, <2>1, <2>2, <2>3, <2>4 DEF Restart
<1>3. ASSUME NEW d \in Connections, Session(d) PROVE Kept(c)
  BY <1>3 DEF Session, OnFrontConnected, OnFrontDisconnected, LoggedIn,
              LoginRejected, TooManyErrors, Kept
<1>4. ASSUME NEW d \in Connections, NEW i \in Instruments, Call(d, i)
      PROVE Kept(c) \/ Requested(c, i) \/ Revoked(c, i)
  <2>1. ASSUME NEW ok \in BOOLEAN, SubscribeInstrument(d, i, ok)
        PROVE Kept(c) \/ Requested(c, i)
    BY <2>1 DEF SubscribeInstrument, Send, Kept, Requested
  <2>2. CASE UnsubscribeInstrument(d, i)
    BY <2>2 DEF UnsubscribeInstrument, Send, Kept, Revoked
  <2>3. QED
    BY <1>4, <2>1, <2>2 DEF Call
<1>5. ASSUME NEW d \in Connections, NEW i \in Instruments, Response(d, i)
      PROVE Kept(c) \/ Answered(c)
  BY <1>5 DEF Response, Subscribed, SubscribeRejected, Unsubscribed,
              UnsubscribeRejected, Answer, Kept, Answered
<1>6. QED
  BY <1>1, <1>2, <1>3, <1>4, <1>5 DEF Next

-----------------------------------------------------------------------------
(* The limit of a connection *)

\* No connection's record ever exceeds max_subscriptions: every request tests
\* the size under the lock that also guards the insertion.
THEOREM PoolCapacity == Spec => []CapacityRespected
<1>1. Init => CapacityRespected
  BY FS_EmptySet, MaxSubscriptionsAssumption DEF Init, CapacityRespected
<1>2. TypeOK /\ CapacityRespected /\ [Next]_connVars => CapacityRespected'
  <2> SUFFICES ASSUME TypeOK, CapacityRespected, [Next]_connVars,
                      NEW c \in Connections
               PROVE  Cardinality(subscribed'[c]) <= MaxSubscriptions
    BY DEF CapacityRespected
  <2>1. /\ IsFiniteSet(subscribed[c])
        /\ Cardinality(subscribed[c]) \in Nat
        /\ Cardinality(subscribed[c]) <= MaxSubscriptions
    <3>1. subscribed[c] \subseteq Instruments
      BY DEF TypeOK
    <3>2. IsFiniteSet(subscribed[c])
      BY <3>1, InstrumentsAssumption, FS_Subset
    <3>3. QED
      BY <3>2, FS_CardinalityType DEF CapacityRespected
  <2>2. CASE Kept(c) \/ Answered(c)
    BY <2>1, <2>2 DEF Kept, Answered
  <2>3. CASE Cleared(c)
    BY <2>3, FS_EmptySet, MaxSubscriptionsAssumption DEF Cleared
  <2>4. ASSUME NEW i \in Instruments, Requested(c, i)
        PROVE  Cardinality(subscribed'[c]) <= MaxSubscriptions
    <3>1. Cardinality(subscribed[c] \cup {i}) = Cardinality(subscribed[c]) + 1
      BY <2>1, <2>4, FS_AddElement DEF Requested
    <3>2. QED
      BY <2>1, <2>4, <3>1, MaxSubscriptionsAssumption DEF Requested, HasRoom
  <2>5. ASSUME NEW i \in Instruments, Revoked(c, i)
        PROVE  Cardinality(subscribed'[c]) <= MaxSubscriptions
    <3>1. Cardinality(subscribed[c] \ {i}) = Cardinality(subscribed[c]) - 1
      BY <2>1, <2>5, FS_RemoveElement DEF Revoked
    <3>2. QED
      BY <2>1, <2>5, <3>1, MaxSubscriptionsAssumption DEF Revoked
  <2>6. QED
    BY <2>2, <2>3, <2>4, <2>5, StepOfOneConnection
<1>3. QED
  BY <1>1, <1>2, PoolTypeCorrect, PTL DEF Spec

-----------------------------------------------------------------------------
(* The order of the requests of one session *)

\* A request that contradicts the record continues the alternation, and the
\* record changed with it follows the longer sequence.
LEMMA NewRequest ==
  ASSUME NEW q \in Seq(Request), NEW S, NEW T, NEW op, NEW i,
         Alternates(q), Follows(S, q),
         op = "sub" <=> i \notin S,
         op = "sub" <=> i \in T,
         \A j : j # i => (j \in S <=> j \in T)
  PROVE  LET r == Append(q, [op |-> op, ins |-> i])
         IN  Alternates(r) /\ Follows(T, r)
<1> DEFINE r == Append(q, [op |-> op, ins |-> i])
<1>1. /\ DOMAIN q = 1..Len(q) /\ Len(q) \in Nat
      /\ DOMAIN r = 1..(Len(q) + 1)
      /\ \A n \in DOMAIN q : r[n] = q[n]
      /\ r[Len(q) + 1] = [op |-> op, ins |-> i]
  OBVIOUS
<1> HIDE DEF r
<1>2. Alternates(r)
  <2> SUFFICES ASSUME NEW n \in DOMAIN r, NEW m \in DOMAIN r, Consecutive(r, n, m)
               PROVE  r[n].op # r[m].op
    BY DEF Alternates
  <2>1. n \in DOMAIN q
    BY <1>1 DEF Consecutive
  <2>2. CASE m \in DOMAIN q
    BY <1>1, <2>1, <2>2 DEF Alternates, Consecutive
  <2>3. CASE m = Len(q) + 1
    <3>1. q[n].ins = i
      BY <1>1, <2>1, <2>3 DEF Consecutive
    <3>2. IsLast(q, n)
      BY <1>1, <2>1, <2>3, <3>1 DEF Consecutive, IsLast
    <3>3. q[n].op = "sub" <=> i \in S
      BY <2>1, <3>1, <3>2 DEF Follows
    <3>4. QED
      BY <1>1, <2>1, <2>3, <3>3
  <2>4. QED
    BY <1>1, <2>2, <2>3
<1>3. Follows(T, r)
  <2> SUFFICES ASSUME NEW n \in DOMAIN r, IsLast(r, n)
               PROVE  r[n].op = "sub" <=> r[n].ins \in T
    BY DEF Follows
  <2>1. CASE n = Len(q) + 1
    BY <1>1, <2>1
  <2>2. CASE n \in DOMAIN q
    <3>1. q[n].ins # i
      BY <1>1, <2>2 DEF IsLast
    <3>2. IsLast(q, n)
      BY <1>1, <2>2 DEF IsLast
    <3>3. q[n].op = "sub" <=> q[n].ins \in S
      BY <2>2, <3>2 DEF Follows
    <3>4. QED
      BY <1>1, <2>2, <3>1, <3>3
  <2>3. QED
    BY <1>1, <2>1, <2>2
<1>4. QED
  BY <1>2, <1>3 DEF r

\* The answer to the oldest request leaves both facts as they are.
LEMMA OldestAnswered ==
  ASSUME NEW q \in Seq(Request), NEW S, q # <<>>, Alternates(q), Follows(S, q)
  PROVE  Alternates(Tail(q)) /\ Follows(S, Tail(q))
<1> DEFINE r == Tail(q)
<1>1. /\ Len(q) \in Nat \ {0} /\ DOMAIN q = 1..Len(q)
      /\ DOMAIN r = 1..(Len(q) - 1)
      /\ \A n \in DOMAIN r : n + 1 \in DOMAIN q /\ r[n] = q[n + 1]
  BY HeadTailProperties
<1> HIDE DEF r
<1>2. \A k \in DOMAIN q : k > 1 => k - 1 \in DOMAIN r /\ q[k] = r[k - 1]
  BY <1>1
<1>3. Alternates(r)
  <2> SUFFICES ASSUME NEW n \in DOMAIN r, NEW m \in DOMAIN r, Consecutive(r, n, m)
               PROVE  r[n].op # r[m].op
    BY DEF Alternates
  <2>1. Consecutive(q, n + 1, m + 1)
    <3>1. n + 1 < m + 1 /\ q[n + 1].ins = q[m + 1].ins
      BY <1>1 DEF Consecutive
    <3>2. ASSUME NEW k \in DOMAIN q, n + 1 < k, k < m + 1
          PROVE  q[k].ins # q[n + 1].ins
      <4>1. k - 1 \in DOMAIN r /\ n < k - 1 /\ k - 1 < m /\ q[k] = r[k - 1]
        BY <1>1, <1>2, <3>2
      <4>2. QED
        BY <1>1, <4>1 DEF Consecutive
    <3>3. QED
      BY <3>1, <3>2 DEF Consecutive
  <2>2. QED
    BY <1>1, <2>1 DEF Alternates
<1>4. Follows(S, r)
  <2> SUFFICES ASSUME NEW n \in DOMAIN r, IsLast(r, n)
               PROVE  r[n].op = "sub" <=> r[n].ins \in S
    BY DEF Follows
  <2>1. IsLast(q, n + 1)
    BY <1>1, <1>2 DEF IsLast
  <2>2. QED
    BY <1>1, <2>1 DEF Follows
<1>5. QED
  BY <1>3, <1>4 DEF r

\* The requests for an instrument alternate on every session, and the record
\* is what the last of them asked for.  Neither fact is inductive without the
\* other: it is the record that keeps a second request of the same kind away.
THEOREM PoolRequestsMatchRecord ==
  Spec => [](RequestsAlternate /\ RecordFollowsRequests)
<1> DEFINE Inv == RequestsAlternate /\ RecordFollowsRequests
<1>1. Init => Inv
  BY DEF Init, RequestsAlternate, RecordFollowsRequests, Alternates, Follows
<1>2. TypeOK /\ Inv /\ [Next]_connVars => Inv'
  <2> SUFFICES ASSUME TypeOK, Inv, [Next]_connVars, NEW c \in Connections
               PROVE  Alternates(requests'[c]) /\ Follows(subscribed'[c], requests'[c])
    BY DEF RequestsAlternate, RecordFollowsRequests
  <2>1. /\ requests[c] \in Seq(Request)
        /\ Alternates(requests[c])
        /\ Follows(subscribed[c], requests[c])
    BY DEF TypeOK, RequestsAlternate, RecordFollowsRequests
  <2>2. \A S : Alternates(<<>>) /\ Follows(S, <<>>)
    BY DEF Alternates, Follows
  <2>3. CASE Kept(c) \/ Cleared(c)
    BY <2>1, <2>2, <2>3 DEF Kept, Cleared
  <2>4. CASE Answered(c)
    BY <2>1, <2>4, OldestAnswered DEF Answered
  <2>5. ASSUME NEW i \in Instruments, Requested(c, i)
        PROVE  Alternates(requests'[c]) /\ Follows(subscribed'[c], requests'[c])
    <3>1. /\ i \notin subscribed[c] /\ i \in subscribed'[c]
          /\ \A j : j # i => (j \in subscribed[c] <=> j \in subscribed'[c])
          /\ requests'[c] = Append(requests[c], [op |-> "sub", ins |-> i])
      BY <2>5 DEF Requested
    <3>2. QED
      BY <2>1, <3>1, NewRequest
  <2>6. ASSUME NEW i \in Instruments, Revoked(c, i)
        PROVE  Alternates(requests'[c]) /\ Follows(subscribed'[c], requests'[c])
    <3>1. /\ i \in subscribed[c] /\ i \notin subscribed'[c]
          /\ \A j : j # i => (j \in subscribed[c] <=> j \in subscribed'[c])
          /\ requests'[c] = Append(requests[c], [op |-> "unsub", ins |-> i])
      BY <2>6 DEF Revoked
    <3>2. QED
      BY <2>1, <3>1, NewRequest
  <2>7. QED
    BY <2>3, <2>4, <2>5, <2>6, StepOfOneConnection
<1>3. QED
  BY <1>1, <1>2, PoolTypeCorrect, PTL DEF Spec

-----------------------------------------------------------------------------
(* Streams and the requests that stop them *)

\* Every subscription that is still to be answered is recorded, or an
\* unsubscription follows it.
Answerable(S, q) ==
  \A n \in DOMAIN q : q[n].op = "sub" =>
    \/ q[n].ins \in S
    \/ \E m \in DOMAIN q : n < m /\ q[m] = [op |-> "unsub", ins |-> q[n].ins]

AllAnswerable == \A c \in Connections : Answerable(subscribed[c], requests[c])

\* A new request, with the record that goes with it, keeps the others so.
LEMMA NewAnswerable ==
  ASSUME NEW q \in Seq(Request), NEW S, NEW T, NEW op, NEW i, Answerable(S, q),
         op = "sub" => i \in T /\ \A j \in S : j \in T,
         op # "sub" => op = "unsub" /\ \A j \in S : j # i => j \in T
  PROVE  Answerable(T, Append(q, [op |-> op, ins |-> i]))
<1> DEFINE r == Append(q, [op |-> op, ins |-> i])
<1>1. /\ DOMAIN q = 1..Len(q) /\ Len(q) \in Nat
      /\ DOMAIN r = 1..(Len(q) + 1)
      /\ \A n \in DOMAIN q : r[n] = q[n]
      /\ r[Len(q) + 1] = [op |-> op, ins |-> i]
  OBVIOUS
<1> HIDE DEF r
<1>2. SUFFICES ASSUME NEW n \in DOMAIN r, r[n].op = "sub"
               PROVE  \/ r[n].ins \in T
                      \/ \E m \in DOMAIN r : n < m /\ r[m] = [op |-> "unsub", ins |-> r[n].ins]
  BY DEF Answerable, r
<1>3. CASE n = Len(q) + 1
  BY <1>1, <1>2, <1>3
<1>4. CASE n \in DOMAIN q
  <2>1. CASE \E m \in DOMAIN q : n < m /\ q[m] = [op |-> "unsub", ins |-> q[n].ins]
    BY <1>1, <1>4, <2>1
  <2>2. CASE q[n].ins \in S
    <3>1. CASE q[n].ins \in T
      BY <1>1, <1>4, <3>1
    <3>2. CASE q[n].ins \notin T
      <4>1. q[n].ins = i /\ op = "unsub"
        BY <2>2, <3>2
      <4>2. n < Len(q) + 1 /\ Len(q) + 1 \in DOMAIN r
        BY <1>1, <1>4
      <4>3. QED
        BY <1>1, <1>4, <4>1, <4>2
    <3>3. QED
      BY <3>1, <3>2
  <2>3. QED
    BY <1>1, <1>2, <1>4, <2>1, <2>2 DEF Answerable
<1>5. QED
  BY <1>1, <1>3, <1>4

\* So does the answer to the oldest.
LEMMA TailAnswerable ==
  ASSUME NEW q \in Seq(Request), NEW S, q # <<>>, Answerable(S, q)
  PROVE  Answerable(S, Tail(q))
<1> DEFINE r == Tail(q)
<1>1. /\ Len(q) \in Nat \ {0} /\ DOMAIN q = 1..Len(q)
      /\ DOMAIN r = 1..(Len(q) - 1)
      /\ \A n \in DOMAIN r : n + 1 \in DOMAIN q /\ r[n] = q[n + 1]
  BY HeadTailProperties
<1> HIDE DEF r
<1>2. SUFFICES ASSUME NEW n \in DOMAIN r, r[n].op = "sub", r[n].ins \notin S
               PROVE  \E m \in DOMAIN r : n < m /\ r[m] = [op |-> "unsub", ins |-> r[n].ins]
  BY DEF Answerable, r
<1>3. PICK m \in DOMAIN q : n + 1 < m /\ q[m] = [op |-> "unsub", ins |-> r[n].ins]
  BY <1>1, <1>2 DEF Answerable
<1>4. m - 1 \in DOMAIN r /\ n < m - 1 /\ r[m - 1] = q[m]
  BY <1>1, <1>3
<1>5. QED
  BY <1>3, <1>4

THEOREM PoolAnswerable == Spec => []AllAnswerable
<1>1. Init => AllAnswerable
  BY DEF Init, AllAnswerable, Answerable
<1>2. TypeOK /\ AllAnswerable /\ [Next]_connVars => AllAnswerable'
  <2> SUFFICES ASSUME TypeOK, AllAnswerable, [Next]_connVars, NEW c \in Connections
               PROVE  Answerable(subscribed'[c], requests'[c])
    BY DEF AllAnswerable
  <2>1. requests[c] \in Seq(Request) /\ Answerable(subscribed[c], requests[c])
    BY DEF TypeOK, AllAnswerable
  <2>2. \A S : Answerable(S, <<>>)
    BY DEF Answerable
  <2>3. CASE Kept(c) \/ Cleared(c)
    BY <2>1, <2>2, <2>3 DEF Kept, Cleared
  <2>4. CASE Answered(c)
    BY <2>1, <2>4, TailAnswerable DEF Answered
  <2>5. ASSUME NEW i \in Instruments, Requested(c, i) \/ Revoked(c, i)
        PROVE  Answerable(subscribed'[c], requests'[c])
    <3>1. PICK op : /\ requests'[c] = Append(requests[c], [op |-> op, ins |-> i])
                    /\ op = "sub" => i \in subscribed'[c]
                                     /\ \A j \in subscribed[c] : j \in subscribed'[c]
                    /\ op # "sub" => op = "unsub"
                                     /\ \A j \in subscribed[c] : j # i => j \in subscribed'[c]
      BY <2>5 DEF Requested, Revoked
    <3>2. QED
      BY <2>1, <3>1, NewAnswerable
  <2>6. QED
    BY <2>3, <2>4, <2>5, StepOfOneConnection
<1>3. QED
  BY <1>1, <1>2, PoolTypeCorrect, PTL DEF Spec

\* A stream gets out of the program's hold only when the front refuses to stop
\* it, for any pool and any callers: a late success is followed by the
\* unsubscription that overtook it, and a lost or stopped session streams nothing.
THEOREM PoolStreamsStayStoppable == Spec => StreamsStayStoppable
<1> DEFINE Step == \A c \in Connections : \A i \in Instruments :
                     Stoppable(c, i) /\ ~Stoppable(c, i)' => UnsubscribeRejected(c, i)
<1>1. TypeOK /\ AllAnswerable /\ [Next]_connVars => [Step]_connVars
  <2> SUFFICES ASSUME TypeOK, AllAnswerable, [Next]_connVars,
                      NEW c \in Connections, NEW i \in Instruments,
                      Stoppable(c, i), ~Stoppable(c, i)'
               PROVE  UnsubscribeRejected(c, i)
    OBVIOUS
  <2> DEFINE stop == [op |-> "unsub", ins |-> i]
  <2>1. /\ requests[c] \in Seq(Request) /\ Answerable(subscribed[c], requests[c])
        /\ subscribed \in [Connections -> SUBSET Instruments]
        /\ feed \in [Connections -> SUBSET Instruments]
        /\ requests \in [Connections -> Seq(Request)]
    BY DEF TypeOK, AllAnswerable
  <2>2. /\ i \in feed'[c] /\ i \notin subscribed'[c]
        /\ \A n \in DOMAIN requests'[c] : requests'[c][n] # stop
    BY DEF Stoppable
  <2>3. ~UNCHANGED <<subscribed[c], requests[c], feed[c]>>
    BY DEF Stoppable
  <2>4. ASSUME NEW d \in Connections, Restart(d) PROVE FALSE
    BY <2>1, <2>2, <2>3, <2>4 DEF Restart, ChooseForRestart, StopBegin, StopEnd, Start
  <2>5. ASSUME NEW d \in Connections, Session(d) PROVE FALSE
    BY <2>1, <2>2, <2>3, <2>5 DEF Session, OnFrontConnected, OnFrontDisconnected,
                                  LoggedIn, LoginRejected, TooManyErrors
  <2>6. ASSUME NEW d \in Connections, NEW j \in Instruments, Call(d, j) PROVE FALSE
    <3>1. UNCHANGED feed
      BY <2>6 DEF Call, SubscribeInstrument, UnsubscribeInstrument
    <3>2. d = c
      BY <2>1, <2>3, <2>6, <3>1 DEF Call, SubscribeInstrument, UnsubscribeInstrument, Send
    <3>3. PICK op : /\ requests'[c] = Append(requests[c], [op |-> op, ins |-> j])
                    /\ \/ op = "sub" /\ subscribed'[c] = subscribed[c] \cup {j}
                       \/ op = "unsub" /\ subscribed'[c] = subscribed[c] \ {j}
      BY <2>1, <2>3, <2>6, <3>1, <3>2
         DEF Call, SubscribeInstrument, UnsubscribeInstrument, Send
    <3>4. /\ \A n \in DOMAIN requests[c] : n \in DOMAIN requests'[c]
                                             /\ requests'[c][n] = requests[c][n]
          /\ Len(requests[c]) + 1 \in DOMAIN requests'[c]
          /\ requests'[c][Len(requests[c]) + 1] = [op |-> op, ins |-> j]
      BY <2>1, <3>3
    <3>5. i \in subscribed[c]
      BY <2>2, <3>1, <3>4 DEF Stoppable
    <3>6. QED
      BY <2>2, <3>3, <3>4, <3>5
  <2>7. ASSUME NEW d \in Connections, NEW j \in Instruments, Response(d, j)
        PROVE  UnsubscribeRejected(c, i)
    <3>1. d = c
      BY <2>1, <2>3, <2>7 DEF Response, Subscribed, SubscribeRejected, Unsubscribed,
                              UnsubscribeRejected, Answer
    <3>2. /\ requests[c] # <<>> /\ requests'[c] = Tail(requests[c])
          /\ UNCHANGED subscribed
          /\ j = requests[c][1].ins /\ requests[c][1].op \in {"sub", "unsub"}
      BY <2>1, <2>7, <3>1 DEF Response, Subscribed, SubscribeRejected, Unsubscribed,
                              UnsubscribeRejected, Answer
    <3>3. /\ Len(requests[c]) \in Nat \ {0} /\ DOMAIN requests[c] = 1..Len(requests[c])
          /\ DOMAIN requests'[c] = 1..(Len(requests[c]) - 1)
          /\ \A n \in DOMAIN requests'[c] : requests'[c][n] = requests[c][n + 1]
      BY <2>1, <3>2, HeadTailProperties
    <3>4. \A n \in DOMAIN requests[c] : requests[c][n] = stop => n = 1
      <4> SUFFICES ASSUME NEW n \in DOMAIN requests[c], requests[c][n] = stop, n # 1
                   PROVE  FALSE
        OBVIOUS
      <4>1. n - 1 \in DOMAIN requests'[c] /\ requests'[c][n - 1] = stop
        BY <3>3
      <4>2. QED
        BY <2>2, <4>1
    <3>5. CASE i \in feed[c]
      <4>1. requests[c][1] = stop
        BY <2>2, <3>2, <3>4, <3>5 DEF Stoppable
      <4>2. Response(c, i) /\ Head(requests[c]) = stop
        BY <2>1, <2>7, <3>1, <3>2, <3>3, <4>1
      <4>3. ~Unsubscribed(c, i)
        BY <2>1, <2>2 DEF Unsubscribed, Answer
      <4>4. QED
        BY <4>2, <4>3 DEF Response, Subscribed, SubscribeRejected, Answer
    <3>6. CASE i \notin feed[c]
      <4>1. j = i /\ requests[c][1].op = "sub"
        BY <2>1, <2>2, <2>7, <3>1, <3>2, <3>6
           DEF Response, Subscribed, SubscribeRejected, Unsubscribed,
               UnsubscribeRejected, Answer
      <4>2. PICK m \in DOMAIN requests[c] : 1 < m /\ requests[c][m] = stop
        <5>1. /\ 1 \in DOMAIN requests[c] /\ requests[c][1].op = "sub"
              /\ requests[c][1].ins = i /\ i \notin subscribed[c]
          BY <2>2, <3>2, <3>3, <4>1
        <5>2. QED
          BY <2>1, <5>1 DEF Answerable
      <4>3. QED
        BY <3>3, <3>4, <4>2
    <3>7. QED
      BY <3>5, <3>6
  <2>8. QED
    BY <2>3, <2>4, <2>5, <2>6, <2>7 DEF Next, connVars
<1>2. QED
  BY <1>1, PoolTypeCorrect, PoolAnswerable, PTL DEF Spec, StreamsStayStoppable

-----------------------------------------------------------------------------
(* Logged in without an API object *)

\* A connection that counts as logged in has its session open, or has lost its
\* API object altogether: every other end of the session writes the status.
LoggedInIsOpen ==
  \A c \in Connections : status[c] = "LOGGED_IN" => front[c] \in {"open", "none"}

THEOREM PoolLoggedInIsOpen == Spec => []LoggedInIsOpen
<1>1. Init => LoggedInIsOpen
  BY DEF Init, LoggedInIsOpen
<1>2. TypeOK /\ LoggedInIsOpen /\ [Next]_connVars => LoggedInIsOpen'
  <2> SUFFICES ASSUME TypeOK, LoggedInIsOpen, [Next]_connVars PROVE LoggedInIsOpen'
    OBVIOUS
  <2> USE DEF TypeOK, LoggedInIsOpen
  <2>1. CASE UNCHANGED connVars
    BY <2>1 DEF connVars
  <2>2. ASSUME NEW c \in Connections, Restart(c) PROVE LoggedInIsOpen'
    BY <2>2 DEF Restart, ChooseForRestart, StopBegin, StopEnd, Start
  <2>3. ASSUME NEW c \in Connections, Session(c) PROVE LoggedInIsOpen'
    BY <2>3 DEF Session, OnFrontConnected, OnFrontDisconnected, LoggedIn,
                LoginRejected, TooManyErrors
  <2>4. ASSUME NEW c \in Connections, NEW i \in Instruments,
               Call(c, i) \/ Response(c, i)
        PROVE  LoggedInIsOpen'
    BY <2>4 DEF Call, SubscribeInstrument, UnsubscribeInstrument, Response,
                Subscribed, SubscribeRejected, Unsubscribed, UnsubscribeRejected, Answer
  <2>5. QED
    BY <2>1, <2>2, <2>3, <2>4 DEF Next
<1>3. QED
  BY <1>1, <1>2, PoolTypeCorrect, PTL DEF Spec

\* No answer to a login is delivered while stop() of its connection runs.
StopsNotOvertaken ==
  \A c \in Connections : restarting[c] = "stopping" => ~LoggedIn(c)

\* The null API object has one cause: OnRspUserLogin that overtakes a stop()
\* of the same connection, and writes LOGGED_IN over its DISCONNECTED.  Without
\* that, whatever is lost, refused or restarted, and whichever calls fail,
\* subscribe_instrument finds the API object there.
THEOREM PoolHasApi ==
  Spec /\ [][StopsNotOvertaken]_connVars => []LoggedInHasApi
<1> DEFINE StoppingIsNotLoggedIn ==
             \A c \in Connections : restarting[c] = "stopping" => status[c] # "LOGGED_IN"
           Inv == LoggedInHasApi /\ StoppingIsNotLoggedIn
<1>1. Init => Inv
  BY DEF Init, LoggedInHasApi
<1>2. TypeOK /\ Inv /\ [Next]_connVars /\ [StopsNotOvertaken]_connVars => Inv'
  <2> SUFFICES ASSUME TypeOK, Inv, [Next]_connVars, [StopsNotOvertaken]_connVars
               PROVE  Inv'
    OBVIOUS
  <2> USE DEF TypeOK, LoggedInHasApi
  <2>1. CASE UNCHANGED connVars
    BY <2>1 DEF connVars
  <2>2. ASSUME NEW c \in Connections, Restart(c) PROVE Inv'
    BY <2>2 DEF Restart, ChooseForRestart, StopBegin, StopEnd, Start
  <2>3. ASSUME NEW c \in Connections, LoggedIn(c) PROVE Inv'
    <3>1. restarting[c] # "stopping"
      BY <2>3 DEF StopsNotOvertaken, LoggedIn, connVars
    <3>2. QED
      BY <2>3, <3>1 DEF LoggedIn
  <2>4. ASSUME NEW c \in Connections, Session(c), ~LoggedIn(c) PROVE Inv'
    BY <2>4 DEF Session, OnFrontConnected, OnFrontDisconnected, LoginRejected,
                TooManyErrors
  <2>5. ASSUME NEW c \in Connections, NEW i \in Instruments,
               Call(c, i) \/ Response(c, i)
        PROVE  Inv'
    BY <2>5 DEF Call, SubscribeInstrument, UnsubscribeInstrument, Response,
                Subscribed, SubscribeRejected, Unsubscribed, UnsubscribeRejected, Answer
  <2>6. QED
    BY <2>1, <2>2, <2>3, <2>4, <2>5 DEF Next
<1>3. QED
  BY <1>1, <1>2, PoolTypeCorrect, PTL DEF Spec

-----------------------------------------------------------------------------
(* What is recorded is streamed *)

\* No connection loses its session with something recorded, and no
\* subscription that is recorded is refused, unless it streams already.
RecordsAreSpared ==
  \A c \in Connections :
    /\ OnFrontDisconnected(c) => subscribed[c] = {}
    /\ \A i \in Instruments :
         SubscribeRejected(c, i) => i \notin subscribed[c] \/ i \in feed[c]

\* i is recorded on c for nothing.
RecordedInVain(c, i) == i \in subscribed[c] /\ i \notin feed[c] /\ Settled(c, i)

NothingInVain == \A c \in Connections : \A i \in Instruments : ~RecordedInVain(c, i)

\* A recorded instrument streams or has a request under way, on connections of
\* every status.
LEMMA PoolNothingInVain ==
  Spec /\ [][RecordsAreSpared]_connVars => []NothingInVain
<1> DEFINE Inv == NothingInVain
<1>1. Init => Inv
  BY DEF Init, NothingInVain, RecordedInVain
<1>2. TypeOK /\ Inv /\ RecordFollowsRequests /\ [Next]_connVars
        /\ [RecordsAreSpared]_connVars => Inv'
  <2> SUFFICES ASSUME TypeOK, Inv, RecordFollowsRequests, [Next]_connVars,
                      [RecordsAreSpared]_connVars,
                      NEW c \in Connections, NEW i \in Instruments,
                      i \in subscribed'[c], i \notin feed'[c],
                      \A n \in DOMAIN requests'[c] : requests'[c][n].ins # i
               PROVE  FALSE
    BY DEF NothingInVain, RecordedInVain, Settled
  <2>1. /\ requests \in [Connections -> Seq(Request)]
        /\ subscribed \in [Connections -> SUBSET Instruments]
        /\ feed \in [Connections -> SUBSET Instruments]
        /\ Follows(subscribed[c], requests[c])
    BY DEF TypeOK, RecordFollowsRequests
  <2>2. i \in subscribed[c] /\ i \notin feed[c] =>
          \E n \in DOMAIN requests[c] : requests[c][n].ins = i
    BY DEF NothingInVain, RecordedInVain, Settled
  <2>3. ~UNCHANGED <<subscribed[c], requests[c], feed[c]>>
    BY <2>2
  <2>4. RecordsAreSpared
    BY <2>3 DEF connVars
  <2>5. ASSUME NEW d \in Connections, Restart(d) PROVE FALSE
    BY <2>1, <2>3, <2>5 DEF Restart, ChooseForRestart, StopBegin, StopEnd, Start
  <2>6. ASSUME NEW d \in Connections, Session(d) PROVE FALSE
    <3>1. OnFrontDisconnected(c)
      BY <2>1, <2>3, <2>6 DEF Session, OnFrontConnected, OnFrontDisconnected,
                              LoggedIn, LoginRejected, TooManyErrors
    <3>2. QED
      BY <2>4, <3>1 DEF RecordsAreSpared, OnFrontDisconnected
  <2>7. ASSUME NEW d \in Connections, NEW j \in Instruments, Call(d, j) PROVE FALSE
    <3>1. UNCHANGED feed
      BY <2>7 DEF Call, SubscribeInstrument, UnsubscribeInstrument
    <3>2. PICK op \in {"sub", "unsub"} :
            /\ requests'[c] = Append(requests[c], [op |-> op, ins |-> j])
            /\ \/ op = "sub" /\ subscribed'[c] = subscribed[c] \cup {j}
               \/ op = "unsub" /\ subscribed'[c] = subscribed[c] \ {j}
      BY <2>1, <2>3, <2>7, <3>1
         DEF Call, SubscribeInstrument, UnsubscribeInstrument, Send
    <3>3. /\ \A n \in DOMAIN requests[c] : n \in DOMAIN requests'[c]
                                             /\ requests'[c][n] = requests[c][n]
          /\ Len(requests[c]) + 1 \in DOMAIN requests'[c]
          /\ requests'[c][Len(requests[c]) + 1] = [op |-> op, ins |-> j]
      BY <2>1, <3>2
    <3>4. j # i
      BY <3>3
    <3>5. PICK n \in DOMAIN requests[c] : requests[c][n].ins = i
      BY <2>2, <3>1, <3>2, <3>4
    <3>6. QED
      BY <3>3, <3>5
  <2>8. ASSUME NEW d \in Connections, NEW j \in Instruments, Response(d, j) PROVE FALSE
    <3>1. d = c
      BY <2>1, <2>3, <2>8 DEF Response, Subscribed, SubscribeRejected, Unsubscribed,
                              UnsubscribeRejected, Answer
    <3>2. /\ requests[c] # <<>> /\ requests'[c] = Tail(requests[c])
          /\ UNCHANGED subscribed
          /\ Head(requests[c]) = requests[c][1]
          /\ 1 \in DOMAIN requests[c]
      BY <2>1, <2>8, <3>1 DEF Response, Subscribed, SubscribeRejected, Unsubscribed,
                              UnsubscribeRejected, Answer
    <3>3. \A n \in DOMAIN requests[c] : requests[c][n].ins = i => n = 1
      <4>1. /\ Len(requests[c]) \in Nat \ {0} /\ DOMAIN requests[c] = 1..Len(requests[c])
            /\ DOMAIN requests'[c] = 1..(Len(requests[c]) - 1)
            /\ \A n \in DOMAIN requests'[c] : requests'[c][n] = requests[c][n + 1]
        BY <2>1, <3>2, HeadTailProperties
      <4> SUFFICES ASSUME NEW n \in DOMAIN requests[c], requests[c][n].ins = i, n # 1
                   PROVE  FALSE
        OBVIOUS
      <4>2. n - 1 \in DOMAIN requests'[c] /\ requests'[c][n - 1].ins = i
        BY <4>1
      <4>3. QED
        BY <4>2
    <3>4. requests[c][1].ins = i
      BY <2>1, <2>2, <2>8, <3>1, <3>2, <3>3
         DEF Response, Subscribed, SubscribeRejected, Unsubscribed,
             UnsubscribeRejected, Answer
    <3>5. IsLast(requests[c], 1)
      BY <3>3, <3>4 DEF IsLast
    <3>6. requests[c][1].op = "sub"
      BY <2>1, <3>2, <3>4, <3>5 DEF Follows
    <3>7. SubscribeRejected(c, i)
      BY <2>1, <2>8, <3>1, <3>2, <3>4, <3>6
         DEF Response, Subscribed, SubscribeRejected, Unsubscribed,
             UnsubscribeRejected, Answer
    <3>8. QED
      BY <2>1, <2>4, <3>2, <3>7 DEF RecordsAreSpared, SubscribeRejected, Answer
  <2>9. QED
    BY <2>3, <2>5, <2>6, <2>7, <2>8 DEF Next, connVars
<1>3. QED
  BY <1>1, <1>2, PoolTypeCorrect, PoolRequestsMatchRecord, PTL DEF Spec

\* "already subscribed" is said in vain for two reasons only: the session was
\* lost with its record kept (OnFrontDisconnected), or the front refused the
\* subscription and the record was not taken back (OnRspSubMarketData).  Login
\* failures, error storms, restarts and refused unsubscriptions do no harm.
THEOREM PoolRecordedIsRequested ==
  Spec /\ [][RecordsAreSpared]_connVars => []RecordedIsRequested
<1>1. NothingInVain /\ TypeOK => RecordedIsRequested
  BY DEF NothingInVain, TypeOK, RecordedIsRequested, RecordedInVain, Settled
<1>2. QED
  BY <1>1, PoolNothingInVain, PoolTypeCorrect, PTL

\* No unsubscription of a stream is refused, but one that a new subscription
\* has overtaken.
StopsAreGranted ==
  \A c \in Connections, i \in Instruments :
    UnsubscribeRejected(c, i) => i \in subscribed[c] \/ i \notin feed[c]

\* With nothing lost or refused that the record counts on, the streams of every
\* session converge to the record: late answers and quick changes of mind leave
\* neither a stream that nobody wants nor a subscriber without one.
THEOREM PoolStreamsFollowRecord ==
  Spec /\ [][RecordsAreSpared /\ StopsAreGranted]_connVars => []StreamsFollowRecord
<1> DEFINE Inv == \A c \in Connections : \A i \in Instruments : Stoppable(c, i)
           Step == \A c \in Connections : \A i \in Instruments :
                     Stoppable(c, i) /\ ~Stoppable(c, i)' => UnsubscribeRejected(c, i)
<1>1. Init => Inv
  BY DEF Init, Stoppable
<1>2. TypeOK /\ Inv /\ [Step]_connVars
        /\ [RecordsAreSpared /\ StopsAreGranted]_connVars => Inv'
  <2> SUFFICES ASSUME TypeOK, Inv, [Step]_connVars,
                      [RecordsAreSpared /\ StopsAreGranted]_connVars,
                      NEW c \in Connections, NEW i \in Instruments
               PROVE  Stoppable(c, i)'
    OBVIOUS
  <2>1. CASE UNCHANGED connVars
    BY <2>1 DEF connVars, Stoppable
  <2>2. CASE UnsubscribeRejected(c, i)
    BY <2>1, <2>2 DEF StopsAreGranted, UnsubscribeRejected, Answer, Stoppable, TypeOK
  <2>3. QED
    BY <2>1, <2>2
<1>3. Spec => [][Step]_connVars
  BY PoolStreamsStayStoppable DEF StreamsStayStoppable
<1>4. [RecordsAreSpared /\ StopsAreGranted]_connVars => [RecordsAreSpared]_connVars
  OBVIOUS
<1>5. Inv /\ NothingInVain => StreamsFollowRecord
  <2> SUFFICES ASSUME Inv, NothingInVain, NEW c \in Connections, NEW i \in Instruments,
                      Settled(c, i)
               PROVE  i \in feed[c] <=> i \in subscribed[c]
    BY DEF StreamsFollowRecord
  <2>1. i \in feed[c] => i \in subscribed[c]
    <3>1. \A n \in DOMAIN requests[c] : requests[c][n] # [op |-> "unsub", ins |-> i]
      BY DEF Settled
    <3>2. QED
      BY <3>1 DEF Stoppable
  <2>2. i \in subscribed[c] => i \in feed[c]
    BY DEF NothingInVain, RecordedInVain
  <2>3. QED
    BY <2>1, <2>2
<1> HIDE DEF Inv, Step
<1>6. QED
  BY <1>1, <1>2, <1>3, <1>4, <1>5, PoolNothingInVain, PoolTypeCorrect, PTL DEF Spec

-----------------------------------------------------------------------------
(* Connections that carry something *)

\* Whatever is recorded is recorded on an open session that is not being stopped.
CarriersAreOpen ==
  \A c \in Connections : subscribed[c] # {} =>
    /\ status[c] = "LOGGED_IN"
    /\ front[c] = "open"
    /\ restarting[c] # "stopping"

\* A connection that is spared while it carries something stays logged in for
\* as long as it does: no health check, restart or callback takes it away.
THEOREM PoolCarriersStayOpen ==
  Spec /\ [][CarriersAreSpared]_connVars => []CarriersAreOpen
<1>1. Init => CarriersAreOpen
  BY DEF Init, CarriersAreOpen
<1>2. TypeOK /\ LoggedInIsOpen /\ CarriersAreOpen
        /\ [Next]_connVars /\ [CarriersAreSpared]_connVars => CarriersAreOpen'
  <2> SUFFICES ASSUME TypeOK, LoggedInIsOpen, CarriersAreOpen, [Next]_connVars,
                      [CarriersAreSpared]_connVars
               PROVE  CarriersAreOpen'
    OBVIOUS
  <2> USE DEF TypeOK, CarriersAreOpen
  <2>1. CASE UNCHANGED connVars
    BY <2>1 DEF connVars
  <2>2. CASE CarriersAreSpared
    <3>1. ASSUME NEW c \in Connections, Restart(c) PROVE CarriersAreOpen'
      <4>1. CASE ChooseForRestart(c)
        BY <4>1 DEF ChooseForRestart
      <4>2. CASE StopBegin(c)
        <5>1. subscribed[c] = {}
          BY <2>2, <4>2 DEF CarriersAreSpared
        <5>2. QED
          BY <4>2, <5>1 DEF StopBegin
      <4>3. CASE StopEnd(c)
        BY <4>3 DEF StopEnd
      <4>4. CASE Start(c)
        BY <4>4 DEF Start
      <4>5. QED
        BY <3>1, <4>1, <4>2, <4>3, <4>4 DEF Restart
    <3>2. ASSUME NEW c \in Connections, Session(c) PROVE CarriersAreOpen'
      BY <2>2, <3>2 DEF Session, OnFrontConnected, OnFrontDisconnected, LoggedIn,
                        LoginRejected, TooManyErrors, CarriersAreSpared
    <3>3. ASSUME NEW c \in Connections, NEW i \in Instruments, Call(c, i)
          PROVE  CarriersAreOpen'
      BY <3>3 DEF Call, SubscribeInstrument, UnsubscribeInstrument, LoggedInIsOpen
    <3>4. ASSUME NEW c \in Connections, NEW i \in Instruments, Response(c, i)
          PROVE  CarriersAreOpen'
      BY <3>4 DEF Response, Subscribed, SubscribeRejected, Unsubscribed,
                  UnsubscribeRejected, Answer
    <3>5. QED
      BY <2>1, <3>1, <3>2, <3>3, <3>4 DEF Next
  <2>3. QED
    BY <2>1, <2>2
<1>3. QED
  BY <1>1, <1>2, PoolTypeCorrect, PoolLoggedInIsOpen, PTL DEF Spec

=============================================================================
