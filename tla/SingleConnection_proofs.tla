------------------------ MODULE SingleConnection_proofs ------------------------
(***************************************************************************)
(* Proofs about the server with one connection, for any number of sessions *)
(* and instruments, of requests under way, and of times the front is lost. *)
(***************************************************************************)
EXTENDS SingleConnection, SequenceTheorems, FiniteSetTheorems, TLAPS

-----------------------------------------------------------------------------
(* What is under way *)

\* A request more ...
LEMMA RequestAdded ==
  ASSUME requests \in Seq(Request), NEW r \in Request, requests' = Append(requests, r)
  PROVE  /\ requests' \in Seq(Request)
         /\ Len(requests) \in Nat /\ Len(requests') = Len(requests) + 1
         /\ \A n \in 1 .. Len(requests) : requests'[n] = requests[n]
         /\ requests'[Len(requests) + 1] = r
OBVIOUS

\* ... and a request less.
LEMMA RequestHandled ==
  ASSUME requests \in Seq(Request), requests # <<>>, requests' = Tail(requests)
  PROVE  /\ requests' \in Seq(Request)
         /\ Len(requests) \in Nat \ {0} /\ Len(requests') = Len(requests) - 1
         /\ \A n \in 1 .. Len(requests') : requests'[n] = requests[n + 1]
         /\ Head(requests) = requests[1]
<1>1. Len(requests) \in Nat \ {0}
  BY EmptySeq
<1>2. QED
  BY <1>1, HeadTailProperties

LEMMA KindsDiffer ==
  \A i, j \in Instruments :
    /\ Sub(i) # Login /\ Unsub(i) # Login /\ Sub(i) # Unsub(j)
    /\ (Sub(i) = Sub(j) => i = j) /\ (Unsub(i) = Unsub(j) => i = j)
BY DEF Sub, Unsub, Login

LEMMA RequestKinds ==
  /\ Login \in Request
  /\ \A i \in Instruments : Sub(i) \in Request /\ Unsub(i) \in Request
BY DEF Request

-----------------------------------------------------------------------------

\* Every variable keeps its type.
THEOREM SingleTypeCorrect == Spec => []TypeOK
<1>1. Init => TypeOK
  <2>1. Init => instrument_subscribers \in [Instruments -> SUBSET Sessions]
    BY DEF Init
  <2>2. <<>> \in Seq(Request)
    BY EmptySeq
  <2>3. Init => requests \in Seq(Request)
    BY <2>2 DEF Init
  <2>4. Init => connects \in Nat
    BY DEF Init
  <2>5. Init => /\ ctp_logged_in \in BOOLEAN /\ logging_in \in {"no", "request", "flag"}
                /\ front \in Fronts
                /\ streams \in SUBSET Instruments /\ asked \in SUBSET Instruments
                /\ faulted \in SUBSET Instruments
    BY DEF Init, Fronts
  <2>6. QED
    BY <2>1, <2>3, <2>4, <2>5 DEF TypeOK
<1>2. TypeOK /\ [Next]_vars => TypeOK'
  <2> SUFFICES ASSUME TypeOK, [Next]_vars PROVE TypeOK'
    OBVIOUS
  <2> USE DEF Fronts
  <2>1. CASE UNCHANGED vars
    BY <2>1 DEF TypeOK, vars, gateway, external
  <2>2. CASE OnFrontConnected
    BY <2>2 DEF OnFrontConnected, TypeOK
  <2>3. CASE CtpLogin
    <3>1. requests' \in Seq(Request)
      BY <2>3, RequestAdded, RequestKinds DEF CtpLogin, TypeOK
    <3>2. QED
      BY <2>3, <3>1 DEF CtpLogin, TypeOK
  <2>4. CASE CtpLoginSent
    BY <2>4 DEF CtpLoginSent, TypeOK, external
  <2>5. CASE OnFrontDisconnected
    BY <2>5 DEF OnFrontDisconnected, TypeOK, gateway
  <2>6. CASE LoginHandled
    <3>1. requests' \in Seq(Request)
      BY <2>6, RequestHandled DEF LoginHandled, Handle, TypeOK
    <3>2. QED
      BY <2>6, <3>1 DEF LoginHandled, Handle, TypeOK, gateway
  <2>7. ASSUME NEW i \in Instruments, FrontStep(i) PROVE TypeOK'
    <3>1. requests' \in Seq(Request)
      BY <2>7, RequestHandled DEF FrontStep, Subscribed, Unsubscribed, Refused, Handle, TypeOK
    <3>2. QED
      BY <2>7, <3>1 DEF FrontStep, Subscribed, Unsubscribed, Refused, Handle, TypeOK, gateway
  <2>8. ASSUME NEW i \in Instruments, NEW s \in Sessions, SessionStep(s, i) PROVE TypeOK'
    <3>1. /\ requests' \in Seq(Request)
          /\ asked' \in SUBSET Instruments /\ faulted' \in SUBSET Instruments
      <4>1. /\ requests' = requests \/ \E r \in Request : requests' = Append(requests, r)
            /\ asked' \in {asked, asked \cup {i}, asked \ {i}}
            /\ faulted' \in {faulted, faulted \cup {i}}
        BY <2>8, RequestKinds DEF SessionStep, SubscribeInstrument, UnsubscribeInstrument, Call, NoCall
      <4>2. QED
        BY <4>1, RequestAdded DEF TypeOK
    <3>2. QED
      BY <2>8, <3>1 DEF SessionStep, SubscribeInstrument, UnsubscribeInstrument, TypeOK
  <2>9. QED
    BY <2>1, <2>2, <2>3, <2>4, <2>5, <2>6, <2>7, <2>8 DEF Next, ApiStep
<1>3. QED
  BY <1>1, <1>2, PTL DEF Spec

-----------------------------------------------------------------------------
(* The login goes first *)

\* Until the front has answered the first login, whatever is under way has the
\* login before it, and the flag tells that something is.
FirstInv ==
  /\ front = "never" => /\ requests = <<>>
                        /\ ~ctp_logged_in
                        /\ logging_in = "no"
  /\ front # "never" => connects >= 1
  /\ front = "down" => requests = <<>>
  /\ connects <= 1 /\ front = "connected" =>
       /\ requests # <<>> => requests[1] = Login
       /\ requests = <<>> => ~ctp_logged_in /\ logging_in # "flag"

LEMMA NonEmpty ==
  ASSUME NEW q \in Seq(Request)
  PROVE  q # <<>> <=> Len(q) >= 1
<1>1. q # <<>> => Len(q) \in Nat \ {0}
  BY EmptySeq
<1>2. q = <<>> => Len(q) = 0
  BY EmptySeq
<1>3. QED
  BY <1>1, <1>2

LEMMA FirstAdded ==
  ASSUME TypeOK, FirstInv, Connected, UNCHANGED <<front, connects>>,
         NEW r \in Request, requests' = Append(requests, r),
         front = "connected" /\ connects <= 1 /\ requests = <<>> => r = Login
  PROVE  FirstInv'
<1>1. /\ requests \in Seq(Request) /\ requests' \in Seq(Request) /\ requests' # <<>>
      /\ requests # <<>> => requests'[1] = requests[1]
      /\ requests = <<>> => requests'[1] = r
  <2>1. requests \in Seq(Request)
    BY DEF TypeOK
  <2>2. requests' \in Seq(Request) /\ Len(requests) \in Nat /\ Len(requests') = Len(requests) + 1
    BY <2>1, RequestAdded
  <2>3. requests' # <<>>
    BY <2>2, NonEmpty
  <2>4. ASSUME requests # <<>> PROVE requests'[1] = requests[1]
    <3>1. 1 \in 1 .. Len(requests)
      BY <2>1, <2>2, <2>4, NonEmpty
    <3>2. QED
      BY <2>1, <3>1, RequestAdded
  <2>5. ASSUME requests = <<>> PROVE requests'[1] = r
    <3>1. Len(requests) = 0
      BY <2>5
    <3>2. requests'[0 + 1] = r
      BY <2>1, <3>1, RequestAdded
    <3>3. QED
      BY <3>2
  <2>6. QED
    BY <2>1, <2>2, <2>3, <2>4, <2>5
<1>2. QED
  BY <1>1 DEF FirstInv, Connected

LEMMA FirstKept ==
  ASSUME TypeOK, FirstInv, [Next]_vars
  PROVE  FirstInv'
<1>1. CASE UNCHANGED vars
  BY <1>1 DEF vars, gateway, external, FirstInv
<1>2. CASE OnFrontConnected
  BY <1>2 DEF OnFrontConnected, FirstInv, TypeOK
<1>3. CASE CtpLogin
  <2>1. CASE Connected /\ requests' = Append(requests, Login)
    BY <1>3, <2>1, FirstAdded, RequestKinds DEF CtpLogin
  <2>2. CASE logging_in' = "no" /\ UNCHANGED requests
    BY <1>3, <2>2 DEF CtpLogin, FirstInv
  <2>3. QED
    BY <1>3, <2>1, <2>2 DEF CtpLogin
<1>4. CASE CtpLoginSent
  BY <1>4 DEF CtpLoginSent, external, FirstInv
<1>5. CASE OnFrontDisconnected
  BY <1>5 DEF OnFrontDisconnected, Connected, gateway, FirstInv
<1>6. CASE LoginHandled
  <2>1. requests # <<>> /\ front' \in {"logged_in", "refused"} /\ connects' = connects
    BY <1>6 DEF LoginHandled, Handle
  <2>2. QED
    BY <2>1 DEF FirstInv
<1>7. ASSUME NEW i \in Instruments, FrontStep(i) PROVE FirstInv'
  <2>1. /\ requests # <<>> /\ requests[1] \in {Sub(i), Unsub(i)}
        /\ UNCHANGED <<front, connects>>
    BY <1>7, RequestHandled DEF FrontStep, Subscribed, Unsubscribed, Refused, Handle, TypeOK
  <2>2. ~(connects <= 1 /\ front = "connected")
    BY <2>1, KindsDiffer DEF FirstInv
  <2>3. front # "down" /\ front # "never"
    BY <2>1 DEF FirstInv
  <2>4. QED
    BY <2>1, <2>2, <2>3 DEF FirstInv
<1>8. ASSUME NEW i \in Instruments, NEW s \in Sessions, SessionStep(s, i) PROVE FirstInv'
  <2>1. UNCHANGED <<front, connects, ctp_logged_in, logging_in>>
    BY <1>8 DEF SessionStep, SubscribeInstrument, UnsubscribeInstrument
  <2>2. CASE requests' = requests
    BY <2>1, <2>2 DEF FirstInv
  <2>3. CASE ctp_logged_in /\ Connected /\ \E r \in Request : requests' = Append(requests, r)
    BY <2>1, <2>3, FirstAdded DEF FirstInv
  <2>4. QED
    BY <1>8, <2>2, <2>3, RequestKinds
       DEF SessionStep, SubscribeInstrument, UnsubscribeInstrument, Call, NoCall
<1>9. QED
  BY <1>1, <1>2, <1>3, <1>4, <1>5, <1>6, <1>7, <1>8 DEF Next, ApiStep

\* No request of the first session comes before the login:
\* SingleConnection!LoginGoesFirst.
THEOREM SingleLoginGoesFirst == Spec => []LoginGoesFirst
<1>1. Init => FirstInv
  BY DEF Init, FirstInv
<1>2. TypeOK /\ FirstInv /\ [Next]_vars => FirstInv'
  BY FirstKept
<1>3. TypeOK /\ FirstInv => LoginGoesFirst
  <2> SUFFICES ASSUME TypeOK, FirstInv, connects <= 1,
                      NEW n \in DOMAIN requests, requests[n] # Login,
                      front \notin {"logged_in", "refused"}
               PROVE  \E m \in 1 .. n - 1 : requests[m] = Login
    BY DEF LoginGoesFirst
  <2>1. requests \in Seq(Request) /\ n \in 1 .. Len(requests) /\ Len(requests) \in Nat
    BY DEF TypeOK
  <2>2. requests # <<>>
    BY <2>1, NonEmpty
  <2>3. requests[1] = Login
    BY <2>2 DEF FirstInv, TypeOK, Fronts
  <2>4. n # 1
    BY <2>3
  <2>5. 1 \in 1 .. n - 1
    BY <2>1, <2>4
  <2>6. QED
    BY <2>3, <2>5
<1>4. QED
  BY <1>1, <1>2, <1>3, SingleTypeCorrect, PTL DEF Spec

-----------------------------------------------------------------------------
(* Streams follow wishes *)

Of(r, i) == r \in {Sub(i), Unsub(i)}

\* The last thing under way for an instrument nothing went wrong for is what
\* its subscribers want; if nothing is under way, the stream is.
Wish(i) ==
  /\ ~Pending(i) => (i \in streams <=> Wanted(i))
  /\ \A n \in 1 .. Len(requests) :
       Of(requests[n], i) /\ (\A m \in n + 1 .. Len(requests) : ~Of(requests[m], i))
         => (requests[n] = Sub(i) <=> Wanted(i))

WishInv == \A i \in Instruments \ faulted : Wish(i)

LEMMA PendingIs ==
  ASSUME requests \in Seq(Request)
  PROVE  \A i \in Instruments : Pending(i) <=> \E n \in 1 .. Len(requests) : Of(requests[n], i)
<1>1. DOMAIN requests = 1 .. Len(requests)
  OBVIOUS
<1>2. QED
  BY <1>1 DEF Pending, Requested, Of

LEMMA PendingIsNext ==
  ASSUME requests' \in Seq(Request)
  PROVE  \A i \in Instruments : Pending(i)' <=> \E n \in 1 .. Len(requests') : Of(requests'[n], i)
<1>1. DOMAIN requests' = 1 .. Len(requests')
  OBVIOUS
<1>2. QED
  BY <1>1 DEF Pending, Requested, Of

LEMMA WishAdded ==
  ASSUME TypeOK, NEW i \in Instruments, NEW r \in Request, requests' = Append(requests, r),
         UNCHANGED streams,
         Of(r, i) => (r = Sub(i) <=> Wanted(i)'),
         ~Of(r, i) => Wish(i) /\ (Wanted(i)' <=> Wanted(i))
  PROVE  Wish(i)'
<1> DEFINE len == Len(requests)
<1>1. requests \in Seq(Request)
  BY DEF TypeOK
<1>2. /\ requests' \in Seq(Request) /\ len \in Nat /\ Len(requests') = len + 1
      /\ \A n \in 1 .. len : requests'[n] = requests[n]
      /\ requests'[len + 1] = r
  BY <1>1, RequestAdded
<1> HIDE DEF len
<1>3. CASE Of(r, i)
  <2>1. Pending(i)'
    BY <1>2, <1>3, PendingIsNext
  <2>2. ASSUME NEW n \in 1 .. len + 1,
               \A m \in n + 1 .. len + 1 : ~Of(requests'[m], i)
        PROVE  n = len + 1
    <3>1. SUFFICES ASSUME n # len + 1 PROVE FALSE
      OBVIOUS
    <3>2. len + 1 \in n + 1 .. len + 1
      BY <1>2, <3>1
    <3>3. QED
      BY <1>2, <1>3, <2>2, <3>2
  <2>3. QED
    BY <1>2, <1>3, <2>1, <2>2 DEF Wish
<1>4. CASE ~Of(r, i)
  <2>1. Pending(i)' <=> Pending(i)
    <3>1. (\E n \in 1 .. len + 1 : Of(requests'[n], i)) <=> \E n \in 1 .. len : Of(requests[n], i)
      BY <1>2, <1>4
    <3>2. QED
      BY <1>1, <1>2, <3>1, PendingIs, PendingIsNext DEF len
  <2>2. ASSUME NEW n \in 1 .. len + 1, Of(requests'[n], i),
               \A m \in n + 1 .. len + 1 : ~Of(requests'[m], i)
        PROVE  requests'[n] = Sub(i) <=> Wanted(i)'
    <3>1. n \in 1 .. len /\ requests'[n] = requests[n]
      BY <1>2, <1>4, <2>2
    <3>2. \A m \in n + 1 .. len : ~Of(requests[m], i)
      <4>1. \A m \in n + 1 .. len : m \in n + 1 .. len + 1 /\ m \in 1 .. len
        BY <1>2, <3>1
      <4>2. QED
        BY <1>2, <2>2, <4>1
    <3>3. QED
      BY <1>4, <2>2, <3>1, <3>2 DEF Wish, len
  <2>3. QED
    BY <1>2, <1>4, <2>1, <2>2 DEF Wish
<1>5. QED
  BY <1>3, <1>4

LEMMA WishHandled ==
  ASSUME TypeOK, NEW i \in Instruments, Wish(i), requests # <<>>, requests' = Tail(requests),
         Wanted(i)' <=> Wanted(i),
         Of(Head(requests), i) => (i \in streams' <=> Head(requests) = Sub(i)),
         ~Of(Head(requests), i) => (i \in streams' <=> i \in streams)
  PROVE  Wish(i)'
<1> DEFINE len == Len(requests')
<1>1. requests \in Seq(Request)
  BY DEF TypeOK
<1>2. /\ requests' \in Seq(Request) /\ len \in Nat /\ Len(requests) = len + 1
      /\ \A n \in 1 .. len : requests'[n] = requests[n + 1]
      /\ Head(requests) = requests[1]
  <2>1. len = Len(requests) - 1 /\ Len(requests) \in Nat \ {0}
    BY <1>1, RequestHandled
  <2>2. QED
    BY <1>1, <2>1, RequestHandled
<1> HIDE DEF len
<1>3. \A m \in 2 .. len + 1 : m - 1 \in 1 .. len /\ requests[m] = requests'[m - 1]
  <2>1. \A m \in 2 .. len + 1 : m - 1 \in 1 .. len /\ (m - 1) + 1 = m
    BY <1>2
  <2>2. QED
    BY <1>2, <2>1
<1>4. ASSUME NEW n \in 1 .. len, Of(requests'[n], i),
             \A m \in n + 1 .. len : ~Of(requests'[m], i)
      PROVE  requests'[n] = Sub(i) <=> Wanted(i)'
  <2>1. n + 1 \in 1 .. len + 1 /\ requests[n + 1] = requests'[n]
    BY <1>2
  <2>2. \A m \in (n + 1) + 1 .. len + 1 : ~Of(requests[m], i)
    <3>1. \A m \in (n + 1) + 1 .. len + 1 : m \in 2 .. len + 1 /\ m - 1 \in n + 1 .. len
      BY <1>2
    <3>2. QED
      BY <1>3, <1>4, <3>1
  <2>3. QED
    BY <1>2, <1>4, <2>1, <2>2 DEF Wish
<1>5. ASSUME ~Pending(i)' PROVE i \in streams' <=> Wanted(i)'
  <2>1. \A n \in 1 .. len : ~Of(requests'[n], i)
    BY <1>2, <1>5, PendingIsNext DEF len
  <2>2. \A m \in 2 .. len + 1 : ~Of(requests[m], i)
    BY <1>3, <2>1
  <2>3. CASE Of(requests[1], i)
    <3>1. 1 \in 1 .. Len(requests) /\ \A m \in 1 + 1 .. Len(requests) : ~Of(requests[m], i)
      BY <1>2, <2>2
    <3>2. requests[1] = Sub(i) <=> Wanted(i)
      BY <2>3, <3>1 DEF Wish
    <3>3. QED
      BY <1>2, <2>3, <3>2
  <2>4. CASE ~Of(requests[1], i)
    <3>1. \A m \in 1 .. len + 1 : m = 1 \/ m \in 2 .. len + 1
      BY <1>2
    <3>2. ~Pending(i)
      BY <1>1, <1>2, <2>2, <2>4, <3>1, PendingIs
    <3>3. QED
      BY <1>2, <2>4, <3>2 DEF Wish
  <2>5. QED
    BY <2>3, <2>4
<1>6. QED
  BY <1>4, <1>5 DEF Wish, len

LEMMA WishKept ==
  ASSUME TypeOK, WishInv, [Next]_vars
  PROVE  WishInv'
<1>1. ASSUME UNCHANGED <<instrument_subscribers, requests, streams, faulted>> PROVE WishInv'
  BY <1>1 DEF WishInv, Wish, Pending, Requested, Wanted
<1>2. CASE UNCHANGED vars \/ OnFrontConnected \/ CtpLoginSent
  BY <1>1, <1>2 DEF vars, gateway, external, OnFrontConnected, CtpLoginSent
<1>3. CASE CtpLogin
  <2>1. CASE UNCHANGED requests
    BY <1>1, <1>3, <2>1 DEF CtpLogin
  <2>2. CASE requests' = Append(requests, Login)
    <3>1. ASSUME NEW i \in Instruments \ faulted PROVE Wish(i)'
      <4>1. Wish(i) /\ ~Of(Login, i) /\ (Wanted(i)' <=> Wanted(i)) /\ UNCHANGED streams
        BY <1>3, KindsDiffer DEF CtpLogin, WishInv, Of, Wanted
      <4>2. QED
        BY <2>2, <4>1, WishAdded, RequestKinds
    <3>2. QED
      BY <1>3, <3>1 DEF CtpLogin, WishInv
  <2>3. QED
    BY <1>3, <2>1, <2>2 DEF CtpLogin
<1>4. CASE OnFrontDisconnected
  <2>1. /\ requests' = <<>> /\ streams' = {} /\ UNCHANGED instrument_subscribers
        /\ faulted' = {i \in Instruments : Wanted(i)}
    BY <1>4 DEF OnFrontDisconnected, gateway
  <2>2. Len(<<>>) = 0
    OBVIOUS
  <2>3. \A n \in 1 .. Len(requests') : FALSE
    BY <2>1, <2>2
  <2>4. ASSUME NEW i \in Instruments \ faulted' PROVE Wish(i)'
    BY <2>1, <2>3 DEF Wish, Wanted
  <2>5. QED
    BY <2>4 DEF WishInv
<1>5. CASE LoginHandled
  <2>1. /\ requests # <<>> /\ Head(requests) = Login /\ requests' = Tail(requests)
        /\ UNCHANGED <<instrument_subscribers, streams, faulted>>
    BY <1>5 DEF LoginHandled, Handle, gateway
  <2>2. ASSUME NEW i \in Instruments \ faulted PROVE Wish(i)'
    <3>1. Wish(i) /\ ~Of(Login, i) /\ (Wanted(i)' <=> Wanted(i))
      BY <2>1, KindsDiffer DEF WishInv, Of, Wanted
    <3>2. QED
      BY <2>1, <3>1, WishHandled
  <2>3. QED
    BY <2>1, <2>2 DEF WishInv
<1>6. ASSUME NEW j \in Instruments, FrontStep(j) PROVE WishInv'
  <2>1. /\ requests # <<>> /\ requests' = Tail(requests)
        /\ UNCHANGED instrument_subscribers
        /\ \/ Head(requests) = Sub(j) /\ streams' = streams \cup {j} /\ faulted' = faulted
           \/ Head(requests) = Unsub(j) /\ streams' = streams \ {j} /\ faulted' = faulted
           \/ /\ Head(requests) \in {Sub(j), Unsub(j)}
              /\ streams' = streams /\ faulted' = faulted \cup {j}
    BY <1>6 DEF FrontStep, Subscribed, Unsubscribed, Refused, Handle, gateway
  <2>2. ASSUME NEW i \in Instruments \ faulted' PROVE Wish(i)'
    <3>1. i \in Instruments \ faulted /\ Wish(i) /\ (Wanted(i)' <=> Wanted(i))
      BY <2>1 DEF WishInv, Wanted
    <3>2. Of(Head(requests), i) <=> i = j
      BY <2>1, KindsDiffer DEF Of
    <3>3. CASE i = j
      <4>1. i \in streams' <=> Head(requests) = Sub(i)
        BY <2>1, <3>3, KindsDiffer
      <4>2. QED
        BY <2>1, <3>1, <3>2, <3>3, <4>1, WishHandled
    <3>4. CASE i # j
      <4>1. i \in streams' <=> i \in streams
        BY <2>1, <3>4
      <4>2. QED
        BY <2>1, <3>1, <3>2, <3>4, <4>1, WishHandled
    <3>5. QED
      BY <3>3, <3>4
  <2>3. QED
    BY <2>2 DEF WishInv
<1>7. ASSUME NEW j \in Instruments, NEW s \in Sessions, SessionStep(s, j) PROVE WishInv'
  <2>1. instrument_subscribers \in [Instruments -> SUBSET Sessions] /\ UNCHANGED streams
    BY <1>7 DEF TypeOK, SessionStep, SubscribeInstrument, UnsubscribeInstrument
  <2>2. \A i \in Instruments \ {j} : Wanted(i)' <=> Wanted(i)
    BY <1>7, <2>1 DEF SessionStep, SubscribeInstrument, UnsubscribeInstrument, Wanted
  <2>3. \/ /\ UNCHANGED <<requests, faulted>>
           /\ Wanted(j)' <=> Wanted(j)
        \/ UNCHANGED requests /\ faulted' = faulted \cup {j}
        \/ requests' = Append(requests, Sub(j)) /\ faulted' = faulted /\ Wanted(j)'
        \/ requests' = Append(requests, Unsub(j)) /\ faulted' = faulted /\ ~Wanted(j)'
    <3>1. CASE SubscribeInstrument(s, j)
      <4>1. instrument_subscribers'[j] = instrument_subscribers[j] \cup {s}
        BY <2>1, <3>1 DEF SubscribeInstrument
      <4>2. Wanted(j)' /\ (instrument_subscribers'[j] # {s} => Wanted(j))
        BY <4>1 DEF Wanted
      <4>3. QED
        BY <3>1, <4>2 DEF SubscribeInstrument, Call, NoCall
    <3>2. CASE UnsubscribeInstrument(s, j)
      <4>1. s \in instrument_subscribers[j]
        BY <3>2 DEF UnsubscribeInstrument
      <4>2. QED
        BY <3>2, <4>1 DEF UnsubscribeInstrument, Call, NoCall, Wanted
    <3>3. QED
      BY <1>7, <3>1, <3>2 DEF SessionStep
  <2>4. ASSUME NEW i \in Instruments \ faulted' PROVE Wish(i)'
    <3>1. i \in Instruments \ faulted /\ Wish(i)
      BY <2>3 DEF WishInv
    <3>2. CASE UNCHANGED requests
      <4>1. Wanted(i)' <=> Wanted(i)
        BY <2>2, <2>3, <3>2
      <4>2. QED
        BY <2>1, <3>1, <3>2, <4>1 DEF Wish, Pending, Requested
    <3>3. CASE requests' = Append(requests, Sub(j)) /\ Wanted(j)'
      <4>1. Of(Sub(j), i) => (Sub(j) = Sub(i) <=> Wanted(i)')
        BY <3>3, KindsDiffer DEF Of
      <4>2. ~Of(Sub(j), i) => (Wanted(i)' <=> Wanted(i))
        BY <2>2 DEF Of
      <4>3. QED
        BY <2>1, <3>1, <3>3, <4>1, <4>2, WishAdded, RequestKinds
    <3>4. CASE requests' = Append(requests, Unsub(j)) /\ ~Wanted(j)'
      <4>1. Of(Unsub(j), i) => (Unsub(j) = Sub(i) <=> Wanted(i)')
        BY <3>4, KindsDiffer DEF Of
      <4>2. ~Of(Unsub(j), i) => (Wanted(i)' <=> Wanted(i))
        BY <2>2 DEF Of
      <4>3. QED
        BY <2>1, <3>1, <3>4, <4>1, <4>2, WishAdded, RequestKinds
    <3>5. QED
      BY <2>3, <3>2, <3>3, <3>4
  <2>5. QED
    BY <2>4 DEF WishInv
<1>8. QED
  BY <1>2, <1>3, <1>4, <1>5, <1>6, <1>7 DEF Next, ApiStep

\* What is streamed is what is wanted: SingleConnection!StreamsFollowWishes.
THEOREM SingleStreamsFollowWishes == Spec => []StreamsFollowWishes
<1>1. Init => WishInv
  <2> SUFFICES ASSUME Init, NEW i \in Instruments PROVE Wish(i)
    BY DEF WishInv
  <2>1. requests = <<>> /\ streams = {} /\ ~Wanted(i)
    BY DEF Init, Wanted
  <2>2. \A n \in 1 .. Len(requests) : FALSE
    BY <2>1
  <2>3. QED
    BY <2>1, <2>2 DEF Wish
<1>2. TypeOK /\ WishInv /\ [Next]_vars => WishInv'
  BY WishKept
<1>3. WishInv => StreamsFollowWishes
  BY DEF WishInv, Wish, StreamsFollowWishes
<1>4. QED
  BY <1>1, <1>2, <1>3, SingleTypeCorrect, PTL DEF Spec

-----------------------------------------------------------------------------
(* The service *)

\* Requests for a subscription come and go by what is sent and handled.
LEMMA RequestedNext ==
  ASSUME TypeOK, NEW r
  PROVE  /\ UNCHANGED requests => (Requested(r)' <=> Requested(r))
         /\ \A a \in Request : requests' = Append(requests, a) =>
              (Requested(r)' <=> Requested(r) \/ r = a)
         /\ requests # <<>> /\ requests' = Tail(requests) =>
              (Requested(r) <=> Requested(r)' \/ r = Head(requests))
<1> DEFINE len == Len(requests)
<1>1. requests \in Seq(Request) /\ len \in Nat /\ DOMAIN requests = 1 .. len
  BY DEF TypeOK
<1>2. ASSUME NEW a \in Request, requests' = Append(requests, a)
      PROVE  Requested(r)' <=> Requested(r) \/ r = a
  <2>1. /\ requests' \in Seq(Request) /\ Len(requests') = len + 1
        /\ \A n \in 1 .. len : requests'[n] = requests[n]
        /\ requests'[len + 1] = a
    BY <1>1, <1>2, RequestAdded
  <2>2. DOMAIN requests' = 1 .. len + 1
    BY <2>1
  <2> HIDE DEF len
  <2>3. /\ \A n \in 1 .. len + 1 : n \in 1 .. len \/ n = len + 1
        /\ \A n \in 1 .. len : n \in 1 .. len + 1
        /\ len + 1 \in 1 .. len + 1
    BY <1>1
  <2>4. QED
    BY <1>1, <2>1, <2>2, <2>3 DEF Requested
<1>3. ASSUME requests # <<>>, requests' = Tail(requests)
      PROVE  Requested(r) <=> Requested(r)' \/ r = Head(requests)
  <2>1. /\ requests' \in Seq(Request) /\ len \in Nat \ {0} /\ Len(requests') = len - 1
        /\ \A n \in 1 .. Len(requests') : requests'[n] = requests[n + 1]
        /\ Head(requests) = requests[1]
    BY <1>1, <1>3, RequestHandled
  <2>2. DOMAIN requests' = 1 .. len - 1
    BY <2>1
  <2> HIDE DEF len
  <2>3. \A n \in 1 .. len - 1 : n + 1 \in 1 .. len /\ requests'[n] = requests[n + 1]
    BY <2>1
  <2>4. \A n \in 1 .. len : n = 1 \/ (n - 1 \in 1 .. len - 1 /\ requests'[n - 1] = requests[n])
    <3>1. \A n \in 1 .. len : n = 1 \/ (n - 1 \in 1 .. len - 1 /\ (n - 1) + 1 = n)
      BY <2>1
    <3>2. QED
      BY <2>3, <3>1
  <2>5. 1 \in 1 .. len
    BY <2>1
  <2>6. QED
    BY <1>1, <2>1, <2>2, <2>3, <2>4, <2>5 DEF Requested
<1>4. UNCHANGED requests => (Requested(r)' <=> Requested(r))
  BY DEF Requested
<1>5. QED
  BY <1>2, <1>3, <1>4

\* The connection has room for every instrument there is.
LEMMA RoomForAll ==
  ASSUME asked \in SUBSET Instruments, NEW i \in Instruments, asked' = asked \cup {i}
  PROVE  Service!Carry("ctp", i)
<1> DEFINE carried == [c \in {"ctp"} |-> asked]
<1>1. carried["ctp"] = asked /\ carried' = [carried EXCEPT !["ctp"] = @ \cup {i}]
  OBVIOUS
<1>2. i \in asked \/ Cardinality(asked) < Cardinality(Instruments)
  <2>1. SUFFICES ASSUME i \notin asked PROVE Cardinality(asked) < Cardinality(Instruments)
    OBVIOUS
  <2>2. asked # Instruments
    BY <2>1
  <2>3. IsFiniteSet(Instruments) /\ IsFiniteSet(asked)
    BY InstrumentsFinite, FS_Subset
  <2>4. Cardinality(asked) <= Cardinality(Instruments) /\ Cardinality(asked) # Cardinality(Instruments)
    BY <2>2, InstrumentsFinite, FS_Subset
  <2>5. Cardinality(asked) \in Nat /\ Cardinality(Instruments) \in Nat
    BY <2>3, FS_CardinalityType
  <2>6. QED
    BY <2>4, <2>5
<1>3. Cardinality(asked) = Service!Cardinality(asked)
  BY Zenon DEF Cardinality, Service!Cardinality
<1>4. QED
  BY <1>1, <1>2, <1>3 DEF Service!Carry

\* A step after which everything is served as before, or one thing is not.
LEMMA ServedAsBefore ==
  ASSUME UNCHANGED <<instrument_subscribers, asked>>,
         \A i \in Instruments : ServiceOf(i)' = ServiceOf(i)
  PROVE  UNCHANGED Service!serviceVars
BY DEF Service!serviceVars

LEMMA ServedLess ==
  ASSUME NEW j \in Instruments, UNCHANGED <<instrument_subscribers, asked>>,
         \A i \in Instruments \ {j} : ServiceOf(i)' = ServiceOf(i),
         ServiceOf(j)' = ServiceOf(j) \/ (ServiceOf(j) = "serving" /\ ServiceOf(j)' = "failed")
  PROVE  [Service!Next]_(Service!serviceVars)
<1>1. CASE ServiceOf(j)' = ServiceOf(j)
  BY <1>1, ServedAsBefore
<1>2. CASE ServiceOf(j) = "serving" /\ ServiceOf(j)' = "failed"
  <2>1. Service!Fail({j})
    BY <1>2 DEF Service!Fail, Service!Becomes
  <2>2. {j} \in SUBSET Instruments
    OBVIOUS
  <2>3. QED
    BY <2>1, <2>2 DEF Service!Next
<1>3. QED
  BY <1>1, <1>2

\* Steps of the API and of the front: nothing, or the service's Fail and Lose.
LEMMA ApiStepServes ==
  ASSUME TypeOK, ApiStep \/ LoginHandled
  PROVE  [Service!Next]_(Service!serviceVars)
<1>1. ASSUME UNCHANGED <<instrument_subscribers, asked, streams>>,
             \A i \in Instruments : Requested(Sub(i))' <=> Requested(Sub(i))
      PROVE  UNCHANGED Service!serviceVars
  BY <1>1, ServedAsBefore DEF ServiceOf, Wanted
<1>2. CASE OnFrontConnected \/ CtpLoginSent
  BY <1>1, <1>2, RequestedNext DEF OnFrontConnected, CtpLoginSent, external
<1>3. CASE CtpLogin
  <2>1. \A i \in Instruments : Requested(Sub(i))' <=> Requested(Sub(i))
    BY <1>3, RequestedNext, RequestKinds, KindsDiffer DEF CtpLogin
  <2>2. QED
    BY <1>1, <1>3, <2>1 DEF CtpLogin
<1>4. CASE LoginHandled
  <2>1. \A i \in Instruments : Requested(Sub(i))' <=> Requested(Sub(i))
    BY <1>4, RequestedNext, KindsDiffer DEF LoginHandled, Handle
  <2>2. QED
    BY <1>1, <1>4, <2>1 DEF LoginHandled, Handle, gateway
<1>5. CASE OnFrontDisconnected
  <2> DEFINE I == {i \in Instruments : ServiceOf(i) = "serving"}
  <2>1. asked' = {} /\ UNCHANGED instrument_subscribers
    BY <1>5 DEF OnFrontDisconnected, gateway
  <2>2. \A i \in Instruments : ServiceOf(i)' = IF i \in I THEN "failed" ELSE ServiceOf(i)
    BY <2>1 DEF ServiceOf, Wanted
  <2>3. Service!Becomes(I, "failed")
    BY <2>2 DEF Service!Becomes
  <2>4. Service!Lose("ctp", I)
    BY <2>1, <2>3 DEF Service!Lose
  <2>5. I \in SUBSET Instruments /\ "ctp" \in {"ctp"}
    OBVIOUS
  <2>6. QED
    BY <2>4, <2>5 DEF Service!Next
<1>6. QED
  BY <1>2, <1>3, <1>4, <1>5 DEF ApiStep

LEMMA FrontStepServes ==
  ASSUME TypeOK, NEW j \in Instruments, FrontStep(j)
  PROVE  [Service!Next]_(Service!serviceVars)
<1>1. /\ requests # <<>> /\ requests' = Tail(requests)
      /\ UNCHANGED <<instrument_subscribers, asked>>
      /\ \/ Head(requests) = Sub(j) /\ streams' = streams \cup {j}
         \/ Head(requests) = Unsub(j) /\ streams' = streams \ {j}
         \/ Head(requests) \in {Sub(j), Unsub(j)} /\ streams' = streams
  BY DEF FrontStep, Subscribed, Unsubscribed, Refused, Handle, gateway
<1>2. ASSUME NEW i \in Instruments \ {j} PROVE ServiceOf(i)' = ServiceOf(i)
  <2>1. Sub(i) # Head(requests) /\ (i \in streams' <=> i \in streams)
    BY <1>1, KindsDiffer
  <2>2. Requested(Sub(i))' <=> Requested(Sub(i))
    BY <1>1, <2>1, RequestedNext
  <2>3. QED
    BY <1>1, <2>1, <2>2 DEF ServiceOf, Wanted
<1>3. ServiceOf(j)' = ServiceOf(j) \/ (ServiceOf(j) = "serving" /\ ServiceOf(j)' = "failed")
  <2>1. CASE Head(requests) = Sub(j) /\ j \in streams'
    <3>1. Requested(Sub(j))
      BY <1>1, <2>1, RequestedNext
    <3>2. QED
      BY <1>1, <2>1, <3>1 DEF ServiceOf, Wanted
  <2>2. CASE j \in streams' \/ Requested(Sub(j))' => j \in streams \/ Requested(Sub(j))
    BY <1>1, <2>2 DEF ServiceOf, Wanted
  <2>3. Requested(Sub(j))' => Requested(Sub(j))
    BY <1>1, RequestedNext
  <2>4. QED
    BY <1>1, <2>1, <2>2, <2>3
<1>4. QED
  BY <1>1, <1>2, <1>3, ServedLess

\* Requests of sessions: the service's Join, Leave and Rescue.
LEMMA SubscribeServes ==
  ASSUME TypeOK, NEW s \in Sessions, NEW j \in Instruments, SubscribeInstrument(s, j)
  PROVE  [Service!Next]_(Service!serviceVars)
<1> DEFINE W == instrument_subscribers
<1>1. W \in [Instruments -> SUBSET Sessions] /\ asked \in SUBSET Instruments
  BY DEF TypeOK
<1>2. W' = [W EXCEPT ![j] = @ \cup {s}] /\ W'[j] = W[j] \cup {s} /\ Wanted(j)'
      /\ UNCHANGED streams
  BY <1>1 DEF SubscribeInstrument, Wanted
<1>3. \A i \in Instruments \ {j} : Wanted(i)' <=> Wanted(i)
  BY <1>1, <1>2 DEF Wanted
<1>4. CASE UNCHANGED <<requests, asked>>
  <2>1. \A i \in Instruments : Requested(Sub(i))' <=> Requested(Sub(i))
    BY <1>4, RequestedNext
  <2>2. \A i \in Instruments \ {j} : ServiceOf(i)' = ServiceOf(i)
    BY <1>2, <1>3, <1>4, <2>1 DEF ServiceOf
  <2>3. CASE Wanted(j)
    <3>1. ServiceOf(j)' = ServiceOf(j) /\ ServiceOf(j) # "none"
      BY <1>2, <1>4, <2>1, <2>3 DEF ServiceOf
    <3>2. Service!Join(s, j)
      BY <1>2, <1>4, <2>2, <3>1 DEF Service!Join
    <3>3. QED
      BY <3>2 DEF Service!Next
  <2>4. CASE ~Wanted(j)
    <3>1. ServiceOf(j) = "none"
      BY <2>4 DEF ServiceOf
    <3>2. CASE ServiceOf(j)' = "failed"
      <4>1. Service!Becomes({j}, "failed")
        BY <2>2, <3>2 DEF Service!Becomes
      <4>2. Service!Join(s, j)
        BY <1>2, <1>4, <3>1, <4>1 DEF Service!Join
      <4>3. QED
        BY <4>2 DEF Service!Next
    <3>3. CASE ServiceOf(j)' = "serving"
      <4>1. Service!Becomes({j}, "serving")
        BY <2>2, <3>3 DEF Service!Becomes
      <4>2. j \in asked
        BY <1>4, <3>3 DEF ServiceOf
      <4>3. asked' = asked \cup {j}
        BY <1>4, <4>2
      <4>4. Service!Carry("ctp", j)
        BY <1>1, <4>3, RoomForAll
      <4>5. Service!Join(s, j)
        BY <1>2, <3>1, <4>1, <4>4 DEF Service!Join
      <4>6. QED
        BY <4>5 DEF Service!Next
    <3>4. QED
      BY <1>2, <3>2, <3>3 DEF ServiceOf
  <2>5. QED
    BY <2>3, <2>4
<1>5. CASE /\ requests' = Append(requests, Sub(j)) /\ asked' = asked \cup {j}
           /\ W'[j] = {s}
  <2>1. Requested(Sub(j))' /\ \A i \in Instruments \ {j} : Requested(Sub(i))' <=> Requested(Sub(i))
    BY <1>5, RequestedNext, RequestKinds, KindsDiffer
  <2>2. \A i \in Instruments \ {j} : ServiceOf(i)' = ServiceOf(i)
    BY <1>2, <1>3, <1>5, <2>1 DEF ServiceOf
  <2>3. ServiceOf(j)' = "serving" /\ Service!Becomes({j}, "serving")
    <3>1. ServiceOf(j)' = "serving"
      BY <1>2, <1>5, <2>1 DEF ServiceOf
    <3>2. QED
      BY <2>2, <3>1 DEF Service!Becomes
  <2>4. Service!Carry("ctp", j)
    BY <1>1, <1>5, RoomForAll
  <2>5. CASE ~Wanted(j)
    <3>1. Service!Join(s, j)
      BY <1>2, <2>3, <2>4, <2>5 DEF Service!Join, ServiceOf
    <3>2. QED
      BY <3>1 DEF Service!Next
  <2>6. CASE Wanted(j)
    <3>1. W' = W
      BY <1>1, <1>2, <1>5, <2>6 DEF Wanted
    <3>2. CASE ServiceOf(j) = "failed"
      <4>1. Service!Rescue("ctp", j)
        BY <2>3, <2>4, <3>1, <3>2 DEF Service!Rescue
      <4>2. QED
        BY <4>1 DEF Service!Next
    <3>3. CASE ServiceOf(j) = "serving"
      <4>1. asked' = asked
        BY <1>5, <3>3 DEF ServiceOf
      <4>2. \A i \in Instruments : ServiceOf(i)' = ServiceOf(i)
        BY <2>2, <2>3, <3>3
      <4>3. QED
        BY <3>1, <4>1, <4>2, ServedAsBefore
    <3>4. QED
      BY <2>6, <3>2, <3>3 DEF ServiceOf
  <2>7. QED
    BY <2>5, <2>6
<1>6. QED
  BY <1>4, <1>5 DEF SubscribeInstrument, Call, NoCall

LEMMA UnsubscribeServes ==
  ASSUME TypeOK, NEW s \in Sessions, NEW j \in Instruments, UnsubscribeInstrument(s, j)
  PROVE  [Service!Next]_(Service!serviceVars)
<1> DEFINE W == instrument_subscribers
<1>1. W \in [Instruments -> SUBSET Sessions] /\ asked \in SUBSET Instruments
  BY DEF TypeOK
<1>2. /\ s \in W[j] /\ W' = [W EXCEPT ![j] = @ \ {s}] /\ W'[j] = W[j] \ {s}
      /\ Wanted(j) /\ UNCHANGED streams
  BY <1>1 DEF UnsubscribeInstrument, Wanted
<1>3. \A i \in Instruments \ {j} : Wanted(i)' <=> Wanted(i)
  BY <1>1, <1>2 DEF Wanted
<1>4. /\ \A i \in Instruments : Requested(Sub(i))' <=> Requested(Sub(i))
      /\ \A i \in Instruments \ {j} : i \in asked' <=> i \in asked
      /\ asked' = asked \/ (asked' = asked \ {j} /\ W'[j] = {})
  <2>1. \/ UNCHANGED <<requests, asked>>
        \/ requests' = Append(requests, Unsub(j)) /\ asked' = asked \ {j} /\ W'[j] = {}
    BY DEF UnsubscribeInstrument, Call, NoCall
  <2>2. \A i \in Instruments : Requested(Sub(i))' <=> Requested(Sub(i))
    <3>1. CASE UNCHANGED requests
      BY <3>1, RequestedNext
    <3>2. CASE requests' = Append(requests, Unsub(j))
      <4>1. Unsub(j) \in Request /\ \A i \in Instruments : Sub(i) # Unsub(j)
        BY RequestKinds, KindsDiffer
      <4>2. QED
        BY <3>2, <4>1, RequestedNext
    <3>3. QED
      BY <2>1, <3>1, <3>2
  <2>3. asked' = asked \/ (asked' = asked \ {j} /\ W'[j] = {})
    BY <2>1
  <2>4. \A i \in Instruments \ {j} : i \in asked' <=> i \in asked
    BY <2>3
  <2>5. QED
    BY <2>2, <2>3, <2>4
<1>5. \A i \in Instruments \ {j} : ServiceOf(i)' = ServiceOf(i)
  BY <1>2, <1>3, <1>4 DEF ServiceOf
<1>6. CASE W'[j] # {}
  <2>1. Wanted(j)' /\ W[j] # {s} /\ asked' = asked
    BY <1>2, <1>4, <1>6 DEF Wanted
  <2>2. ServiceOf(j)' = ServiceOf(j)
    BY <1>2, <1>4, <2>1 DEF ServiceOf
  <2>3. Service!Leave(s, j)
    BY <1>2, <1>5, <2>1, <2>2 DEF Service!Leave
  <2>4. QED
    BY <2>3 DEF Service!Next
<1>7. CASE W'[j] = {}
  <2>1. W[j] = {s}
    BY <1>2, <1>7
  <2>2. ServiceOf(j)' = "none"
    BY <1>7 DEF ServiceOf, Wanted
  <2>3. Service!Becomes({j}, "none")
    BY <1>5, <2>2 DEF Service!Becomes
  <2> DEFINE carried == [c \in {"ctp"} |-> asked]
  <2>4. UNCHANGED carried \/ \E c \in {"ctp"} : carried' = [carried EXCEPT ![c] = @ \ {j}]
    BY <1>4
  <2>5. Service!Leave(s, j)
    BY <1>2, <2>1, <2>3, <2>4 DEF Service!Leave
  <2>6. QED
    BY <2>5 DEF Service!Next
<1>8. QED
  BY <1>6, <1>7

\* One connection without a dispatcher is the service that the dispatcher with
\* its pool is: SingleConnection!ServiceSpec.
THEOREM SingleServes == Spec => ServiceSpec
<1>1. Init => Service!Init
  BY DEF Init, Service!Init, ServiceOf, Wanted
<1>2. TypeOK /\ [Next]_vars => [Service!Next]_(Service!serviceVars)
  <2> SUFFICES ASSUME TypeOK, [Next]_vars PROVE [Service!Next]_(Service!serviceVars)
    OBVIOUS
  <2>1. CASE UNCHANGED vars
    <3>1. UNCHANGED <<instrument_subscribers, asked, streams, requests>>
      BY <2>1 DEF vars, gateway, external
    <3>2. \A i \in Instruments : ServiceOf(i)' = ServiceOf(i)
      BY <3>1 DEF ServiceOf, Wanted, Requested
    <3>3. QED
      BY <3>1, <3>2, ServedAsBefore
  <2>2. QED
    BY <2>1, ApiStepServes, FrontStepServes, SubscribeServes, UnsubscribeServes
       DEF Next, SessionStep
<1>3. QED
  BY <1>1, <1>2, SingleTypeCorrect, PTL DEF Spec, ServiceSpec, Service!Spec

================================================================================
