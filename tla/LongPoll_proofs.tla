--------------------------- MODULE LongPoll_proofs ---------------------------
(***************************************************************************)
(* What is proved of LongPoll for any clients, instruments, names, quotes  *)
(* and callback threads.                                                   *)
(***************************************************************************)
EXTENDS LongPoll, TLAPS

\* A full message is a picture.
LEMMA FullTyped ==
  ASSUME cache \in [Instruments -> Quote \cup {NoQuote}], NEW wanted
  PROVE  Full(wanted) \in Pictures
BY DEF Full, Mirror!Full, Pictures, Keys, Mirror!Keys, NoQuote

\* A quote has the fields Fields; NoQuote has none.
LEMMA Domains ==
  /\ \A q \in Quote : DOMAIN q = Fields
  /\ DOMAIN NoQuote = {}
BY DEF Quote, Mirror!Quote, NoQuote, Mirror!NoQuote

\* Something that has no field is NoQuote.
LEMMA EmptyIsNoQuote ==
  ASSUME NEW q \in Quote \cup {NoQuote}, DOMAIN q = {}
  PROVE  q = NoQuote
BY DEF Quote, Mirror!Quote, NoQuote, Mirror!NoQuote

\* What becomes of one quote of a picture by the difference from old to new.
MergedQuote(picture, old, new) ==
  [f \in DOMAIN picture \cup Changed(old, new) |->
     IF f \in Changed(old, new) THEN new[f] ELSE picture[f]]

\* Merging a difference yields the new quote, if the client had the old one.
LEMMA MergeOfChanged ==
  ASSUME NEW picture \in Quote \cup {NoQuote},
         NEW old \in Quote \cup {NoQuote},
         NEW new \in Quote,
         old # NoQuote => picture = old
  PROVE  /\ Changed(old, new) = {} => picture = new
         /\ MergedQuote(picture, old, new) = new
<1> USE DEF MergedQuote
<1>1. DOMAIN new = Fields /\ new = [f \in Fields |-> new[f]]
  BY DEF Quote, Mirror!Quote
<1>2. CASE old = NoQuote
  <2>1. Changed(old, new) = Fields
    BY <1>1, <1>2, Domains DEF Changed
  <2>2. DOMAIN picture \subseteq Fields
    BY Domains
  <2>3. Fields = {} => picture = new
    BY <1>1, <2>2, EmptyIsNoQuote
  <2>4. QED
    BY <1>1, <2>1, <2>2, <2>3
<1>3. CASE old # NoQuote
  <2>1. /\ picture = old /\ DOMAIN old = Fields
        /\ old = [f \in Fields |-> old[f]]
    BY <1>3 DEF Quote, Mirror!Quote
  <2>2. Changed(old, new) = {f \in Fields : new[f] # old[f]}
    BY <1>1, <2>1 DEF Changed
  <2>3. \A f \in Fields : f \notin Changed(old, new) => new[f] = old[f]
    BY <2>2
  <2>4. [f \in DOMAIN picture \cup Changed(old, new) |->
           IF f \in Changed(old, new) THEN new[f] ELSE picture[f]]
        = [f \in Fields |-> new[f]]
    BY <2>1, <2>2, <2>3
  <2>5. Changed(old, new) = {} => old = new
    BY <1>1, <2>1, <2>3
  <2>6. QED
    BY <1>1, <2>1, <2>4, <2>5
<1>4. QED
  BY <1>2, <1>3

\* The picture of a client after an answer, computed without differences.
Updated(picture, new) ==
  [k \in Keys |-> IF new[k] = NoQuote THEN picture[k] ELSE new[k]]

\* A client that has what the last message had turns the difference to a new
\* message into that message, and keeps the rest.
LEMMA MergeOfDiff ==
  ASSUME NEW picture \in Pictures, NEW old \in Pictures, NEW new \in Pictures,
         \A k \in Keys : old[k] # NoQuote => picture[k] = old[k]
  PROVE  Merge(picture, Diff(old, new)) = Updated(picture, new)
<1> DEFINE diff == Diff(old, new)
<1> DEFINE differing == {k \in Keys : Changed(old[k], new[k]) # {}}
<1>1. /\ DOMAIN diff = differing
      /\ \A k \in differing :
           diff[k] = [f \in Changed(old[k], new[k]) |-> new[k][f]]
  BY DEF Diff
<1>2. ASSUME NEW k \in Keys
      PROVE  Merge(picture, diff)[k] = Updated(picture, new)[k]
  <2>1. /\ picture[k] \in Quote \cup {NoQuote}
        /\ old[k] \in Quote \cup {NoQuote}
        /\ new[k] \in Quote \cup {NoQuote}
        /\ old[k] # NoQuote => picture[k] = old[k]
    BY DEF Pictures
  <2> HIDE DEF diff, differing
  <2>6. ASSUME new[k] # NoQuote
        PROVE  /\ Changed(old[k], new[k]) = {} => picture[k] = new[k]
               /\ MergedQuote(picture[k], old[k], new[k]) = new[k]
    <3>1. new[k] \in Quote
      BY <2>1, <2>6
    <3>2. QED
      BY <2>1, <3>1, MergeOfChanged
  <2>2. CASE new[k] = NoQuote
    <3>1. Changed(old[k], new[k]) = {}
      BY <2>2, Domains DEF Changed
    <3>2. k \notin DOMAIN diff
      BY <1>1, <3>1 DEF differing
    <3>3. QED
      BY <2>2, <3>2 DEF Merge, Updated
  <2>3. CASE new[k] # NoQuote /\ k \notin differing
    <3>1. Changed(old[k], new[k]) = {}
      BY <2>3 DEF differing
    <3>2. picture[k] = new[k]
      BY <2>3, <2>6, <3>1
    <3>3. QED
      BY <1>1, <2>3, <3>2 DEF Merge, Updated
  <2>4. CASE new[k] # NoQuote /\ k \in differing
    <3>1. DOMAIN diff[k] = Changed(old[k], new[k])
          /\ \A f \in Changed(old[k], new[k]) : diff[k][f] = new[k][f]
      BY <1>1, <2>4
    <3>2. Merge(picture, diff)[k] = MergedQuote(picture[k], old[k], new[k])
      BY <1>1, <2>4, <3>1 DEF Merge, MergedQuote
    <3>3. Merge(picture, diff)[k] = new[k]
      BY <2>4, <2>6, <3>2
    <3>4. QED
      BY <2>4, <3>3 DEF Updated
  <2>5. QED
    BY <2>2, <2>3, <2>4
<1>3. QED
  BY <1>2 DEF Merge, Updated

-----------------------------------------------------------------------------
(* Types, pictures, and the abstract promise *)

\* An answer keeps the types and the agreement of picture and last message,
\* and shows in the picture as the promise says.
LEMMA PeekUpdates ==
  ASSUME TypeOK, PictureIsLastSent,
         NEW s \in Sessions, NEW waiting \in SUBSET Sessions,
         HandlePeek(s, waiting)
  PROVE  /\ last_sent' \in [Sessions -> Pictures]
         /\ view' \in [Sessions -> Pictures]
         /\ pending' \in SUBSET Sessions
         /\ asked' \in SUBSET Sessions
         /\ PictureIsLastSent'
         /\ \/ UNCHANGED view
            \/ view' = [view EXCEPT ![s] = Updated(view[s], Full(subscriptions[s]))]
<1> DEFINE full == Full(subscriptions[s])
<1>1. /\ last_sent \in [Sessions -> Pictures]
      /\ view \in [Sessions -> Pictures]
      /\ pending \in SUBSET Sessions
      /\ full \in Pictures
  BY FullTyped DEF TypeOK
<1>2. CASE Send(s, waiting)
  <2>1. Merge(view[s], Diff(last_sent[s], full)) = Updated(view[s], full)
    <3>1. /\ view[s] \in Pictures
          /\ last_sent[s] \in Pictures
          /\ \A k \in Keys : last_sent[s][k] # NoQuote => view[s][k] = last_sent[s][k]
      BY <1>1 DEF PictureIsLastSent
    <3> HIDE DEF full
    <3>2. QED
      BY <1>1, <3>1, MergeOfDiff
  <2>2. view' = [view EXCEPT ![s] = Updated(view[s], full)]
    BY <1>2, <2>1 DEF Send
  <2>3. /\ last_sent' = [last_sent EXCEPT ![s] = full]
        /\ asked' = waiting \ {s}
        /\ pending' = pending
    BY <1>2 DEF Send
  <2> HIDE DEF full
  <2>4. Updated(view[s], full) \in Pictures
    BY <1>1 DEF Updated, Pictures
  <2>5. \A k \in Keys : full[k] # NoQuote => Updated(view[s], full)[k] = full[k]
    BY DEF Updated
  <2>6. PictureIsLastSent'
    BY <1>1, <2>2, <2>3, <2>4, <2>5 DEF PictureIsLastSent, Keys, Mirror!Keys
  <2>7. QED
    BY <1>1, <2>2, <2>3, <2>4, <2>6 DEF full
<1>3. CASE ~Send(s, waiting)
  <2>1. UNCHANGED <<last_sent, view>>
    BY <1>3 DEF HandlePeek, SendEmpty, Suspend
  <2>2. pending' \in SUBSET Sessions /\ asked' \in SUBSET Sessions
    BY <1>1, <1>3 DEF HandlePeek, SendEmpty, Suspend
  <2>3. QED
    BY <1>1, <2>1, <2>2 DEF PictureIsLastSent, Keys, Mirror!Keys
<1>4. QED
  BY <1>2, <1>3

\* A picture changes as the promise says.
LEMMA UpdateIsDelivery ==
  ASSUME NEW s \in Sessions,
         view' = [view EXCEPT ![s] = Updated(view[s], Full(subscriptions[s]))],
         UNCHANGED <<cache, names, subscriptions>>
  PROVE  Mirror!Deliver(s)
BY DEF Mirror!Deliver, Updated, Full, Keys, NoQuote

PollInv == TypeOK /\ PictureIsLastSent

\* Every step keeps the invariant and is a step of the promise or none.
LEMMA PollStep ==
  ASSUME PollInv, [Next]_vars
  PROVE  PollInv' /\ [Mirror!Next]_Mirror!mirrorVars
<1> USE DEF PollInv, Mirror!mirrorVars
<1>1. CASE UNCHANGED vars
  BY <1>1 DEF vars, tables, poll, threadVars, TypeOK, PictureIsLastSent,
              Pictures, Keys, Mirror!Keys, Quote, Mirror!Quote, NoQuote, Mirror!NoQuote
<1>2. ASSUME NEW t \in Threads, NEW i \in Instruments, NEW q \in Quote, CacheQuote(t, i, q)
      PROVE  PollInv' /\ Mirror!Next
  <2>1. Mirror!Arrive(i, q)
    BY <1>2 DEF CacheQuote, Mirror!Arrive, tables, poll
  <2>2. QED
    BY <1>2, <2>1 DEF CacheQuote, Mirror!Next, tables, poll, TypeOK, PictureIsLastSent,
                      Pictures, Keys, Mirror!Keys, Quote, NoQuote
<1>3. ASSUME NEW t \in Threads, Notify(t)
      PROVE  PollInv' /\ UNCHANGED Mirror!mirrorVars
  BY <1>3 DEF Notify, tables, TypeOK, PictureIsLastSent,
              Pictures, Keys, Mirror!Keys, Quote, Mirror!Quote, NoQuote, Mirror!NoQuote
<1>4. ASSUME NEW t \in Threads, NEW s \in Sessions, Wake(t, s)
      PROVE  PollInv' /\ [Mirror!Next]_Mirror!mirrorVars
  <2>1. HandlePeek(s, asked) /\ asked \in SUBSET Sessions
    BY <1>4 DEF Wake, TypeOK
  <2>2. UNCHANGED <<cache, subscriptions, subscribers, names, handling, quoted>>
    BY <1>4 DEF Wake, tables
  <2>3. waking' \in [Threads -> SUBSET Sessions] /\ pc' \in [Threads -> {"idle", "notify", "wake"}]
    BY <1>4 DEF Wake, TypeOK
  <2>4. [Mirror!Next]_Mirror!mirrorVars
    BY <2>1, <2>2, PeekUpdates, UpdateIsDelivery DEF Mirror!Next
  <2>5. PollInv'
    BY <2>1, <2>2, <2>3, PeekUpdates DEF TypeOK
  <2>6. QED
    BY <2>4, <2>5
<1>5. ASSUME NEW s \in Sessions, Peek(s)
      PROVE  PollInv' /\ [Mirror!Next]_Mirror!mirrorVars
  <2>1. HandlePeek(s, asked \cup {s}) /\ asked \cup {s} \in SUBSET Sessions
    BY <1>5 DEF Peek, TypeOK
  <2>2. UNCHANGED <<cache, subscriptions, subscribers, names, handling, quoted, waking, pc>>
    BY <1>5 DEF Peek, tables, threadVars
  <2>3. [Mirror!Next]_Mirror!mirrorVars
    BY <2>1, <2>2, PeekUpdates, UpdateIsDelivery DEF Mirror!Next
  <2>4. PollInv'
    BY <2>1, <2>2, PeekUpdates DEF TypeOK
  <2>5. QED
    BY <2>3, <2>4
<1>6. ASSUME NEW s \in Sessions, NEW i \in Instruments, NEW n \in Names, SubscribeBegin(s, i, n)
      PROVE  PollInv' /\ Mirror!Next
  <2>1. /\ subscriptions' = [subscriptions EXCEPT ![s] = subscriptions[s] \cup {i}]
        /\ names' \in [Instruments -> Names]
        /\ handling' \in Requests \cup {Nothing}
        /\ UNCHANGED <<cache, subscribers, last_sent, pending, asked, view, pc, quoted, waking>>
    BY <1>6 DEF SubscribeBegin, TypeOK, poll, threadVars, Requests
  <2>2. subscriptions[s] \cup {i} \in SUBSET Instruments
    BY DEF TypeOK
  <2>3. Mirror!Change(s, subscriptions[s] \cup {i})
    BY <2>1 DEF Mirror!Change
  <2>4. Mirror!Next
    BY <2>2, <2>3 DEF Mirror!Next
  <2>5. PollInv'
    BY <2>1, <2>2 DEF TypeOK, PictureIsLastSent, Keys, Mirror!Keys, Pictures
  <2>6. QED
    BY <2>4, <2>5
<1>7. ASSUME NEW s \in Sessions, NEW i \in Instruments, UnsubscribeBegin(s, i)
      PROVE  PollInv' /\ Mirror!Next
  <2>1. /\ subscriptions' = [subscriptions EXCEPT ![s] = subscriptions[s] \ {i}]
        /\ names' \in [Instruments -> Names]
        /\ handling' \in Requests \cup {Nothing}
        /\ UNCHANGED <<cache, subscribers, last_sent, pending, asked, view, pc, quoted, waking>>
    BY <1>7 DEF UnsubscribeBegin, TypeOK, poll, threadVars, Requests
  <2>2. subscriptions[s] \ {i} \in SUBSET Instruments
    BY DEF TypeOK
  <2>3. Mirror!Change(s, subscriptions[s] \ {i})
    BY <2>1 DEF Mirror!Change
  <2>4. Mirror!Next
    BY <2>2, <2>3 DEF Mirror!Next
  <2>5. PollInv'
    BY <2>1, <2>2 DEF TypeOK, PictureIsLastSent, Keys, Mirror!Keys, Pictures
  <2>6. QED
    BY <2>4, <2>5
<1>8. ASSUME NEW s \in Sessions, NEW i \in Instruments, SubscribeEnd(s, i) \/ UnsubscribeEnd(s, i)
      PROVE  PollInv' /\ UNCHANGED Mirror!mirrorVars
  <2>1. /\ subscribers' \in [Instruments -> SUBSET Sessions]
        /\ handling' \in Requests \cup {Nothing}
        /\ UNCHANGED <<cache, subscriptions, names, last_sent, pending, asked, view, pc, quoted, waking>>
    BY <1>8 DEF SubscribeEnd, UnsubscribeEnd, TypeOK, poll, threadVars
  <2>2. QED
    BY <2>1 DEF TypeOK, PictureIsLastSent, Keys, Mirror!Keys, Pictures
<1>9. QED
  BY <1>1, <1>2, <1>3, <1>4, <1>5, <1>6, <1>7, <1>8
     DEF Next, ThreadStep, IoStep, SessionStep

\* A started server.
LEMMA PollStart == Init => PollInv /\ Mirror!Init
<1>1. ASSUME Init PROVE Blank \in Pictures
  BY DEF Blank, Pictures, NoQuote
<1>2. ASSUME Init PROVE view = [s \in Sessions |-> Blank]
  BY <1>2 DEF Init, Mirror!Init, Blank, Keys, NoQuote
<1>3. ASSUME Init PROVE TypeOK
  BY <1>1, <1>2, <1>3, NamesAssumption DEF Init, Mirror!Init, TypeOK, Requests, NoQuote
<1>4. ASSUME Init PROVE PictureIsLastSent
  BY <1>2, <1>4 DEF Init, PictureIsLastSent
<1>5. QED
  BY <1>3, <1>4 DEF Init, PollInv

\* Every variable of the long poll keeps its type.
THEOREM PollTypeCorrect == Spec => []TypeOK
<1>1. Init => PollInv
  BY PollStart
<1>2. PollInv /\ [Next]_vars => PollInv'
  BY PollStep
<1>3. PollInv => TypeOK
  BY DEF PollInv
<1>4. QED
  BY <1>1, <1>2, <1>3, PTL DEF Spec

\* The client's picture agrees with the server's memory of it.
THEOREM PictureAlwaysLastSent == Spec => []PictureIsLastSent
<1>1. Init => PollInv
  BY PollStart
<1>2. PollInv /\ [Next]_vars => PollInv'
  BY PollStep
<1>3. PollInv => PictureIsLastSent
  BY DEF PollInv
<1>4. QED
  BY <1>1, <1>2, <1>3, PTL DEF Spec

\* The long poll with its differences keeps the promise of QuoteMirror: each
\* answer brings the picture of a client that merges it up to the cache.
THEOREM PollMirrors == Spec => MirrorSpec
<1>1. Init => PollInv /\ Mirror!Init
  BY PollStart
<1>2. PollInv /\ [Next]_vars => PollInv' /\ [Mirror!Next]_Mirror!mirrorVars
  BY PollStep
<1>3. QED
  BY <1>1, <1>2, PTL DEF Spec, MirrorSpec, Mirror!Spec

-----------------------------------------------------------------------------
(* Patient clients *)

\* The io thread works on a subscription of a client that does not wait.
HandledIsAnswered ==
  \A s \in Sessions, i \in Instruments :
    handling \in {<<"subscribe", s, i>>, <<"unsubscribe", s, i>>} => s \notin asked

\* instrument_subscribers_ follows the sessions' own sets, except where the io
\* thread has not got there yet.
SubscribersFollow ==
  \A s \in Sessions, i \in Instruments :
    /\ i \in subscriptions[s] /\ handling # <<"subscribe", s, i>> => s \in subscribers[i]
    /\ handling = <<"unsubscribe", s, i>> => i \notin subscriptions[s]

WaitersSubscribe == \A s \in asked : subscriptions[s] # {}

WakersWake == \A t \in Threads : waking[t] # {} => pc[t] = "wake"

WaitInv ==
  /\ TypeOK
  /\ HandledIsAnswered /\ SubscribersFollow /\ WaitersSubscribe /\ WakersWake
  /\ NoLostWakeup /\ PeekIsRemembered

\* A quote without a difference to the last one is the last one.
LEMMA NoDifference ==
  ASSUME TypeOK, NEW s \in Sessions, NEW i \in subscriptions[s],
         cache[i] # NoQuote,
         DOMAIN Diff(last_sent[s], Full(subscriptions[s])) = {}
  PROVE  last_sent[s][<<i, names[i]>>] = cache[i]
<1> DEFINE k == <<i, names[i]>>
<1> DEFINE full == Full(subscriptions[s])
<1>1. k \in Keys /\ i \in Instruments
  BY DEF TypeOK, Keys, Mirror!Keys
<1>2. full[k] = cache[i]
  BY <1>1 DEF Full, Mirror!Full, Keys
<1>3. cache[i] \in Quote
  BY <1>1 DEF TypeOK
<1>4. last_sent[s][k] \in Quote \cup {NoQuote}
  BY <1>1 DEF TypeOK, Pictures
<1>5. Changed(last_sent[s][k], full[k]) = {}
  BY <1>1 DEF Diff
<1> HIDE DEF k, full
<1>6. last_sent[s][k] = cache[i]
  BY <1>2, <1>3, <1>4, <1>5, MergeOfChanged
<1>7. QED
  BY <1>6 DEF k

\* A peek concerns its session alone, and leaves it waiting only with nothing new.
LEMMA PeekAnswers ==
  ASSUME TypeOK, NEW s \in Sessions, NEW waiting \in SUBSET Sessions,
         HandlePeek(s, waiting)
  PROVE  /\ \A r \in Sessions \ {s} :
              /\ last_sent'[r] = last_sent[r]
              /\ r \in pending' <=> r \in pending
              /\ r \in asked' <=> r \in waiting
         /\ s \in asked' =>
              /\ s \in waiting
              /\ subscriptions[s] # {} => s \in pending'
              /\ \A i \in subscriptions[s] :
                   cache[i] = NoQuote \/ \E n \in Names : last_sent'[s][<<i, n>>] = cache[i]
<1>1. CASE Send(s, waiting)
  BY <1>1 DEF Send, TypeOK
<1>2. CASE SendEmpty(s, waiting)
  BY <1>2 DEF SendEmpty
<1>3. CASE Suspend(s, waiting)
  <2>1. /\ DOMAIN Diff(last_sent[s], Full(subscriptions[s])) = {}
        /\ pending' = pending \cup {s} /\ asked' = waiting /\ last_sent' = last_sent
    BY <1>3 DEF Suspend
  <2>2. \A i \in subscriptions[s] : names[i] \in Names
    BY DEF TypeOK
  <2>3. \A i \in subscriptions[s] :
          cache[i] = NoQuote \/ last_sent[s][<<i, names[i]>>] = cache[i]
    BY <2>1, NoDifference
  <2>4. QED
    BY <2>1, <2>2, <2>3
<1>4. CASE subscriptions[s] = {} /\ asked' = waiting /\ UNCHANGED <<last_sent, pending, view>>
  BY <1>4
<1>5. QED
  BY <1>1, <1>2, <1>3, <1>4 DEF HandlePeek

\* The request the io thread is in is one of a session for an instrument.
LEMMA RequestIsSomething ==
  \A op, s, i : <<op, s, i>> # Nothing
BY DEF Nothing

\* So a peek, of a client or of a waker, keeps what is promised to the others.
LEMMA PeekKeepsWaiting ==
  ASSUME WaitInv, TypeOK', NEW s \in Sessions, NEW waiting \in SUBSET Sessions,
         HandlePeek(s, waiting),
         waiting \in {asked, asked \cup {s}}, subscriptions[s] # {} \/ s \notin waiting,
         UNCHANGED <<cache, tables, handling, quoted>>,
         s \in waiting \ asked => handling = Nothing,
         WakersWake',
         \A t \in Threads : pc[t] = "notify" <=> pc'[t] = "notify",
         \A t \in Threads, r \in Sessions \ {s} : r \in waking[t] => r \in waking'[t]
  PROVE  WaitInv'
<1>5. asked' \subseteq waiting
  <2>1. TypeOK /\ asked' \subseteq Sessions
    BY DEF WaitInv, TypeOK
  <2>2. QED
    BY <2>1, PeekAnswers
<1>1. HandledIsAnswered' /\ WaitersSubscribe'
  <2>1. HandledIsAnswered'
    <3> SUFFICES ASSUME NEW r \in Sessions, NEW i \in Instruments,
                        handling \in {<<"subscribe", r, i>>, <<"unsubscribe", r, i>>}
                 PROVE  r \notin asked'
      BY DEF HandledIsAnswered
    <3>1. r \notin asked /\ handling # Nothing
      BY RequestIsSomething DEF WaitInv, HandledIsAnswered
    <3>2. QED
      BY <1>5, <3>1
  <2>2. WaitersSubscribe'
    BY <1>5 DEF WaitInv, WaitersSubscribe, tables
  <2>3. QED
    BY <2>1, <2>2
<1>2. SubscribersFollow'
  BY DEF WaitInv, SubscribersFollow, tables
<1>3. PeekIsRemembered'
  BY PeekAnswers DEF WaitInv, TypeOK, PeekIsRemembered, tables
<1>4. NoLostWakeup'
  <2> SUFFICES ASSUME NEW r \in (asked \cap pending)', NEW i \in subscriptions[r]
               PROVE  cache[i] = NoQuote \/ Seen(r, i)' \/ OnItsWay(r, i)'
    BY DEF NoLostWakeup, tables
  <2>1. r \in Sessions
    BY DEF TypeOK
  <2>2. CASE r = s
    BY <2>2, PeekAnswers DEF Seen, WaitInv
  <2>3. CASE r # s
    <3>1. r \in asked \cap pending /\ last_sent'[r] = last_sent[r]
      BY <2>1, <2>3, PeekAnswers DEF WaitInv
    <3>2. cache[i] = NoQuote \/ Seen(r, i) \/ OnItsWay(r, i)
      BY <3>1 DEF WaitInv, NoLostWakeup
    <3>3. QED
      BY <3>1, <3>2 DEF Seen, OnItsWay, tables
  <2>4. QED
    BY <2>2, <2>3
<1>6. QED
  BY <1>1, <1>2, <1>3, <1>4 DEF WaitInv

\* With patient clients every step keeps the invariant.
LEMMA WaitStep ==
  ASSUME Patient, WaitInv, TypeOK', [Next]_vars
  PROVE  WaitInv'
<1>1. CASE UNCHANGED vars
  <2>1. UNCHANGED <<cache, names, subscriptions, subscribers, last_sent, pending,
                    handling, pc, quoted, waking, asked>>
    BY <1>1 DEF vars, tables, poll, threadVars
  <2>2. HandledIsAnswered' /\ SubscribersFollow' /\ WaitersSubscribe' /\ WakersWake'
    BY <2>1 DEF WaitInv, HandledIsAnswered, SubscribersFollow, WaitersSubscribe, WakersWake
  <2>3. PeekIsRemembered'
    BY <2>1 DEF WaitInv, PeekIsRemembered
  <2>4. NoLostWakeup'
    BY <2>1 DEF WaitInv, NoLostWakeup, Seen, OnItsWay
  <2>5. QED
    BY <2>2, <2>3, <2>4 DEF WaitInv
<1>2. ASSUME NEW t \in Threads, NEW i \in Instruments, NEW q \in Quote, CacheQuote(t, i, q)
      PROVE  WaitInv'
  <2>1. /\ pc[t] = "idle" /\ pc' = [pc EXCEPT ![t] = "notify"]
        /\ cache' = [cache EXCEPT ![i] = q]
        /\ quoted' = [quoted EXCEPT ![t] = i]
        /\ UNCHANGED <<subscriptions, subscribers, names, last_sent, pending, asked,
                       handling, waking>>
    BY <1>2 DEF CacheQuote, tables, poll
  <2>2. HandledIsAnswered' /\ SubscribersFollow' /\ WaitersSubscribe' /\ PeekIsRemembered'
    BY <2>1 DEF WaitInv, HandledIsAnswered, SubscribersFollow, WaitersSubscribe, PeekIsRemembered
  <2>3. WakersWake'
    BY <2>1 DEF WaitInv, WakersWake, TypeOK
  <2>4. NoLostWakeup'
    <3> SUFFICES ASSUME NEW s \in asked \cap pending, NEW j \in subscriptions[s]
                 PROVE  cache'[j] = NoQuote \/ Seen(s, j)' \/ OnItsWay(s, j)'
      BY <2>1 DEF NoLostWakeup
    <3>1. s \in Sessions /\ j \in Instruments
      BY DEF WaitInv, TypeOK
    <3>2. CASE j = i
      <4>1. s \in subscribers[i]
        BY <3>1, <3>2 DEF WaitInv, HandledIsAnswered, SubscribersFollow
      <4>2. QED
        BY <2>1, <3>2, <4>1 DEF OnItsWay, WaitInv, TypeOK
    <3>3. CASE j # i
      <4>1. cache[j] = NoQuote \/ Seen(s, j) \/ OnItsWay(s, j)
        BY DEF WaitInv, NoLostWakeup
      <4>2. cache'[j] = cache[j]
        BY <2>1, <3>1, <3>3 DEF WaitInv, TypeOK
      <4>3. Seen(s, j) => Seen(s, j)'
        BY <2>1, <4>2 DEF Seen
      <4>4. OnItsWay(s, j) => OnItsWay(s, j)'
        BY <2>1 DEF OnItsWay, WaitInv, TypeOK
      <4>5. QED
        BY <4>1, <4>2, <4>3, <4>4
    <3>4. QED
      BY <3>2, <3>3
  <2>5. QED
    BY <2>2, <2>3, <2>4 DEF WaitInv
<1>3. ASSUME NEW t \in Threads, Notify(t)
      PROVE  WaitInv'
  <2> DEFINE found == subscribers[quoted[t]] \cap pending
  <2>1. /\ pc[t] = "notify"
        /\ pending' = pending \ found
        /\ waking' = [waking EXCEPT ![t] = found]
        /\ pc' = [pc EXCEPT ![t] = IF found = {} THEN "idle" ELSE "wake"]
        /\ UNCHANGED <<cache, subscriptions, subscribers, names, last_sent, asked,
                       handling, quoted>>
    BY <1>3 DEF Notify, tables
  <2>2. HandledIsAnswered' /\ SubscribersFollow' /\ WaitersSubscribe'
    BY <2>1 DEF WaitInv, HandledIsAnswered, SubscribersFollow, WaitersSubscribe
  <2>3. WakersWake'
    BY <2>1 DEF WaitInv, WakersWake, TypeOK
  <2>4. PeekIsRemembered'
    <3>1. waking[t] = {}
      BY <2>1 DEF WaitInv, WakersWake
    <3>2. waking'[t] = found /\ \A u \in Threads \ {t} : waking'[u] = waking[u]
      BY <2>1 DEF WaitInv, TypeOK
    <3>3. QED
      BY <2>1, <3>1, <3>2 DEF WaitInv, PeekIsRemembered
  <2>5. NoLostWakeup'
    <3> SUFFICES ASSUME NEW s \in asked \cap pending', NEW j \in subscriptions[s]
                 PROVE  cache[j] = NoQuote \/ Seen(s, j)' \/ OnItsWay(s, j)'
      BY <2>1 DEF NoLostWakeup
    <3>1. s \in pending /\ s \notin subscribers[quoted[t]]
      BY <2>1
    <3>2. cache[j] = NoQuote \/ Seen(s, j) \/ OnItsWay(s, j)
      BY <3>1 DEF WaitInv, NoLostWakeup
    <3>3. Seen(s, j) => Seen(s, j)'
      BY <2>1 DEF Seen
    <3>4. OnItsWay(s, j) => OnItsWay(s, j)'
      BY <2>1, <3>1 DEF OnItsWay, WaitInv, TypeOK
    <3>5. QED
      BY <3>2, <3>3, <3>4
  <2>6. QED
    BY <2>2, <2>3, <2>4, <2>5 DEF WaitInv
<1>4. ASSUME NEW t \in Threads, NEW s \in Sessions, Wake(t, s)
      PROVE  WaitInv'
  <2>1. /\ s \in waking[t] /\ HandlePeek(s, asked)
        /\ waking' = [waking EXCEPT ![t] = @ \ {s}]
        /\ pc' = [pc EXCEPT ![t] = IF waking[t] = {s} THEN "idle" ELSE "wake"]
        /\ UNCHANGED <<cache, tables, handling, quoted>>
    BY <1>4 DEF Wake
  <2>2. asked \in SUBSET Sessions /\ pc[t] = "wake"
    BY <2>1 DEF WaitInv, TypeOK, WakersWake
  <2>3. subscriptions[s] # {} \/ s \notin asked
    BY DEF WaitInv, WaitersSubscribe
  <2>4. WakersWake'
    BY <2>1 DEF WaitInv, WakersWake, TypeOK
  <2>5. \A u \in Threads : pc[u] = "notify" <=> pc'[u] = "notify"
    BY <2>1, <2>2 DEF WaitInv, TypeOK
  <2>6. \A u \in Threads, r \in Sessions \ {s} : r \in waking[u] => r \in waking'[u]
    BY <2>1 DEF WaitInv, TypeOK
  <2>7. QED
    BY <2>1, <2>2, <2>3, <2>4, <2>5, <2>6, PeekKeepsWaiting
<1>5. ASSUME NEW s \in Sessions, Peek(s)
      PROVE  WaitInv'
  <2>1. /\ HandlePeek(s, asked \cup {s}) /\ handling = Nothing /\ subscriptions[s] # {}
        /\ UNCHANGED <<cache, tables, handling, quoted>>
        /\ UNCHANGED <<pc, waking>>
    BY <1>5 DEF Peek, threadVars
  <2>2. asked \cup {s} \in SUBSET Sessions
    BY DEF WaitInv, TypeOK
  <2>3. WakersWake'
    BY <2>1 DEF WaitInv, WakersWake
  <2>4. QED
    BY <2>1, <2>2, <2>3, PeekKeepsWaiting
<1>6. ASSUME NEW s \in Sessions, NEW i \in Instruments,
             UnsubscribeBegin(s, i) \/ \E n \in Names : SubscribeBegin(s, i, n)
      PROVE  WaitInv'
  <2>1. /\ s \notin asked /\ handling = Nothing
        /\ UNCHANGED <<cache, subscribers, last_sent, pending, asked, pc, quoted, waking>>
        /\ \/ /\ subscriptions' = [subscriptions EXCEPT ![s] = @ \cup {i}]
              /\ handling' = <<"subscribe", s, i>>
           \/ /\ subscriptions' = [subscriptions EXCEPT ![s] = @ \ {i}]
              /\ handling' = <<"unsubscribe", s, i>>
    BY <1>6 DEF SubscribeBegin, UnsubscribeBegin, poll, threadVars
  <2>2. \A r \in Sessions \ {s} : subscriptions'[r] = subscriptions[r]
    BY <2>1 DEF WaitInv, TypeOK
  <2>3. HandledIsAnswered'
    BY <2>1 DEF HandledIsAnswered
  <2>4. SubscribersFollow'
    BY <2>1, RequestIsSomething DEF WaitInv, TypeOK, SubscribersFollow
  <2>5. WaitersSubscribe'
    BY <2>1, <2>2 DEF WaitInv, TypeOK, WaitersSubscribe
  <2>6. WakersWake' /\ PeekIsRemembered'
    BY <2>1 DEF WaitInv, WakersWake, PeekIsRemembered
  <2>7. NoLostWakeup'
    <3> SUFFICES ASSUME NEW r \in asked \cap pending, NEW j \in subscriptions'[r]
                 PROVE  cache[j] = NoQuote \/ Seen(r, j)' \/ OnItsWay(r, j)'
      BY <2>1 DEF NoLostWakeup
    <3>1. subscriptions'[r] = subscriptions[r]
      BY <2>1, <2>2 DEF WaitInv, TypeOK
    <3>2. cache[j] = NoQuote \/ Seen(r, j) \/ OnItsWay(r, j)
      BY <3>1 DEF WaitInv, NoLostWakeup
    <3>3. QED
      BY <2>1, <3>2 DEF Seen, OnItsWay
  <2>8. QED
    BY <2>3, <2>4, <2>5, <2>6, <2>7 DEF WaitInv
<1>7. ASSUME NEW s \in Sessions, NEW i \in Instruments, SubscribeEnd(s, i) \/ UnsubscribeEnd(s, i)
      PROVE  WaitInv'
  <2>1. /\ handling' = Nothing
        /\ UNCHANGED <<cache, subscriptions, last_sent, pending, asked, pc, quoted, waking>>
        /\ \/ /\ subscribers' = [subscribers EXCEPT ![i] = @ \cup {s}]
              /\ handling = <<"subscribe", s, i>>
           \/ /\ subscribers' = [subscribers EXCEPT ![i] = @ \ {s}]
              /\ handling = <<"unsubscribe", s, i>>
    BY <1>7 DEF SubscribeEnd, UnsubscribeEnd, poll, threadVars
  <2>2. HandledIsAnswered'
    BY <2>1, RequestIsSomething DEF HandledIsAnswered
  <2>3. SubscribersFollow'
    BY <2>1, RequestIsSomething DEF WaitInv, TypeOK, SubscribersFollow
  <2>4. WaitersSubscribe' /\ WakersWake' /\ PeekIsRemembered'
    BY <2>1 DEF WaitInv, WaitersSubscribe, WakersWake, PeekIsRemembered
  <2>5. NoLostWakeup'
    <3> SUFFICES ASSUME NEW r \in asked \cap pending, NEW j \in subscriptions[r]
                 PROVE  cache[j] = NoQuote \/ Seen(r, j)' \/ OnItsWay(r, j)'
      BY <2>1 DEF NoLostWakeup
    <3>1. cache[j] = NoQuote \/ Seen(r, j) \/ OnItsWay(r, j)
      BY DEF WaitInv, NoLostWakeup
    <3>2. r # s
      BY <2>1 DEF WaitInv, HandledIsAnswered
    <3>3. r \in subscribers[j] => r \in subscribers'[j]
      BY <2>1, <3>2 DEF WaitInv, TypeOK
    <3>4. QED
      BY <2>1, <3>1, <3>3 DEF Seen, OnItsWay
  <2>6. QED
    BY <2>2, <2>3, <2>4, <2>5 DEF WaitInv
<1>8. QED
  BY <1>1, <1>2, <1>3, <1>4, <1>5, <1>6, <1>7 DEF Next, ThreadStep, IoStep, SessionStep

\* The invariant holds of every run with patient clients.
LEMMA WaitInvariant ==
  ASSUME Patient
  PROVE  Spec => []WaitInv
<1>1. Init => WaitInv
  <2>1. Init => TypeOK
    BY PollStart DEF PollInv
  <2>2. QED
    BY <2>1, RequestIsSomething
       DEF Init, Mirror!Init, WaitInv, HandledIsAnswered, SubscribersFollow,
           WaitersSubscribe, WakersWake, NoLostWakeup, PeekIsRemembered
<1>2. WaitInv /\ TypeOK' /\ [Next]_vars => WaitInv'
  BY WaitStep
<1>3. QED
  BY <1>1, <1>2, PollTypeCorrect, PTL DEF Spec

\* No wake-up is lost by a client that changes nothing while it waits, however
\* many callback threads cache quotes and wake sessions at the same time.
THEOREM NoWakeupEverLost ==
  ASSUME Patient
  PROVE  Spec => []NoLostWakeup
<1>1. WaitInv => NoLostWakeup
  BY DEF WaitInv
<1>2. QED
  BY <1>1, WaitInvariant, PTL

\* A client that subscribed before it asked is never forgotten.
THEOREM PeekAlwaysRemembered ==
  ASSUME Patient
  PROVE  Spec => []PeekIsRemembered
<1>1. WaitInv => PeekIsRemembered
  BY DEF WaitInv
<1>2. QED
  BY <1>1, WaitInvariant, PTL
=============================================================================
