------------------------------ MODULE LongPoll ------------------------------
(***************************************************************************)
(* Quotes on their way to the clients (src/src/market_data_server.cpp): a  *)
(* callback thread caches a quote and wakes the sessions that wait for it; *)
(* a session peeks and is sent the difference to what it was sent last, or *)
(* waits.                                                                  *)
(*                                                                         *)
(* Threads.  The io thread runs the requests of all sessions one by one;   *)
(* each of Threads is the callback thread of one CTP connection.           *)
(*                                                                         *)
(* Atomicity.  handle_peek_message() holds the five mutexes of everything  *)
(* it touches: one step.  cache_market_data() caches under one mutex, finds *)
(* whom to wake under two others, and wakes without any: the steps of a    *)
(* callback thread.  A request to subscribe changes the session's own set  *)
(* first and instrument_subscribers_ last.  The session's set and the map  *)
(* of names are read by callback threads without a lock: a reader sees     *)
(* them before or after the change.                                        *)
(*                                                                         *)
(* The client merges each answer into its picture when it is sent; answers *)
(* are sent and written in order.                                          *)
(***************************************************************************)
CONSTANTS
  Sessions, Instruments, Names, Plain, Fields, Values,
  Threads,
  Patient   \* external: does a client subscribe before it asks, and leave its
            \* subscriptions alone until it is answered?

ASSUME NamesAssumption == Plain \in Names
ASSUME PatientAssumption == Patient \in BOOLEAN

VARIABLES
  cache,          \* market_data_cache_
  names,          \* noheadtohead_instruments_map_
  subscriptions,  \* subscriptions_ of each session
  subscribers,    \* instrument_subscribers_
  last_sent,      \* session_last_sent_json_: the quotes of the last full message
  pending,        \* pending_peek_sessions_
  handling,       \* the subscription request the io thread is in, or Nothing
  pc,             \* callback thread -> where it is in cache_market_data()
  quoted,         \* callback thread -> the instrument it has cached
  waking,         \* callback thread -> sessions it still has to wake
  asked,          \* external: clients that wait for an answer
  view            \* external: client -> its picture

tables == <<subscriptions, subscribers, names>>
poll == <<last_sent, pending, asked, view>>
threadVars == <<pc, quoted, waking>>
vars == <<cache, tables, poll, handling, threadVars>>

Mirror == INSTANCE QuoteMirror

Quote == Mirror!Quote
NoQuote == Mirror!NoQuote
Keys == Mirror!Keys
Full(wanted) == Mirror!Full(wanted)

\* A message, or a picture: quotes by name.  A session without a last message
\* has Blank: the difference to it is the full message.
Pictures == [Keys -> Quote \cup {NoQuote}]
Blank == [k \in Keys |-> NoQuote]

Nothing == <<>>

Requests == {"subscribe", "unsubscribe"} \X Sessions \X Instruments

TypeOK ==
  /\ cache \in [Instruments -> Quote \cup {NoQuote}]
  /\ names \in [Instruments -> Names]
  /\ subscriptions \in [Sessions -> SUBSET Instruments]
  /\ subscribers \in [Instruments -> SUBSET Sessions]
  /\ last_sent \in [Sessions -> Pictures]
  /\ pending \in SUBSET Sessions
  /\ handling \in Requests \cup {Nothing}
  /\ pc \in [Threads -> {"idle", "notify", "wake"}]
  /\ quoted \in [Threads -> Instruments]
  /\ waking \in [Threads -> SUBSET Sessions]
  /\ asked \in SUBSET Sessions
  /\ view \in [Sessions -> Pictures]

Init ==
  /\ Mirror!Init
  /\ subscribers = [i \in Instruments |-> {}]
  /\ last_sent = [s \in Sessions |-> Blank]
  /\ pending = {}
  /\ handling = Nothing
  /\ pc = [t \in Threads |-> "idle"]
  /\ quoted \in [Threads -> Instruments]
  /\ waking = [t \in Threads |-> {}]
  /\ asked = {}

-----------------------------------------------------------------------------
(* Differences *)

\* Variant: a field that has become null is left out.
ChangedValues(old, new) ==
  {f \in DOMAIN new : f \notin DOMAIN old \/ new[f] \notin {old[f], "null"}}

\* ComputeJsonDiff() on two quotes: the fields that are new or have changed.
Changed(old, new) == {f \in DOMAIN new : f \notin DOMAIN old \/ new[f] # old[f]}

\* ComputeJsonDiff() on two messages.  A quote that is gone leaves no trace.
Diff(old, new) ==
  [k \in {k \in Keys : Changed(old[k], new[k]) # {}} |->
     [f \in Changed(old[k], new[k]) |-> new[k][f]]]

\* External: what a client makes of an answer.
Merge(picture, diff) ==
  [k \in Keys |->
     IF k \notin DOMAIN diff THEN picture[k]
     ELSE [f \in DOMAIN picture[k] \cup DOMAIN diff[k] |->
             IF f \in DOMAIN diff[k] THEN diff[k][f] ELSE picture[k][f]]]

-----------------------------------------------------------------------------
(* handle_peek_message(), for session s when the clients in waiting wait *)

\* Variant: only the first message is remembered.
SendKeepingFirst(s, waiting) ==
  LET diff == Diff(last_sent[s], Full(subscriptions[s])) IN
  /\ DOMAIN diff # {}
  /\ view' = [view EXCEPT ![s] = Merge(@, diff)]
  /\ last_sent' = IF last_sent[s] = Blank
                  THEN [last_sent EXCEPT ![s] = Full(subscriptions[s])] ELSE last_sent
  /\ asked' = waiting \ {s}
  /\ UNCHANGED pending

\* Variant: the difference is remembered in place of the full message.
SendKeepingDiff(s, waiting) ==
  LET diff == Diff(last_sent[s], Full(subscriptions[s])) IN
  /\ DOMAIN diff # {}
  /\ view' = [view EXCEPT ![s] = Merge(@, diff)]
  /\ last_sent' = [last_sent EXCEPT ![s] = diff]
  /\ asked' = waiting \ {s}
  /\ UNCHANGED pending

Send(s, waiting) ==
  LET diff == Diff(last_sent[s], Full(subscriptions[s])) IN
  /\ DOMAIN diff # {}
  /\ view' = [view EXCEPT ![s] = Merge(@, diff)]
  /\ last_sent' = [last_sent EXCEPT ![s] = Full(subscriptions[s])]
  /\ asked' = waiting \ {s}
  /\ UNCHANGED pending

Uncached(s) == \A i \in subscriptions[s] : cache[i] = NoQuote

\* send_empty_rtn_data(), which is not remembered.
SendEmpty(s, waiting) ==
  /\ subscriptions[s] # {} /\ Uncached(s)
  /\ asked' = waiting \ {s}
  /\ UNCHANGED <<last_sent, pending, view>>

\* Variant: a session that was woken for nothing is not suspended again.
SuspendOnce(s, waiting) ==
  /\ ~Uncached(s)
  /\ DOMAIN Diff(last_sent[s], Full(subscriptions[s])) = {}
  /\ pending' = IF s \in asked THEN pending ELSE pending \cup {s}
  /\ asked' = waiting
  /\ UNCHANGED <<last_sent, view>>

Suspend(s, waiting) ==
  /\ ~Uncached(s)
  /\ DOMAIN Diff(last_sent[s], Full(subscriptions[s])) = {}
  /\ pending' = pending \cup {s}
  /\ asked' = waiting
  /\ UNCHANGED <<last_sent, view>>

HandlePeek(s, waiting) ==
  \/ Send(s, waiting)
  \/ SendEmpty(s, waiting)
  \/ Suspend(s, waiting)
  \/ /\ subscriptions[s] = {}
     /\ asked' = waiting
     /\ UNCHANGED <<last_sent, pending, view>>

-----------------------------------------------------------------------------
(* Callback threads *)

\* OnRtnDepthMarketData(): the quote is cached.  Any instrument may be quoted
\* at any time, for sessions other than Sessions.
CacheQuote(t, i, q) ==
  /\ pc[t] = "idle"
  /\ cache' = [cache EXCEPT ![i] = q]
  /\ pc' = [pc EXCEPT ![t] = "notify"]
  /\ quoted' = [quoted EXCEPT ![t] = i]
  /\ UNCHANGED <<tables, poll, handling, waking>>

\* notify_pending_sessions(), under subscribers_mutex_ and pending_peek_mutex_.
Notify(t) ==
  /\ pc[t] = "notify"
  /\ LET found == subscribers[quoted[t]] \cap pending IN
     /\ pending' = pending \ found
     /\ waking' = [waking EXCEPT ![t] = found]
     /\ pc' = [pc EXCEPT ![t] = IF found = {} THEN "idle" ELSE "wake"]
  /\ UNCHANGED <<cache, tables, last_sent, asked, view, handling, quoted>>

\* Variant: the first session is woken and the others are forgotten.
WakeFirst(t, s) ==
  /\ s \in waking[t]
  /\ HandlePeek(s, asked)
  /\ waking' = [waking EXCEPT ![t] = {}]
  /\ pc' = [pc EXCEPT ![t] = "idle"]
  /\ UNCHANGED <<cache, tables, handling, quoted>>

\* Its loop, without those mutexes.
Wake(t, s) ==
  /\ s \in waking[t]
  /\ HandlePeek(s, asked)
  /\ waking' = [waking EXCEPT ![t] = @ \ {s}]
  /\ pc' = [pc EXCEPT ![t] = IF waking[t] = {s} THEN "idle" ELSE "wake"]
  /\ UNCHANGED <<cache, tables, handling, quoted>>

-----------------------------------------------------------------------------
(* Requests, on the io thread *)

Peek(s) ==
  /\ handling = Nothing
  /\ Patient => subscriptions[s] # {}
  /\ HandlePeek(s, asked \cup {s})
  /\ UNCHANGED <<cache, tables, handling, threadVars>>

\* aid subscribe_quote gives the instrument the name n for everybody; action
\* subscribe gives it none.
SubscribeBegin(s, i, n) ==
  /\ handling = Nothing
  /\ Patient => s \notin asked
  /\ subscriptions' = [subscriptions EXCEPT ![s] = @ \cup {i}]
  /\ names' = [names EXCEPT ![i] = n]
  /\ handling' = <<"subscribe", s, i>>
  /\ UNCHANGED <<cache, subscribers, poll, threadVars>>

\* Variant: the dispatcher knows the session, instrument_subscribers_ does not.
SubscribeEndWithoutTable(s, i) ==
  /\ handling = <<"subscribe", s, i>>
  /\ handling' = Nothing
  /\ UNCHANGED <<cache, tables, poll, threadVars>>

SubscribeEnd(s, i) ==
  /\ handling = <<"subscribe", s, i>>
  /\ subscribers' = [subscribers EXCEPT ![i] = @ \cup {s}]
  /\ handling' = Nothing
  /\ UNCHANGED <<cache, subscriptions, names, poll, threadVars>>

UnsubscribeBegin(s, i) ==
  /\ handling = Nothing
  /\ Patient => s \notin asked
  /\ subscriptions' = [subscriptions EXCEPT ![s] = @ \ {i}]
  /\ handling' = <<"unsubscribe", s, i>>
  /\ UNCHANGED <<cache, names, subscribers, poll, threadVars>>

UnsubscribeEnd(s, i) ==
  /\ handling = <<"unsubscribe", s, i>>
  /\ subscribers' = [subscribers EXCEPT ![i] = @ \ {s}]
  /\ handling' = Nothing
  /\ UNCHANGED <<cache, subscriptions, names, poll, threadVars>>

-----------------------------------------------------------------------------

ThreadStep(t) == Notify(t) \/ \E s \in Sessions : Wake(t, s)

IoStep ==
  \E s \in Sessions, i \in Instruments : SubscribeEnd(s, i) \/ UnsubscribeEnd(s, i)

SessionStep(s) ==
  \/ Peek(s)
  \/ \E i \in Instruments :
       UnsubscribeBegin(s, i) \/ \E n \in Names : SubscribeBegin(s, i, n)

Next ==
  \/ \E t \in Threads :
       ThreadStep(t) \/ \E i \in Instruments, q \in Quote : CacheQuote(t, i, q)
  \/ IoStep
  \/ \E s \in Sessions : SessionStep(s)

Spec == Init /\ [][Next]_vars

\* A callback thread inside cache_market_data() and the io thread go on.
FairSpec ==
  /\ Spec
  /\ \A t \in Threads : WF_vars(ThreadStep(t))
  /\ WF_vars(IoStep)

-----------------------------------------------------------------------------
(* Properties *)

\* The client's picture and the server's memory of it agree: what the last
\* full message had under a name, a client that merged every difference has
\* there too, whatever was unsubscribed, subscribed again or renamed between.
PictureIsLastSent ==
  \A s \in Sessions, k \in Keys :
    last_sent[s][k] # NoQuote => view[s][k] = last_sent[s][k]

\* Every answer brings a client's picture, at once and for all its
\* instruments, up to the cache.
MirrorSpec == Mirror!Spec

\* The last full message to s had the quote of i that the cache has now.
Seen(s, i) == \E n \in Names : last_sent[s][<<i, n>>] = cache[i]

\* A callback thread has cached i and will find s among its subscribers.
OnItsWay(s, i) ==
  /\ s \in subscribers[i]
  /\ \E t \in Threads : pc[t] = "notify" /\ quoted[t] = i

\* No wake-up is lost: a client waits only while the cache has nothing new for
\* it, or a callback thread is about to look for it.  Peeks, quotes and
\* wake-ups of several threads may come in any order.
NoLostWakeup ==
  \A s \in asked \cap pending : \A i \in subscriptions[s] :
    cache[i] = NoQuote \/ Seen(s, i) \/ OnItsWay(s, i)

\* A client that waits is not forgotten: it is pending, or a callback thread
\* has taken it out to peek for it ("the server suspends the request").
PeekIsRemembered ==
  \A s \in asked : s \in pending \/ \E t \in Threads : s \in waking[t]

Behind(s) == \E i \in subscriptions[s] : cache[i] # NoQuote /\ ~Seen(s, i)

\* No client waits for ever while the cache has something new for it.
NewsIsDelivered ==
  \A s \in Sessions :
    s \in asked /\ Behind(s) ~> ~(s \in asked /\ Behind(s))
=============================================================================
