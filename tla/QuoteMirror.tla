----------------------------- MODULE QuoteMirror -----------------------------
(***************************************************************************)
(* What the long poll promises its clients, with no word of how: a client  *)
(* that merges every answer into its picture now and then has, at once and *)
(* for all its instruments, exactly the quotes of the cache.               *)
(***************************************************************************)

CONSTANTS
  Sessions, Instruments,
  Names,     \* what an instrument may be called, with or without exchange
  Plain,     \* without
  Fields, Values

VARIABLES
  cache,          \* instrument -> its latest quote
  names,          \* instrument -> what it is called in answers
  subscriptions,  \* session -> instruments
  view            \* client -> its picture: what it has under every name

mirrorVars == <<cache, names, subscriptions, view>>

\* A quote has all fields; where there is none yet, it has no field.
Quote == [Fields -> Values]
NoQuote == [f \in {} |-> f]

Keys == Instruments \X Names

\* The quotes of the instruments in wanted under their present names.
Full(wanted) ==
  [k \in Keys |-> IF k[1] \in wanted /\ k[2] = names[k[1]] THEN cache[k[1]] ELSE NoQuote]

Init ==
  /\ cache = [i \in Instruments |-> NoQuote]
  /\ names = [i \in Instruments |-> Plain]
  /\ subscriptions = [s \in Sessions |-> {}]
  /\ view = [s \in Sessions |-> [k \in Keys |-> NoQuote]]

Arrive(i, q) ==
  /\ cache' = [cache EXCEPT ![i] = q]
  /\ UNCHANGED <<names, subscriptions, view>>

Change(s, wanted) ==
  /\ subscriptions' = [subscriptions EXCEPT ![s] = wanted]
  /\ names' \in [Instruments -> Names]
  /\ UNCHANGED <<cache, view>>

\* What the client has under names that the answer does not use stays.
Deliver(s) ==
  /\ view' = [view EXCEPT ![s] = [k \in Keys |->
                IF Full(subscriptions[s])[k] = NoQuote THEN view[s][k]
                ELSE Full(subscriptions[s])[k]]]
  /\ UNCHANGED <<cache, names, subscriptions>>

Next ==
  \/ \E i \in Instruments, q \in Quote : Arrive(i, q)
  \/ \E s \in Sessions : Deliver(s) \/ \E wanted \in SUBSET Instruments : Change(s, wanted)

Spec == Init /\ [][Next]_mirrorVars
=============================================================================
