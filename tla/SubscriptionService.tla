-------------------------- MODULE SubscriptionService --------------------------
(***************************************************************************)
(* What the gateway promises its sessions about subscriptions, without     *)
(* mutexes, threads, requests, answers or retries: who wants an            *)
(* instrument, how it is served, and which connection carries it.          *)
(* SubscriptionDispatcher implements it with a pool of connections and     *)
(* SingleConnection with one.                                              *)
(*                                                                         *)
(* "serving": asked of CTP and not known to have failed.  "failed": wanted, *)
(* but the request was refused, could not be made or was lost.             *)
(***************************************************************************)
EXTENDS Naturals, FiniteSets

CONSTANTS
  Connections, Instruments, Sessions,
  Capacity            \* instruments one connection may carry

VARIABLES
  wanted,             \* instrument -> the sessions that want it
  service,            \* instrument -> how it is served
  carried             \* connection -> the instruments it carries

serviceVars == <<wanted, service, carried>>

Services == {"none", "serving", "failed"}

Init ==
  /\ wanted = [i \in Instruments |-> {}]
  /\ service = [i \in Instruments |-> "none"]
  /\ carried = [c \in Connections |-> {}]

\* A connection takes i on, if it does not carry it already and has room.
Carry(c, i) ==
  /\ i \in carried[c] \/ Cardinality(carried[c]) < Capacity
  /\ carried' = [carried EXCEPT ![c] = @ \cup {i}]

Becomes(I, s) ==
  service' = [i \in Instruments |-> IF i \in I THEN s ELSE service[i]]

\* A session joins the others, or is the first and has the instrument asked
\* for, if that is possible.
Join(s, i) ==
  /\ wanted' = [wanted EXCEPT ![i] = @ \cup {s}]
  /\ \/ service[i] # "none" /\ UNCHANGED <<service, carried>>
     \/ service[i] = "none" /\ Becomes({i}, "failed") /\ UNCHANGED carried
     \/ service[i] = "none" /\ Becomes({i}, "serving") /\ \E c \in Connections : Carry(c, i)

\* Only with the last session does a connection stop carrying the instrument;
\* where telling CTP fails it does not even then.
Leave(s, i) ==
  /\ s \in wanted[i]
  /\ wanted' = [wanted EXCEPT ![i] = @ \ {s}]
  /\ \/ wanted[i] # {s} /\ UNCHANGED <<service, carried>>
     \/ /\ wanted[i] = {s}
        /\ Becomes({i}, "none")
        /\ \/ UNCHANGED carried
           \/ \E c \in Connections : carried' = [carried EXCEPT ![c] = @ \ {i}]

\* Requests are refused, or the connection they were served by fails.
Fail(I) ==
  /\ \A i \in I : service[i] = "serving"
  /\ Becomes(I, "failed")
  /\ UNCHANGED <<wanted, carried>>

\* Another connection, or the same one again, takes over.
Rescue(c, i) ==
  /\ service[i] = "failed"
  /\ Becomes({i}, "serving")
  /\ Carry(c, i)
  /\ UNCHANGED wanted

\* A late answer: an instrument counted as failed is served after all.
Confirm(i) ==
  /\ service[i] = "failed"
  /\ Becomes({i}, "serving")
  /\ UNCHANGED <<wanted, carried>>

\* Only what failed is ever given up, and then for all who wanted it.
GiveUp(I) ==
  /\ \A i \in I : service[i] = "failed"
  /\ Becomes(I, "none")
  /\ wanted' = [i \in Instruments |-> IF i \in I THEN {} ELSE wanted[i]]
  /\ UNCHANGED carried

\* A connection loses all it carries, and what is known to be lost has failed.
Lose(c, I) ==
  /\ carried' = [carried EXCEPT ![c] = {}]
  /\ \A i \in I : service[i] = "serving"
  /\ Becomes(I, "failed")
  /\ UNCHANGED wanted

Next ==
  \/ \E i \in Instruments :
       \/ \E s \in Sessions : Join(s, i) \/ Leave(s, i)
       \/ \E c \in Connections : Rescue(c, i)
       \/ Confirm(i)
  \/ \E I \in SUBSET Instruments :
       \/ Fail(I)
       \/ GiveUp(I)
       \/ \E c \in Connections : Lose(c, I)

Spec == Init /\ [][Next]_serviceVars

================================================================================
