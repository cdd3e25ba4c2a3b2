--------------------------- MODULE MCCTPConnection ---------------------------
(***************************************************************************)
(* CTPConnection with bounds for TLC.                                      *)
(*   MaxRequests  no caller acts on a connection with that many requests   *)
(*                unanswered                                               *)
(*   MaxFaults    steps taken by something outside the program that went   *)
(*                wrong, of the kinds in FaultKinds                        *)
(***************************************************************************)
EXTENDS CTPConnection, TLC

CONSTANTS MaxRequests, MaxFaults, FaultKinds

VARIABLE faults

mcVars == <<connVars, faults>>

Symmetry == Permutations(Connections) \cup Permutations(Instruments)

Fault(kind) ==
  /\ kind \in FaultKinds
  /\ faults < MaxFaults
  /\ faults' = faults + 1

MCInit == Init /\ faults = 0

Quiet(c) ==
  /\ UNCHANGED faults
  /\ \/ "restart" \in FaultKinds /\ Restart(c)
     \/ OnFrontConnected(c)
     \/ LoggedIn(c)
     \/ \E i \in Instruments :
          \/ Len(requests[c]) < MaxRequests /\ Call(c, i)
          \/ Subscribed(c, i)
          \/ Unsubscribed(c, i)

Faulty(c) ==
  \/ Fault("disconnect") /\ OnFrontDisconnected(c)
  \/ Fault("login") /\ LoginRejected(c)
  \/ Fault("errors") /\ TooManyErrors(c)
  \/ Fault("reject") /\ \E i \in Instruments : SubscribeRejected(c, i)
  \/ Fault("keep") /\ \E i \in Instruments : UnsubscribeRejected(c, i)

MCNext == \E c \in Connections : Quiet(c) \/ Faulty(c)

MCSpec == MCInit /\ [][MCNext]_mcVars

\* The health thread and the callback threads run, and the front lets a
\* connection connect and log in.  Nothing is assumed of the callers.
FairSpec ==
  /\ MCSpec
  /\ \A c \in Connections :
       /\ WF_mcVars(Restart(c) /\ UNCHANGED faults)
       /\ WF_mcVars(OnFrontConnected(c) /\ UNCHANGED faults)
       /\ WF_mcVars(LoggedIn(c) /\ UNCHANGED faults)

\* A pool in which the front now and then rejects a login is in the end
\* logged in on every connection, in a session that is really open, and stays
\* so: the health check finds each rejected connection and its restart brings
\* it back.
Recovers ==
  <>[](\A c \in Connections : status[c] = "LOGGED_IN" /\ front[c] = "open")
=============================================================================
