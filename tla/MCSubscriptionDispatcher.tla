----------------------- MODULE MCSubscriptionDispatcher -----------------------
(***************************************************************************)
(* SubscriptionDispatcher with bounds for TLC.                             *)
(*   MaxRequests  no session acts while a connection has that many         *)
(*                requests unanswered                                      *)
(*   MaxFaults    steps taken by something outside the program that went   *)
(*                wrong, of the kinds in FaultKinds                        *)
(***************************************************************************)
EXTENDS SubscriptionDispatcher, TLC

CONSTANTS MaxRequests, MaxFaults, FaultKinds

VARIABLE faults

mcVars == <<vars, faults>>

Symmetry ==
  Permutations(Connections) \cup Permutations(Instruments) \cup Permutations(Sessions)

Fault(kind) ==
  /\ kind \in FaultKinds
  /\ faults < MaxFaults
  /\ faults' = faults + 1

MCInit == Init /\ faults = 0

SessionActs(s) ==
  /\ \A c \in Connections : Len(requests[c]) < MaxRequests
  /\ SessionStep(s)

FrontActs(c) ==
  \/ FrontConnected(c)
  \/ ConnectionRecovered(c)
  \/ \E i \in Instruments : SubscriptionSuccess(c, i) \/ UnsubscriptionSuccess(c, i)

ServerActs ==
  \/ \E t \in Threads : ThreadStep(t)
  \/ Cleanup
  \/ \E c \in Connections : HealthRestart(c) /\ "restart" \in FaultKinds

MCNext ==
  \/ /\ UNCHANGED faults
     /\ \/ \E s \in Sessions : SessionActs(s)
        \/ \E c \in Connections : FrontActs(c)
        \/ ServerActs
        \/ MaintenanceDue
  \/ \E c \in Connections :
       \/ Fault("disconnect") /\ ConnectionLost(c)
       \/ Fault("login") /\ LoginFailed(c)
       \/ Fault("errors") /\ ErrorStorm(c)
       \/ Fault("heartbeat") /\ HeartbeatTimeout(c)
       \/ Fault("reject") /\ \E i \in Instruments : SubscriptionFailed(c, i)
       \/ Fault("keep") /\ \E i \in Instruments : UnsubscriptionFailed(c, i)

MCSpec == MCInit /\ [][MCNext]_mcVars

\* Whatever goes wrong, it strikes nothing that carries something.
UndisturbedSpec == MCInit /\ [][MCNext /\ Undisturbed]_mcVars

\* The threads of the server run, and the front answers.  Nothing is assumed
\* of the sessions, of the maintenance timer, or of what goes wrong.
FairSpec ==
  /\ MCSpec
  /\ \A t \in Threads : WF_mcVars(ThreadStep(t) /\ UNCHANGED faults)
  /\ WF_mcVars(Cleanup /\ UNCHANGED faults)
=============================================================================
