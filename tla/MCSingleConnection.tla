-------------------------- MODULE MCSingleConnection --------------------------
(***************************************************************************)
(* SingleConnection with bounds for TLC.                                   *)
(*   MaxRequests  no session acts while that many requests are unanswered  *)
(*   MaxConnects  how often the front is connected                         *)
(***************************************************************************)
EXTENDS SingleConnection, TLC

CONSTANTS MaxRequests, MaxConnects

Symmetry == Permutations(Instruments) \cup Permutations(Sessions)

MCNext ==
  \/ connects < MaxConnects /\ OnFrontConnected
  \/ CtpLogin \/ CtpLoginSent \/ OnFrontDisconnected
  \/ LoginHandled
  \/ \E i \in Instruments :
       \/ FrontStep(i)
       \/ Len(requests) < MaxRequests /\ \E s \in Sessions : SessionStep(s, i)

MCSpec == Init /\ [][MCNext]_vars
================================================================================
