----------------------- MODULE SubscriptionService_proofs -----------------------
(***************************************************************************)
(* What the abstract service promises, for any number of sessions,         *)
(* connections and instruments.  What implements the service promises the  *)
(* same: see DispatcherService_proofs and SingleConnection_proofs.         *)
(***************************************************************************)
EXTENDS SubscriptionService, FiniteSetTheorems, TLAPS

ServiceTypeOK ==
  /\ wanted \in [Instruments -> SUBSET Sessions]
  /\ service \in [Instruments -> Services]
  /\ carried \in [Connections -> SUBSET Instruments]

\* What somebody wants is served or has failed; nothing is served to nobody.
WantedIsServed == \A i \in Instruments : wanted[i] = {} <=> service[i] = "none"

CapacityRespected == \A c \in Connections : Cardinality(carried[c]) <= Capacity

\* A connection stops carrying an instrument with everything else it carried,
\* or when nobody wants the instrument any more.
DropsWithTheLast ==
  \A c \in Connections : \A i \in carried[c] : i \notin carried'[c] =>
    carried'[c] = {} \/ (service[i] # "none" /\ service'[i] = "none")

\* Types, and that exactly what is wanted has a service.
THEOREM ServiceIsFounded == Spec => [](ServiceTypeOK /\ WantedIsServed)
<1> DEFINE Inv == ServiceTypeOK /\ WantedIsServed
<1> USE DEF ServiceTypeOK, WantedIsServed, Services
<1>1. Init => Inv
  BY DEF Init
<1>2. Inv /\ [Next]_serviceVars => Inv'
  <2> SUFFICES ASSUME Inv, [Next]_serviceVars PROVE Inv'
    OBVIOUS
  <2>1. CASE UNCHANGED serviceVars
    BY <2>1 DEF serviceVars
  <2>2. ASSUME NEW i \in Instruments, NEW s \in Sessions, Join(s, i) PROVE Inv'
    BY <2>2 DEF Join, Becomes, Carry
  <2>3. ASSUME NEW i \in Instruments, NEW s \in Sessions, Leave(s, i) PROVE Inv'
    BY <2>3 DEF Leave, Becomes
  <2>4. ASSUME NEW i \in Instruments, NEW c \in Connections, Rescue(c, i) PROVE Inv'
    BY <2>4 DEF Rescue, Becomes, Carry
  <2>5. ASSUME NEW i \in Instruments, Confirm(i) PROVE Inv'
    BY <2>5 DEF Confirm, Becomes
  <2>6. ASSUME NEW I \in SUBSET Instruments,
               Fail(I) \/ GiveUp(I) \/ \E c \in Connections : Lose(c, I)
        PROVE  Inv'
    BY <2>6 DEF Fail, GiveUp, Lose, Becomes
  <2>7. QED
    BY <2>1, <2>2, <2>3, <2>4, <2>5, <2>6 DEF Next
<1>3. QED
  BY <1>1, <1>2, PTL DEF Spec

\* No connection carries more than it may.
THEOREM ServiceRespectsCapacity ==
  ASSUME Capacity \in Nat, IsFiniteSet(Instruments)
  PROVE  Spec => []CapacityRespected
<1>1. Init => CapacityRespected
  BY FS_EmptySet DEF Init, CapacityRespected
<1>2. ServiceTypeOK /\ CapacityRespected /\ [Next]_serviceVars => CapacityRespected'
  <2> SUFFICES ASSUME ServiceTypeOK, CapacityRespected, [Next]_serviceVars,
                      NEW c \in Connections
               PROVE  Cardinality(carried'[c]) <= Capacity
    BY DEF CapacityRespected
  <2>1. carried \in [Connections -> SUBSET Instruments]
    BY DEF ServiceTypeOK
  <2>2. IsFiniteSet(carried[c]) /\ Cardinality(carried[c]) \in Nat
    BY <2>1, FS_Subset, FS_CardinalityType
  <2>3. CASE carried'[c] \subseteq carried[c]
    <3>1. Cardinality(carried'[c]) <= Cardinality(carried[c])
      BY <2>2, <2>3, FS_Subset
    <3>2. Cardinality(carried'[c]) \in Nat
      BY <2>2, <2>3, FS_Subset, FS_CardinalityType
    <3>3. QED
      BY <2>2, <3>1, <3>2 DEF CapacityRespected
  <2>4. CASE \E i \in Instruments, d \in Connections : Carry(d, i)
    <3>1. PICK i \in Instruments, d \in Connections : Carry(d, i)
      BY <2>4
    <3>2. \/ carried'[c] = carried[c]
          \/ /\ d = c /\ i \notin carried[c] /\ Cardinality(carried[c]) < Capacity
             /\ carried'[c] = carried[c] \cup {i}
      BY <2>1, <3>1 DEF Carry
    <3>3. i \notin carried[c] => Cardinality(carried[c] \cup {i}) = Cardinality(carried[c]) + 1
      BY <2>2, FS_AddElement
    <3>4. QED
      BY <2>2, <3>2, <3>3 DEF CapacityRespected
  <2>5. QED
    BY <2>1, <2>3, <2>4
       DEF Next, Join, Leave, Rescue, Confirm, Fail, GiveUp, Lose, serviceVars
<1>3. QED
  BY <1>1, <1>2, ServiceIsFounded, PTL DEF Spec

\* Carrying ends with the last claim, or with the connection.
THEOREM DropsAreWithTheLast == Spec => [][DropsWithTheLast]_serviceVars
<1>1. ServiceTypeOK /\ WantedIsServed /\ [Next]_serviceVars => [DropsWithTheLast]_serviceVars
  <2> SUFFICES ASSUME ServiceTypeOK, WantedIsServed, Next,
                      NEW c \in Connections, NEW i \in carried[c], i \notin carried'[c]
               PROVE  carried'[c] = {} \/ (service[i] # "none" /\ service'[i] = "none")
    BY DEF DropsWithTheLast
  <2> USE DEF ServiceTypeOK, WantedIsServed
  <2>1. ASSUME NEW k \in Instruments, NEW d \in Connections, Carry(d, k) PROVE FALSE
    BY <2>1 DEF Carry
  <2>2. ASSUME NEW k \in Instruments, NEW s \in Sessions, Leave(s, k)
        PROVE  service[i] # "none" /\ service'[i] = "none"
    <3>1. k = i /\ wanted[i] = {s} /\ service'[i] = "none"
      BY <2>2 DEF Leave, Becomes
    <3>2. QED
      BY <3>1
  <2>3. ASSUME NEW I \in SUBSET Instruments, NEW d \in Connections, Lose(d, I)
        PROVE  carried'[c] = {}
    BY <2>3 DEF Lose
  <2>4. QED
    BY <2>1, <2>2, <2>3 DEF Next, Join, Rescue, Confirm, Fail, GiveUp
<1>2. QED
  BY <1>1, ServiceIsFounded, PTL DEF Spec

=============================================================================
