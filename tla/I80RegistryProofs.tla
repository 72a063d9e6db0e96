-------------------------- MODULE I80RegistryProofs --------------------------
(***************************************************************************)
(* For any device tree: whatever check or call fails for a node, the       *)
(* references to the master and to the nodes are in balance; a device that *)
(* is added shares no address with one on the bus that is as large, and    *)
(* devices of one size none at all, unless a chip is always selected.      *)
(* I80RegistryMixed.cfg shows that the sizes matter.                       *)
(***************************************************************************)
EXTENDS I80Registry, FiniteSetTheorems, TLAPS

\* Every device has the same number of addresses, and they are its own.
SameSize == \A n, m \in Nodes : n.size = m.size /\ Ordinary(n)

-----------------------------------------------------------------------------
(* The visit of the nodes: what is allocated is not on the bus yet, and only  *)
(* a registered master has devices.                                           *)
Registered == {"visiting", "bound", "unregister"}

Visits ==
  /\ devices # {} => master \in Registered
  /\ todo # {} => master = "visiting"
  /\ current # None => master = "visiting" /\ current \notin devices \cup todo
  /\ todo \cap devices = {}

IInv == TypeOK /\ Visits /\ MasterReferences /\ NodesHeld

LEMMA DevicesFinite ==
  ASSUME NEW S \in SUBSET Nodes
  PROVE  IsFiniteSet(S) /\ Cardinality(S) \in Nat
  BY NodeAssumption, FS_Subset, FS_CardinalityType

LEMMA InitIInv == Init => IInv
<1> SUFFICES ASSUME Init PROVE IInv
  OBVIOUS
<1>1. TypeOK
  <2>1. number \in BOOLEAN
    BY Zenon DEF Init
  <2>2. nodeRefs \in [Nodes -> Nat] /\ binds \in 0 .. MaxBinds
    BY NodeAssumption DEF Init
  <2> QED BY <2>1, <2>2 DEF Init, TypeOK
<1>2. Cardinality({}) = 0
  BY FS_EmptySet
<1>3. MasterReferences
  BY <1>2 DEF Init, MasterReferences
<1> QED BY <1>1, <1>3 DEF Init, IInv, Visits, NodesHeld, TypeOK

\* What is put was got: the numbers of references stay natural.
LEMMA StepTypes == IInv /\ [Next]_vars => TypeOK'
<1> SUFFICES ASSUME IInv, [Next]_vars PROVE TypeOK'
  OBVIOUS
<1> USE DEF IInv, TypeOK
<1>1. Cardinality(devices) \in Nat
  BY DevicesFinite
<1>2. ASSUME PutCurrent, current # None PROVE masterRefs' \in Nat
  BY <1>1, <1>2 DEF PutCurrent, MasterReferences, Visits
<1>3. CASE TakeNumber
  BY <1>3, NodeAssumption DEF TakeNumber
<1>4. CASE AddMaster \/ AddMasterFails \/ EndVisit
  BY <1>4 DEF AddMaster, AddMasterFails, EndVisit
<1>12. CASE FreeNumber
  <2>1. number' \in BOOLEAN
    BY <1>12, Zenon DEF FreeNumber
  <2> QED BY <1>12, <2>1 DEF FreeNumber
<1>5. ASSUME NEW n \in Nodes, AllocDevice(n) \/ AllocFails(n) PROVE TypeOK'
  BY <1>5 DEF AllocDevice, AllocFails
<1>6. CASE Reject
  BY <1>6, <1>2 DEF Reject, PutCurrent
<1>7. CASE AddFails
  BY <1>7, <1>2 DEF AddFails, PutCurrent
<1>8. CASE AddDevice
  BY <1>8 DEF AddDevice
<1>9. ASSUME NEW n \in Nodes, UnregisterDevice(n) PROVE TypeOK'
  <2>1. nodeRefs[n] - 1 \in Nat
    BY <1>9 DEF UnregisterDevice, NodesHeld
  <2>2. masterRefs - 1 \in Nat
    BY <1>9, <1>1 DEF UnregisterDevice, MasterReferences, Visits
  <2> QED BY <1>9, <2>1, <2>2 DEF UnregisterDevice
<1>10. CASE UnregisterMaster
  <2>1. masterRefs - 1 \in Nat
    BY <1>10, <1>1 DEF UnregisterMaster, MasterReferences, Visits
  <2> QED BY <1>10, <2>1 DEF UnregisterMaster
<1>11. CASE UNCHANGED vars
  BY <1>11 DEF vars
<1> QED BY <1>3, <1>4, <1>5, <1>6, <1>7, <1>8, <1>9, <1>10, <1>11, <1>12 DEF Next

LEMMA StepVisits == IInv /\ [Next]_vars => Visits'
<1> SUFFICES ASSUME IInv, [Next]_vars PROVE Visits'
  OBVIOUS
<1> USE NodeAssumption DEF IInv, TypeOK, Visits, Registered
<1>1. CASE TakeNumber \/ AddMaster \/ AddMasterFails
  BY <1>1 DEF TakeNumber, AddMaster, AddMasterFails
<1>2. ASSUME NEW n \in Nodes, AllocDevice(n) PROVE Visits'
  BY <1>2 DEF AllocDevice
<1>3. ASSUME NEW n \in Nodes, AllocFails(n) PROVE Visits'
  BY <1>3 DEF AllocFails
<1>4. CASE Reject \/ AddFails
  BY <1>4 DEF Reject, AddFails, PutCurrent
<1>5. CASE AddDevice
  BY <1>5 DEF AddDevice
<1>6. CASE EndVisit \/ FreeNumber \/ UnregisterMaster
  BY <1>6 DEF EndVisit, FreeNumber, UnregisterMaster
<1>7. ASSUME NEW n \in Nodes, UnregisterDevice(n) PROVE Visits'
  BY <1>7 DEF UnregisterDevice
<1>8. CASE UNCHANGED vars
  BY <1>8 DEF vars
<1> QED BY <1>1, <1>2, <1>3, <1>4, <1>5, <1>6, <1>7, <1>8 DEF Next

LEMMA StepMasterReferences == IInv /\ [Next]_vars => MasterReferences'
<1> SUFFICES ASSUME IInv, [Next]_vars PROVE MasterReferences'
  OBVIOUS
<1> DEFINE n0 == Cardinality(devices)
<1>1. IsFiniteSet(devices) /\ n0 \in Nat
  BY DevicesFinite DEF IInv, TypeOK
<1>2. devices = {} => n0 = 0
  BY FS_EmptySet
<1>3. current # None => Cardinality(devices \cup {current}) = n0 + 1
  BY <1>1, FS_AddElement DEF IInv, Visits
<1>4. \A n \in devices : Cardinality(devices \ {n}) = n0 - 1
  BY <1>1, FS_RemoveElement
<1>5. masterRefs = n0 + (IF current = None THEN 0 ELSE 1)
                   + (IF master \in Registered THEN 1 ELSE 0)
  BY DEF IInv, MasterReferences, Registered
<1>6. ASSUME devices' = devices PROVE Cardinality(devices') = n0
  BY <1>6
<1> HIDE DEF n0
<1> SUFFICES masterRefs' = Cardinality(devices') + (IF current' = None THEN 0 ELSE 1)
                            + (IF master' \in Registered THEN 1 ELSE 0)
  BY DEF MasterReferences, Registered
<1> USE <1>1 DEF IInv, TypeOK, Visits, Registered
<1>7. CASE TakeNumber \/ AddMasterFails \/ EndVisit \/ FreeNumber
  BY <1>7, <1>5, <1>6 DEF TakeNumber, AddMasterFails, EndVisit, FreeNumber
<1>8. CASE AddMaster
  BY <1>8, <1>2, <1>5, <1>6 DEF AddMaster
<1>9. ASSUME NEW n \in Nodes, AllocDevice(n) \/ AllocFails(n)
      PROVE  masterRefs' = Cardinality(devices') + (IF current' = None THEN 0 ELSE 1)
                            + (IF master' \in Registered THEN 1 ELSE 0)
  BY <1>9, <1>5, <1>6, NodeAssumption DEF AllocDevice, AllocFails
<1>10. CASE Reject \/ AddFails
  BY <1>10, <1>5, <1>6 DEF Reject, AddFails, PutCurrent
<1>11. CASE AddDevice
  BY <1>11, <1>3, <1>5 DEF AddDevice
<1>12. ASSUME NEW n \in Nodes, UnregisterDevice(n)
       PROVE  masterRefs' = Cardinality(devices') + (IF current' = None THEN 0 ELSE 1)
                             + (IF master' \in Registered THEN 1 ELSE 0)
  BY <1>12, <1>4, <1>5 DEF UnregisterDevice
<1>13. CASE UnregisterMaster
  BY <1>13, <1>5, <1>6 DEF UnregisterMaster
<1>14. CASE UNCHANGED vars
  BY <1>14, <1>5, <1>6 DEF vars
<1> QED BY <1>7, <1>8, <1>9, <1>10, <1>11, <1>12, <1>13, <1>14 DEF Next

LEMMA StepNodesHeld == IInv /\ [Next]_vars => NodesHeld'
<1> SUFFICES ASSUME IInv, [Next]_vars PROVE NodesHeld'
  OBVIOUS
<1> USE DEF IInv, TypeOK, NodesHeld
<1>1. CASE AddFails
  BY <1>1 DEF AddFails, PutCurrent
<1>2. CASE AddDevice
  BY <1>2 DEF AddDevice
<1>3. ASSUME NEW n \in Nodes, UnregisterDevice(n) PROVE NodesHeld'
  BY <1>3 DEF UnregisterDevice
<1>4. ASSUME UNCHANGED <<devices, nodeRefs>> PROVE NodesHeld'
  BY <1>4
<1> QED
  BY <1>1, <1>2, <1>3, <1>4
  DEF Next, TakeNumber, AddMaster, AddMasterFails, AllocDevice, AllocFails, Reject, PutCurrent,
      EndVisit, FreeNumber, UnregisterMaster, vars

LEMMA IndInv == Spec => []IInv
<1>1. IInv /\ [Next]_vars => IInv'
  BY StepTypes, StepVisits, StepMasterReferences, StepNodesHeld DEF IInv
<1> QED BY InitIInv, <1>1, PTL DEF Spec

\* Every variable of the registration keeps its type: in particular nothing is put more
\* often than it was got.
THEOREM TypeCorrect == Spec => []TypeOK
<1>1. IInv => TypeOK
  BY DEF IInv
<1> QED BY IndInv, <1>1, PTL

\* i80_alloc_device, i80_dev_put and device_unregister: the references to a master are
\* its own, that of the device being checked and one for each device on the bus.
THEOREM MasterBalanced == Spec => []MasterReferences
<1>1. IInv => MasterReferences
  BY DEF IInv
<1> QED BY IndInv, <1>1, PTL

\* The device tree node of every device on the bus is held.
THEOREM NodesAlwaysHeld == Spec => []NodesHeld
<1>1. IInv => NodesHeld
  BY DEF IInv
<1> QED BY IndInv, <1>1, PTL

-----------------------------------------------------------------------------
(* Addresses.                                                                 *)

\* Multiples of s that differ are s apart.
LEMMA Apart ==
  ASSUME NEW s \in Nat \ {0}, NEW a \in Nat, NEW b \in Nat, a % s = 0, b % s = 0, a < b
  PROVE  a + s <= b
<1> DEFINE p == a \div s
           q == b \div s
<1>1. p \in Int /\ q \in Int /\ a = s * p /\ b = s * q
  OBVIOUS
<1> HIDE DEF p, q
<1>2. SUFFICES ASSUME q <= p PROVE FALSE
  <2>1. SUFFICES ASSUME p + 1 <= q PROVE a + s <= b
    BY <1>1, <1>2
  <2>2. s * (p + 1) <= s * q
    BY <1>1, <2>1
  <2> QED BY <1>1, <2>2
<1>3. s * q <= s * p
  BY <1>1, <1>2
<1> QED BY <1>1, <1>3

Placed ==
  /\ \A n \in devices : ~OverlapsOwnMask(n)
  /\ \A n, m \in devices : n # m => n.address # m.address

LEMMA IndPlaced == Spec => []Placed
<1>1. Init => Placed
  BY DEF Init, Placed
<1>2. TypeOK /\ Placed /\ [Next]_vars => Placed'
  <2> SUFFICES ASSUME TypeOK, Placed, [Next]_vars PROVE Placed'
    OBVIOUS
  <2>1. CASE AddDevice
    BY <2>1 DEF AddDevice, Placed, Sound, InUse, OverlapsOwnMask
  <2>2. ASSUME devices' \subseteq devices PROVE Placed'
    BY <2>2 DEF Placed, OverlapsOwnMask
  <2> QED
    BY <2>1, <2>2
    DEF Next, TakeNumber, AddMaster, AddMasterFails, AllocDevice, AllocFails, Reject, AddFails,
        PutCurrent, EndVisit, FreeNumber, UnregisterDevice, UnregisterMaster, vars
<1> QED BY <1>1, <1>2, TypeCorrect, PTL DEF Spec

\* Two devices of which the address of one is a multiple of the size of the other.
LEMMA MultiplesDisjoint ==
  ASSUME NEW n \in Nodes, NEW d \in Nodes, Ordinary(n), Ordinary(d),
         n.size <= d.size, n.address # d.address,
         n.address % d.size = 0, d.address % d.size = 0
  PROVE  Disjoint(n, d)
<1> DEFINE s == d.size
           k == n.size
           a == n.address
           b == d.address
<1>1. /\ s \in Nat \ {0} /\ k \in Nat \ {0} /\ a \in Nat /\ b \in Nat
      /\ k <= s /\ a # b /\ a % s = 0 /\ b % s = 0
  BY NodeAssumption DEF Ordinary
<1>2. Claimed(n) = a .. a + k - 1 /\ Claimed(d) = b .. b + s - 1
  BY DEF Claimed, Ordinary
<1> HIDE DEF s, k, a, b
<1>3. a + s <= b \/ b + s <= a
  <2>1. CASE a < b
    BY <1>1, <2>1, Apart
  <2>2. CASE b < a
    BY <1>1, <2>2, Apart
  <2> QED BY <1>1, <2>1, <2>2
<1>4. ~\E x \in Claimed(n) : x \in Claimed(d)
  BY <1>1, <1>2, <1>3
<1> QED BY <1>4 DEF Disjoint

\* i80_add_device, for any device tree: a device that is added shares no address with one
\* on the bus that has as many addresses or more, if neither is always selected.
THEOREM AddedAlwaysApart == Spec => AddedApart
<1> DEFINE Added == \A n \in devices' \ devices, d \in devices :
                      Ordinary(n) /\ Ordinary(d) /\ n.size <= d.size => Disjoint(n, d)
<1>1. TypeOK /\ Placed /\ [Next]_vars => [Added]_vars
  <2> SUFFICES ASSUME TypeOK, Placed, [Next]_vars,
                      NEW n \in devices' \ devices, NEW d \in devices,
                      Ordinary(n), Ordinary(d), n.size <= d.size
               PROVE  Disjoint(n, d)
    OBVIOUS
  <2>1. AddDevice
    BY DEF Next, TakeNumber, AddMaster, AddMasterFails, AllocDevice, AllocFails, Reject, AddFails,
           PutCurrent, EndVisit, FreeNumber, UnregisterDevice, UnregisterMaster, vars
  <2>2. n = current /\ n \in Nodes /\ d \in Nodes /\ ~InUse(n)
    BY <2>1, NodeAssumption DEF AddDevice, TypeOK
  <2>3. n.address # d.address /\ n.address % d.size = 0
    BY <2>2 DEF InUse, Masked, Ordinary
  <2>4. d.address % d.size = 0
    BY DEF Placed, OverlapsOwnMask, Masked, Ordinary
  <2> QED BY <2>2, <2>3, <2>4, MultiplesDisjoint
<1> QED BY <1>1, TypeCorrect, IndPlaced, PTL DEF Spec, AddedApart

\* i80_dev_check keeps devices of one size apart, in whatever order they register and
\* however often the master is bound, when none of them is always selected.
THEOREM EqualSizesApart == SameSize /\ Spec => []NoSharedAddress
<1>1. SameSize /\ TypeOK /\ Placed => NoSharedAddress
  <2> SUFFICES ASSUME SameSize, TypeOK, Placed,
                      NEW n \in devices, NEW m \in devices, n # m
               PROVE  Disjoint(n, m)
    BY DEF NoSharedAddress
  <2>1. n \in Nodes /\ m \in Nodes /\ Ordinary(n) /\ Ordinary(m) /\ n.size = m.size
    BY DEF SameSize, TypeOK
  <2>2. n.address % m.size = 0 /\ m.address % m.size = 0 /\ n.address # m.address
    BY <2>1 DEF Placed, OverlapsOwnMask, Masked, Ordinary
  <2>3. n.size <= m.size
    BY <2>1, NodeAssumption
  <2> QED BY <2>1, <2>2, <2>3, MultiplesDisjoint
<1>2. SameSize => []SameSize
  <2>1. SameSize => SameSize'
    BY DEF SameSize, Ordinary
  <2> QED BY <2>1, PTL
<1> QED BY <1>1, <1>2, TypeCorrect, IndPlaced, PTL
=============================================================================
