----------------------------- MODULE I80Registry -----------------------------
(***************************************************************************)
(* Registering the masters and devices of the i80 bus: src/i80/i80.c.      *)
(*                                                                         *)
(* devm_i80_register_master takes a number for the master, adds its device *)
(* and visits the child nodes of its device tree node.  A device is        *)
(* allocated for each, checked, and added or put again; the addresses are  *)
(* compared with those of the devices on the bus by i80_dev_check.  When   *)
(* the parent is unbound the number is freed and the devices are           *)
(* unregistered; the parent may then be bound again.                       *)
(*                                                                         *)
(* A node is its modalias, None if a property is missing, and its reg      *)
(* property; the order in which Linux visits the nodes is left open.  A    *)
(* mask is 2^n - 1 or all ones, so address & mask is 0 just when the       *)
(* address is a multiple of the size; all ones is what the size 0 gives.   *)
(***************************************************************************)
EXTENDS Integers, FiniteSets

CONSTANTS Nodes,          \* the child nodes: [modalias, address, size] records
          AddressWidth,   \* master->address_width
          MayFail,        \* whether an allocation or device_add may fail
          MaxBinds,       \* bound: how often the parent is bound
          None

ASSUME NodeAssumption ==
  /\ \A n \in Nodes : n.address \in Nat /\ n.size \in Nat
  /\ IsFiniteSet(Nodes)
  /\ AddressWidth \in 0 .. 30 /\ MaxBinds \in Nat
  /\ MayFail \in BOOLEAN
  /\ None \notin Nodes

VARIABLES
  master,     \* "unbound", "number", "visiting", "bound" or "unregister"
  number,     \* whether the number of the master is taken in i80_master_idr
  todo,       \* the nodes still to be visited
  current,    \* the node a device was allocated for, or None
  devices,    \* the nodes whose device is on the bus
  masterRefs, \* references to the device of the master
  nodeRefs,   \* references taken on each node
  binds       \* how often the parent was bound

vars == <<master, number, todo, current, devices, masterRefs, nodeRefs, binds>>

TypeOK ==
  /\ master \in {"unbound", "number", "visiting", "bound", "unregister"}
  /\ number \in BOOLEAN
  /\ todo \subseteq Nodes /\ devices \subseteq Nodes
  /\ current \in Nodes \cup {None}
  /\ masterRefs \in Nat
  /\ nodeRefs \in [Nodes -> Nat]
  /\ binds \in 0 .. MaxBinds

Init ==
  /\ master = "unbound" /\ number = FALSE
  /\ todo = {} /\ current = None /\ devices = {}
  /\ masterRefs = 0
  /\ nodeRefs = [n \in Nodes |-> 0]
  /\ binds = 0

-----------------------------------------------------------------------------
\* address & mask, as a truth value
Masked(address, size) == IF size = 0 THEN address # 0 ELSE address % size # 0

\* A modalias, a reg property, a size that is 0 or a power of 2 but 1, an address that
\* keeps out of the mask and on the bus.
IllegalSize(n) == n.size # 0 /\ n.size \notin {2^k : k \in 1 .. 30}
OverlapsOwnMask(n) == n.size # 0 /\ Masked(n.address, n.size)
TooLarge(n) == n.address >= 2^AddressWidth
Sound(n) == n.modalias # None /\ ~IllegalSize(n) /\ ~OverlapsOwnMask(n) /\ ~TooLarge(n)

\* Mutation: only the mask is looked at.
InUseMaskOnly(n) == \E d \in devices : Masked(n.address, d.size)

\* i80_dev_check finds a device on the bus that objects to the new one.
InUse(n) == \E d \in devices : d.address = n.address \/ Masked(n.address, d.size)

-----------------------------------------------------------------------------
\* devm_i80_register_master, up to idr_alloc: with an alias in the device tree the
\* number is fixed, and idr_alloc fails when it is taken.
TakeNumber ==
  /\ master = "unbound" /\ ~number /\ binds < MaxBinds
  /\ master' = "number" /\ number' = TRUE
  /\ binds' = binds + 1
  /\ UNCHANGED <<todo, current, devices, masterRefs, nodeRefs>>

\* device_initialize and device_add
AddMaster ==
  /\ master = "number"
  /\ master' = "visiting"
  /\ masterRefs' = 1
  /\ todo' = Nodes
  /\ UNCHANGED <<number, current, devices, nodeRefs, binds>>

\* devres_alloc or device_add failed: the number stays taken.
AddMasterFails ==
  /\ MayFail
  /\ master = "number"
  /\ master' = "unbound"
  /\ UNCHANGED <<number, todo, current, devices, masterRefs, nodeRefs, binds>>

\* i80_alloc_device, which takes a reference to the master
AllocDevice(n) ==
  /\ master = "visiting" /\ current = None /\ n \in todo
  /\ todo' = todo \ {n}
  /\ current' = n
  /\ masterRefs' = masterRefs + 1
  /\ UNCHANGED <<master, number, devices, nodeRefs, binds>>

AllocFails(n) ==
  /\ MayFail
  /\ master = "visiting" /\ current = None /\ n \in todo
  /\ todo' = todo \ {n}
  /\ UNCHANGED <<master, number, current, devices, masterRefs, nodeRefs, binds>>

\* i80_dev_put on the device just allocated: i80dev_release puts the master.
PutCurrent ==
  /\ current' = None
  /\ masterRefs' = masterRefs - 1
  /\ UNCHANGED <<master, number, todo, devices, binds>>

\* Mutation: the loop goes on without putting the device.
RejectKeeps ==
  /\ current # None /\ ~Sound(current)
  /\ current' = None
  /\ UNCHANGED <<master, number, todo, devices, masterRefs, nodeRefs, binds>>

\* The node does not describe a device of this bus.
Reject ==
  /\ current # None /\ ~Sound(current)
  /\ PutCurrent
  /\ UNCHANGED nodeRefs

\* of_node_get, then i80_add_device fails: -EBUSY, or device_add failed.
AddFails ==
  /\ current # None /\ Sound(current)
  /\ InUse(current) \/ MayFail
  /\ nodeRefs' = [nodeRefs EXCEPT ![current] = @ + 1]
  /\ PutCurrent

\* of_node_get and i80_add_device
AddDevice ==
  /\ current # None /\ Sound(current)
  /\ ~InUse(current)
  /\ nodeRefs' = [nodeRefs EXCEPT ![current] = @ + 1]
  /\ devices' = devices \cup {current}
  /\ current' = None
  /\ UNCHANGED <<master, number, todo, masterRefs, binds>>

EndVisit ==
  /\ master = "visiting" /\ todo = {} /\ current = None
  /\ master' = "bound"
  /\ UNCHANGED <<number, todo, current, devices, masterRefs, nodeRefs, binds>>

\* devm_i80_unregister_master, up to idr_remove
FreeNumber ==
  /\ master = "bound"
  /\ master' = "unregister" /\ number' = FALSE
  /\ UNCHANGED <<todo, current, devices, masterRefs, nodeRefs, binds>>

\* Mutation: the node of a device is put by its release as well.
UnregisterPutsTwice(n) ==
  /\ master = "unregister" /\ n \in devices
  /\ nodeRefs' = [nodeRefs EXCEPT ![n] = @ - 2]
  /\ devices' = devices \ {n}
  /\ masterRefs' = masterRefs - 1
  /\ UNCHANGED <<master, number, todo, current, binds>>

\* i80_unregister_device for each child
UnregisterDevice(n) ==
  /\ master = "unregister" /\ n \in devices
  /\ nodeRefs' = [nodeRefs EXCEPT ![n] = @ - 1]
  /\ devices' = devices \ {n}
  /\ masterRefs' = masterRefs - 1
  /\ UNCHANGED <<master, number, todo, current, binds>>

\* device_unregister of the master
UnregisterMaster ==
  /\ master = "unregister" /\ devices = {}
  /\ master' = "unbound"
  /\ masterRefs' = masterRefs - 1
  /\ UNCHANGED <<number, todo, current, devices, nodeRefs, binds>>

Next ==
  \/ TakeNumber \/ AddMaster \/ AddMasterFails
  \/ \E n \in Nodes : AllocDevice(n) \/ AllocFails(n) \/ UnregisterDevice(n)
  \/ Reject \/ AddFails \/ AddDevice \/ EndVisit
  \/ FreeNumber \/ UnregisterMaster

Spec == Init /\ [][Next]_vars

-----------------------------------------------------------------------------
\* The addresses at which the chip of a device is selected: "Zero means the chip is
\* always selected" (i80.h), and the mask of size 0 covers the whole bus.
Claimed(n) ==
  IF n.address = 0 \/ n.size = 0 THEN 0 .. 2^AddressWidth - 1
  ELSE n.address .. n.address + n.size - 1

Disjoint(n, m) == Claimed(n) \cap Claimed(m) = {}

\* No two chips on the bus are selected by the same address: i80_add_device refuses a
\* device whose "address is already in use".
NoSharedAddress == \A n, m \in devices : n # m => Disjoint(n, m)

\* A device with addresses of its own.
Ordinary(n) == n.address # 0 /\ n.size # 0

\* What i80_dev_check does ensure, whatever was registered before and however often the
\* master was bound: a device that is added shares no address with one on the bus that
\* has as many addresses or more.  It does not look for a smaller device within the
\* new one, nor for a chip that is always selected.
AddedApart ==
  [][\A n \in devices' \ devices, d \in devices :
       Ordinary(n) /\ Ordinary(d) /\ n.size <= d.size => Disjoint(n, d)]_vars

\* The master is referenced once for itself and once for each device that is on the
\* bus or being checked, so it is released when it is unbound and not before -
\* whichever check or call failed for a node.
MasterReferences ==
  masterRefs = Cardinality(devices) + (IF current = None THEN 0 ELSE 1)
                 + (IF master \in {"visiting", "bound", "unregister"} THEN 1 ELSE 0)

\* The node of a device on the bus is held for it.
NodesHeld == \A n \in Nodes : nodeRefs[n] >= (IF n \in devices THEN 1 ELSE 0)
=============================================================================
