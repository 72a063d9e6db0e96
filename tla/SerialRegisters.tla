--------------------------- MODULE SerialRegisters ---------------------------
(***************************************************************************)
(* What lcdreg promises the drivers: a thread that owns the registers      *)
(* writes them one at a time, each in one step, and nobody else writes one *)
(* in between.                                                             *)
(***************************************************************************)
CONSTANTS Threads, Registers, None

VARIABLES owner,   \* the thread whose turn it is, or None
          value    \* which thread wrote what each register holds

vars == <<owner, value>>

TypeOK == /\ owner \in Threads \cup {None}
          /\ value \in [Registers -> Threads \cup {None}]

Init == owner = None /\ value = [r \in Registers |-> None]

Begin(t) == owner = None /\ owner' = t /\ UNCHANGED value
End(t) == owner = t /\ owner' = None /\ UNCHANGED value

Write(t, r) ==
  /\ owner = t
  /\ value' = [value EXCEPT ![r] = t]
  /\ UNCHANGED owner

Next == \E t \in Threads : \/ Begin(t) \/ End(t)
                           \/ \E r \in Registers : Write(t, r)

Spec == Init /\ [][Next]_vars
=============================================================================
