---------------------------- MODULE ShadowDisplay ----------------------------
(***************************************************************************)
(* What a deferred-I/O frame buffer promises, with no range, page list or  *)
(* work in it: a row may only change while it is promised to be sent, a    *)
(* promise is given up only by sending the row or by an update that        *)
(* failed, and a promised row that the display has not been sent is        *)
(* eventually sent or given up.                                            *)
(***************************************************************************)
CONSTANT Lines

VARIABLES
  stale,      \* rows that differ from what the display was sent
  dropped,    \* rows a failed update gave up
  promised    \* rows that some update is still to send

vars == <<stale, dropped, promised>>

TypeOK == /\ stale \subseteq Lines
          /\ dropped \subseteq Lines
          /\ promised \subseteq Lines

Init == stale = {} /\ dropped = {} /\ promised = {}

Promise(L) ==
  /\ promised' = promised \cup L
  /\ UNCHANGED <<stale, dropped>>

Draw(l) ==
  /\ l \in promised
  /\ stale' = stale \cup {l}
  /\ dropped' = dropped \ {l}
  /\ UNCHANGED promised

\* The promise stays when the row was promised again in the meantime.
Send(l) ==
  /\ l \in promised
  /\ stale' = stale \ {l}
  /\ dropped' = dropped \ {l}
  /\ promised' \in {promised, promised \ {l}}

Fail(L) ==
  /\ stale' = stale \cup L
  /\ dropped' = dropped \cup L
  /\ promised' \in {promised \ G : G \in SUBSET L}

Serve(l) ==
  /\ l \in stale \ dropped
  /\ Send(l) \/ \E L \in SUBSET Lines : l \in L /\ Fail(L)

Next ==
  \/ \E l \in Lines : Draw(l) \/ Send(l)
  \/ \E L \in SUBSET Lines : Promise(L) \/ Fail(L)

Spec == Init /\ [][Next]_vars
FairSpec == Spec /\ \A l \in Lines : WF_vars(Serve(l))
=============================================================================
