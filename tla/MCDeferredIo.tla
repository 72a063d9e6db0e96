---------------------------- MODULE MCDeferredIo ----------------------------
(* Model values and symmetry for the runs of DeferredIo.  A row of 2 bytes    *)
(* and a page of 3 make every page share a row with its neighbour.            *)
EXTENDS DeferredIo, TLC

WriterSymmetry == Permutations(Writers)
=============================================================================
