--------------------------- MODULE MCI80Registry ---------------------------
(* The nodes of the runs of I80Registry.                                      *)
EXTENDS I80Registry
CONSTANTS ssd1963, ili9320

Node(address, size) == [modalias |-> ssd1963, address |-> address, size |-> size]
Nameless == [Node(2, 2) EXCEPT !.modalias = None]

\* Panels of two sizes, of which some contain others or have the same address, and nodes
\* in error: an address within its own mask, a size that is none, an address beyond the
\* bus, a missing modalias.
Overlay == {Node(0, 2), Node(2, 2), Node(4, 4), [Node(4, 2) EXCEPT !.modalias = ili9320],
            Node(6, 2), Node(6, 4), Node(1, 6), Node(8, 2), Nameless}

\* Devices of different sizes, each legal by itself.
MixedSizes == {Node(2, 2), Node(4, 4), Node(6, 2)}
=============================================================================
