----------------------------- MODULE MCSpiWrite -----------------------------
(* The interfaces and the writes of the run of SpiWrite, on a page of 16      *)
(* bytes: 4 bits of the page offset instead of 12.                            *)
EXTENDS SpiWrite, TLC

Setup(mode, param, master, defWidth, fetches) ==
  [mode |-> mode, param |-> param, master |-> master, defWidth |-> defWidth,
   fetches |-> fetches]

\* A master of bytes only, one of all words, one that says nothing; the parameter set
\* as a user would to get words of 9 or of 16 bits.
Interfaces ==
  {Setup(mode, param, master, 8, FALSE) :
     mode \in {"4wire", "3wire"}, param \in {{}, {8, 9}, {16}}, master \in {{8}, {8, 9, 16, 24}}}
  \cup {Setup("startbyte", {}, master, 16, fetches) :
          master \in {{}, {8, 16}}, fetches \in BOOLEAN}
  \cup {Setup("3wire", {}, master, 16, FALSE) : master \in {{8}, {8, 9}}}

Pattern(n, m) == [i \in 1 .. n |-> (i * 40503 + 33) % m]
Regs(data) == [op |-> "write_buf32", regnr |-> 44, width |-> 0, data |-> data, off |-> None]
Pixels(width, n, off) ==
  [op |-> "write", regnr |-> 34, width |-> width, data |-> Pattern(n, 2 ^ width), off |-> off]

\* Registers without data and with four values; pixels of every width: a few, some that
\* need a second chunk, more than a message of four pages, and from within a page.
Writes ==
  {Regs(<<>>), Regs(<<0, 70000, 0, 255>>), Regs(<<1>>)}
  \cup {Pixels(16, n, None) : n \in {3, 4, 9, 12, 33}}
  \cup {Pixels(8, n, None) : n \in {7, 8, 70}}
  \cup {Pixels(24, n, None) : n \in {3, 5}}
  \cup {Pixels(16, n, off) : n \in {5, 25, 33}, off \in {0, 10}}
=============================================================================
