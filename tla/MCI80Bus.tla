------------------------------ MODULE MCI80Bus ------------------------------
(* Two panels on one bus, a thread for each and one more for the first.  A    *)
(* byte has two values, so equal words and equal bytes follow each other, and *)
(* three words need two chunks.                                               *)
EXTENDS I80Bus, TLC
CONSTANTS lcd1, lcd2, worker1, worker2, shell

TwoPanels == worker1 :> lcd1 @@ worker2 :> lcd2 @@ shell :> lcd1
\* The two are apart: what happens where they are not, see MCI80Registry.
Addresses == lcd1 :> 2 @@ lcd2 :> 4
Sizes == lcd1 :> 2 @@ lcd2 :> 2

Write(regnr, width, data) == [op |-> "write", regnr |-> regnr, width |-> width, data |-> data]
Read(regnr, width, n) ==
  [op |-> "read", regnr |-> regnr, width |-> width, data |-> [i \in 1 .. n |-> 0]]

AllJobs == {Write(1, 16, <<>>), Write(2, 16, <<1, 3, 3>>), Write(3, 8, <<1, 1>>),
            Write(1, 24, <<2>>), Read(3, 16, 2), Read(1, 8, 1)}
FewJobs == {Write(2, 16, <<3, 3>>), Read(3, 16, 1), Write(1, 24, <<2>>)}
=============================================================================
