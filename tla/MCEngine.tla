------------------------------ MODULE MCEngine ------------------------------
(* Tables for TLC: stacks for a heads-up hand and for three players.       *)
EXTENDS Engine

ThreeEqual == {[s \in Seats |-> 5], [s \in Seats |-> 7]}
(* Every order of the seats with ties, each once: ranks without gaps.      *)
AllRankings ==
    {r \in [Seats -> 0 .. NumSeats - 1] :
        \A s \in Seats : r[s] = 0 \/ \E t \in Seats : r[t] = r[s] - 1}

ThreeUneven == [Seats -> {1, 3, 6}]
ThreeSeats == ThreeEqual \cup ThreeUneven \cup [Seats -> {3, 6}]
AnyStacks == [Seats -> 1 .. 6]
=============================================================================
