------------------------------- MODULE Table --------------------------------
(***************************************************************************)
(* The seats of a table and the arithmetic the engine does over them: sums *)
(* and counts over the players, and the walks around the table of          *)
(* _next_seat, _next_active_seat, _first_active_seat_after and             *)
(* _odd_chip_seat.  start_new_hand refuses more than six players, so a sum *)
(* over the seats has six terms at most.                                   *)
(***************************************************************************)
EXTENDS Integers

CONSTANT NumSeats   \* players at the table, len(stacks)

ASSUME SeatsAssumption == NumSeats \in 2 .. 6

Seats == 0 .. NumSeats - 1

Least(a, b) == IF a <= b THEN a ELSE b
Greatest(a, b) == IF a >= b THEN a ELSE b
MaxOf(S) == CHOOSE m \in S : \A n \in S : n <= m

Term(f, s) == IF s < NumSeats THEN f[s] ELSE 0
SeatSum(f) == Term(f, 0) + Term(f, 1) + Term(f, 2) + Term(f, 3) + Term(f, 4) + Term(f, 5)
Count(S) == SeatSum([s \in Seats |-> IF s \in S THEN 1 ELSE 0])

(* Steps clockwise from one seat to another; a whole turn to come back.    *)
Distance(from, to) == IF to > from THEN to - from ELSE to - from + NumSeats
FirstAfter(S, from) == CHOOSE s \in S : \A t \in S : Distance(from, s) <= Distance(from, t)
NextSeat(seat) == IF seat + 1 = NumSeats THEN 0 ELSE seat + 1

=============================================================================
