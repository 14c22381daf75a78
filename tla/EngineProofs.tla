---------------------------- MODULE EngineProofs ----------------------------
(* Theorems about one hand of the engine, for every table of two to six    *)
(* seats, all blinds and all starting stacks.                              *)
EXTENDS Engine, WellFoundedInduction, TLAPS

-----------------------------------------------------------------------------
(* Sums, counts, maxima and the clockwise order over the seats.            *)

(* The value of a sum over the seats is an integer.                        *)
LEMMA SeatSumType ==
    ASSUME NEW f \in [Seats -> Int]
    PROVE  SeatSum(f) \in Int
  <1>1. \A k \in 0 .. 5 : Term(f, k) \in Int
    BY SeatsAssumption DEF Term, Seats
  <1> QED BY <1>1 DEF SeatSum

(* Changing one term changes the sum by the difference.                    *)
LEMMA SeatSumUpdate ==
    ASSUME NEW f \in [Seats -> Int], NEW s \in Seats, NEW v \in Int
    PROVE  SeatSum([f EXCEPT ![s] = v]) = SeatSum(f) - f[s] + v
  <1> DEFINE g == [f EXCEPT ![s] = v]
  <1>1. \A k \in 0 .. 5 : Term(f, k) \in Int /\ Term(g, k) = IF k = s THEN v ELSE Term(f, k)
    BY SeatsAssumption DEF Term, Seats
  <1>2. s \in 0 .. 5 /\ Term(f, s) = f[s]
    BY SeatsAssumption DEF Seats, Term
  <1> HIDE DEF g
  <1>3. SeatSum(g) = SeatSum(f) - Term(f, s) + v
    BY <1>1, <1>2 DEF SeatSum
  <1> QED BY <1>2, <1>3 DEF g

(* A sum of zeroes is zero.                                                *)
LEMMA SeatSumZero == SeatSum([s \in Seats |-> 0]) = 0
  <1> DEFINE zero == [s \in Seats |-> 0]
  <1>1. \A k \in 0 .. 5 : Term(zero, k) = 0
    BY SeatsAssumption DEF Term, Seats
  <1> HIDE DEF zero
  <1>2. SeatSum(zero) = 0
    BY <1>1 DEF SeatSum
  <1> QED BY <1>2 DEF zero

(* A sum without negative terms is not negative.                           *)
LEMMA SeatSumNat ==
    ASSUME NEW f \in [Seats -> Nat]
    PROVE  SeatSum(f) \in Nat
  <1>1. \A k \in 0 .. 5 : Term(f, k) \in Nat
    BY SeatsAssumption DEF Term, Seats
  <1> QED BY <1>1 DEF SeatSum

(* One for a member of a set, zero for any other seat.                     *)
Mark(S, k) == IF k \in S THEN 1 ELSE 0

(* Counting a set of seats adds one for each of its members.               *)
LEMMA CountTerms ==
    ASSUME NEW S \in SUBSET Seats
    PROVE  Count(S) = Mark(S, 0) + Mark(S, 1) + Mark(S, 2)
                      + Mark(S, 3) + Mark(S, 4) + Mark(S, 5)
  <1> DEFINE f == [s \in Seats |-> IF s \in S THEN 1 ELSE 0]
  <1>1. \A k \in 0 .. 5 : Term(f, k) = Mark(S, k)
    BY SeatsAssumption DEF Term, Seats, Mark
  <1> HIDE DEF f
  <1>2. SeatSum(f) = Mark(S, 0) + Mark(S, 1) + Mark(S, 2)
                      + Mark(S, 3) + Mark(S, 4) + Mark(S, 5)
    BY <1>1 DEF SeatSum
  <1> QED BY <1>2 DEF Count, f

(* A set of seats that has a member is counted as at least one.            *)
LEMMA CountPositive ==
    ASSUME NEW S \in SUBSET Seats
    PROVE  /\ Count(S) \in Nat
           /\ \A s \in S : Count(S) > 0
  <1>1. \A k \in 0 .. 5 : Mark(S, k) \in {0, 1}
    BY DEF Mark
  <1>2. \A s \in S : s \in 0 .. 5 /\ Mark(S, s) = 1
    BY SeatsAssumption DEF Seats, Mark
  <1> QED BY <1>1, <1>2, CountTerms

(* A set counted as more than one has a member besides any given seat, and *)
(* two members are counted as two.                                         *)
LEMMA CountMany ==
    ASSUME NEW S \in SUBSET Seats, NEW s \in Seats
    PROVE  /\ Count(S) >= 2 => \E t \in S : t # s
           /\ \A t \in S : s \in S /\ t # s => Count(S) >= 2
  <1>1. \A k \in 0 .. 5 : Mark(S, k) \in {0, 1} /\ (Mark(S, k) = 1 <=> k \in S)
    BY DEF Mark
  <1>2. S \subseteq 0 .. 5 /\ s \in 0 .. 5
    BY SeatsAssumption DEF Seats
  <1>3. Count(S) >= 2 => \E t \in S : t # s
    <2> SUFFICES ASSUME \A t \in 0 .. 5 : t # s => Mark(S, t) = 0
                 PROVE  ~(Count(S) >= 2)
      BY <1>1, <1>2
    <2> QED BY <1>1, <1>2, CountTerms
  <1>4. ASSUME NEW t \in S, s \in S, t # s PROVE Count(S) >= 2
    BY <1>1, <1>2, <1>4, CountTerms
  <1> QED BY <1>3, <1>4

(* A function to the integers has a largest value on a set of seats.       *)
LEMMA LargestExists ==
    ASSUME NEW S \in SUBSET Seats, NEW f \in [Seats -> Int], S # {}
    PROVE  \E m \in S : \A n \in S : f[n] <= f[m]
  <1> DEFINE L(k) == \/ S \cap (0 .. k) = {}
                     \/ \E m \in S \cap (0 .. k) : \A n \in S \cap (0 .. k) : f[n] <= f[m]
  <1>1. S \subseteq 0 .. 5 /\ \A s \in S : f[s] \in Int
    BY SeatsAssumption DEF Seats
  <1>2. L(0)
    BY <1>1
  <1>3. ASSUME NEW k \in 0 .. 4, L(k) PROVE L(k + 1)
    <2>1. S \cap (0 .. k + 1) = IF k + 1 \in S THEN (S \cap (0 .. k)) \cup {k + 1}
                                ELSE S \cap (0 .. k)
      OBVIOUS
    <2>2. CASE k + 1 \notin S
      BY <1>3, <2>1, <2>2
    <2>3. CASE k + 1 \in S /\ S \cap (0 .. k) = {}
      <3>1. k + 1 \in S \cap (0 .. k + 1) /\ f[k + 1] <= f[k + 1]
            /\ S \cap (0 .. k + 1) = {k + 1}
        BY <1>1, <2>1, <2>3
      <3> QED BY <3>1
    <2>4. CASE k + 1 \in S /\ S \cap (0 .. k) # {}
      <3>1. PICK m \in S \cap (0 .. k) : \A n \in S \cap (0 .. k) : f[n] <= f[m]
        BY <1>3, <2>4
      <3>2. CASE f[k + 1] <= f[m]
        BY <1>1, <2>1, <2>4, <3>1, <3>2
      <3>3. CASE f[m] < f[k + 1]
        <4>1. \A n \in S \cap (0 .. k + 1) : f[n] <= f[k + 1]
          BY <1>1, <2>1, <2>4, <3>1, <3>3
        <4> QED BY <4>1, <2>4
      <3> QED BY <1>1, <2>4, <3>1, <3>2, <3>3
    <2> QED BY <2>2, <2>3, <2>4
  <1> HIDE DEF L
  <1>4. L(5)
    BY <1>2, <1>3
  <1>5. S \cap (0 .. 5) = S
    BY <1>1
  <1> QED BY <1>4, <1>5 DEF L

(* MaxOf picks the largest of the values a function takes on some seats.   *)
LEMMA MaxOfValues ==
    ASSUME NEW S \in SUBSET Seats, NEW f \in [Seats -> Int], S # {}
    PROVE  /\ \E m \in S : MaxOf({f[s] : s \in S}) = f[m]
           /\ \A n \in S : f[n] <= MaxOf({f[s] : s \in S})
  <1> DEFINE V == {f[s] : s \in S}
  <1>1. \E m \in V : \A n \in V : n <= m
    BY LargestExists
  <1>2. MaxOf(V) \in V /\ \A n \in V : n <= MaxOf(V)
    BY <1>1 DEF MaxOf
  <1> QED BY <1>2

(* A sum over the seats, term by term.                                     *)
LEMMA SeatSumTerms ==
    ASSUME NEW f \in [Seats -> Int]
    PROVE  /\ \A k \in 0 .. 5 : Term(f, k) \in Int
           /\ \A k \in 0 .. 5 : Term(f, k) = IF k \in Seats THEN f[k] ELSE 0
           /\ \A s \in Seats : s \in 0 .. 5
  BY SeatsAssumption DEF Term, Seats

(* The sum of two functions.                                               *)
LEMMA SeatSumAdd ==
    ASSUME NEW f \in [Seats -> Int], NEW g \in [Seats -> Int]
    PROVE  SeatSum([s \in Seats |-> f[s] + g[s]]) = SeatSum(f) + SeatSum(g)
  <1> DEFINE h == [s \in Seats |-> f[s] + g[s]]
  <1>1. h \in [Seats -> Int]
    OBVIOUS
  <1>2. \A k \in 0 .. 5 : Term(h, k) = Term(f, k) + Term(g, k)
    <2>1. \A s \in Seats : h[s] = f[s] + g[s]
      OBVIOUS
    <2> HIDE DEF h
    <2>2. TAKE k \in 0 .. 5
    <2>3. /\ Term(h, k) = IF k \in Seats THEN h[k] ELSE 0
          /\ Term(f, k) = IF k \in Seats THEN f[k] ELSE 0
          /\ Term(g, k) = IF k \in Seats THEN g[k] ELSE 0
      BY <1>1, SeatSumTerms
    <2> QED BY <2>1, <2>3
  <1>3. \A k \in 0 .. 5 : Term(f, k) \in Int /\ Term(g, k) \in Int
    BY SeatSumTerms
  <1> HIDE DEF h
  <1>4. SeatSum(h) = SeatSum(f) + SeatSum(g)
    BY <1>2, <1>3 DEF SeatSum
  <1> QED BY <1>4 DEF h

(* Larger terms have a larger sum.                                         *)
LEMMA SeatSumMonotone ==
    ASSUME NEW f \in [Seats -> Int], NEW g \in [Seats -> Int], \A s \in Seats : f[s] <= g[s]
    PROVE  SeatSum(f) <= SeatSum(g)
  <1>1. \A k \in 0 .. 5 : Term(f, k) \in Int /\ Term(g, k) \in Int /\ Term(f, k) <= Term(g, k)
    BY SeatSumTerms
  <1> QED BY <1>1 DEF SeatSum

(* The same number for each member of a set.                               *)
LEMMA SeatSumShares ==
    ASSUME NEW S \in SUBSET Seats, NEW q \in Int
    PROVE  SeatSum([s \in Seats |-> IF s \in S THEN q ELSE 0]) = q * Count(S)
  <1> DEFINE f == [s \in Seats |-> IF s \in S THEN q ELSE 0]
  <1>1. f \in [Seats -> Int]
    OBVIOUS
  <1>2. \A k \in 0 .. 5 : Mark(S, k) \in {0, 1} /\ Term(f, k) = q * Mark(S, k)
    BY <1>1, SeatSumTerms DEF Mark
  <1> HIDE DEF f
  <1>3. \A a, b, c, d, e, g \in {0, 1} :
            q * a + q * b + q * c + q * d + q * e + q * g = q * (a + b + c + d + e + g)
    OBVIOUS
  <1> QED BY <1>2, <1>3, CountTerms DEF SeatSum, f

(* A table of numbers has one sum, by rows and by columns.                 *)
LEMMA SeatSumExchange ==
    ASSUME NEW F \in [Seats -> [Seats -> Int]]
    PROVE  SeatSum([s \in Seats |-> SeatSum(F[s])])
           = SeatSum([t \in Seats |-> SeatSum([s \in Seats |-> F[s][t]])])
  <1> DEFINE E(k, j) == IF k \in Seats /\ j \in Seats THEN F[k][j] ELSE 0
             rows == [s \in Seats |-> SeatSum(F[s])]
             column(t) == [s \in Seats |-> F[s][t]]
             columns == [t \in Seats |-> SeatSum(column(t))]
  <1>1. \A k, j \in 0 .. 5 : E(k, j) \in Int
    OBVIOUS
  <1>2. \A s \in Seats : rows[s] \in Int
            /\ rows[s] = E(s, 0) + E(s, 1) + E(s, 2)
                       + E(s, 3) + E(s, 4) + E(s, 5)
    <2> TAKE s \in Seats
    <2>1. \A j \in 0 .. 5 : Term(F[s], j) = E(s, j) /\ E(s, j) \in Int
      BY SeatSumTerms
    <2> HIDE DEF E
    <2> QED BY <2>1 DEF SeatSum
  <1>3. \A t \in Seats : columns[t] \in Int
            /\ columns[t] = E(0, t) + E(1, t) + E(2, t)
                          + E(3, t) + E(4, t) + E(5, t)
    <2> TAKE t \in Seats
    <2>1. \A k \in 0 .. 5 : Term(column(t), k) = E(k, t) /\ E(k, t) \in Int
      BY SeatSumTerms
    <2> HIDE DEF E
    <2> QED BY <2>1 DEF SeatSum
  <1>4. \A k \in 0 .. 5 : Term(rows, k) = E(k, 0) + E(k, 1) + E(k, 2)
                                        + E(k, 3) + E(k, 4) + E(k, 5)
    <2>1. rows \in [Seats -> Int]
      BY <1>2
    <2>2. \A k \in 0 .. 5 : k \notin Seats => \A j \in 0 .. 5 : E(k, j) = 0
      OBVIOUS
    <2> HIDE DEF rows, E
    <2> QED BY <1>2, <2>1, <2>2, SeatSumTerms
  <1>5. \A k \in 0 .. 5 : Term(columns, k) = E(0, k) + E(1, k) + E(2, k)
                                           + E(3, k) + E(4, k) + E(5, k)
    <2>1. columns \in [Seats -> Int]
      BY <1>3
    <2>2. \A k \in 0 .. 5 : k \notin Seats => \A j \in 0 .. 5 : E(j, k) = 0
      OBVIOUS
    <2> HIDE DEF columns, E
    <2> QED BY <1>3, <2>1, <2>2, SeatSumTerms
  <1> HIDE DEF E, rows, columns
  <1>6. SeatSum(rows) = SeatSum(columns)
    BY <1>1, <1>4, <1>5 DEF SeatSum
  <1> QED BY <1>6 DEF rows, columns

(* The first seat of a set, clockwise, is a seat of the set.               *)
LEMMA FirstAfterMember ==
    ASSUME NEW S \in SUBSET Seats, NEW from \in Seats, S # {}
    PROVE  FirstAfter(S, from) \in S
  <1> DEFINE f == [s \in Seats |-> -Distance(from, s)]
  <1>1. /\ f \in [Seats -> Int]
        /\ \A s \in Seats : Distance(from, s) \in Int /\ f[s] = -Distance(from, s)
    BY SeatsAssumption DEF Distance, Seats
  <1> HIDE DEF f
  <1>2. PICK m \in S : \A n \in S : f[n] <= f[m]
    BY <1>1, LargestExists
  <1>3. \A n \in S : Distance(from, m) <= Distance(from, n)
    BY <1>1, <1>2
  <1> QED BY <1>3 DEF FirstAfter

-----------------------------------------------------------------------------
(* The inductive invariant.                                                *)

(* A hand under way: its books balance seat by seat and its board is the   *)
(* one of its street.                                                      *)
Running(h, start) ==
    /\ h \in Hand
    /\ ~h.is_terminal /\ ~h.showdown_reached
    /\ h.street # "terminal"
    /\ h.board = BoardOn[h.street]
    /\ h.pot = SeatSum(h.total_invested)
    /\ \A s \in Seats : /\ h.stack[s] + h.total_invested[s] = start[s]
                        /\ h.stack[s] >= 0
                        /\ h.invested[s] >= 0
                        /\ h.total_invested[s] >= h.invested[s]

(* Some seat still in has put in as much as any that folded.               *)
Covered(h) ==
    \A s \in h.folded : \E t \in Active(h) : h.total_invested[s] <= h.total_invested[t]

(* No seat has more than the stacks the others started with allow.         *)
Capped(h, start) ==
    \A s \in Seats :
        h.stack[s] <= SeatSum([t \in Seats |-> Least(start[t], start[s])])

(* A hand that has ended, and how.                                         *)
Ended(h, start) ==
    /\ h \in Hand
    /\ h.is_terminal
    /\ h.pot = 0
    /\ \A s \in Seats : /\ h.stack[s] >= 0
                        /\ h.invested[s] >= 0
                        /\ h.total_invested[s] >= h.invested[s]
    /\ \A s \in h.folded : h.stack[s] + h.total_invested[s] = start[s]
    /\ IF h.showdown_reached THEN h.board = 5 /\ Count(Active(h)) >= 2
       ELSE h.winner_seat # None /\ Active(h) = {h.winner_seat}
    /\ (h.showdown_reached => Covered(h)) => SeatSum(h.stack) = SeatSum(start)
    /\ h.showdown_reached => Capped(h, start)

(* Whom a running hand waits for: a seat that can bet, or, in the two cases *)
(* the code gets wrong, a seat that cannot.                                *)
WaitsForCall(h, start) ==
    \/ h.acting_seat \in CanBet(h)
    \/ CanBet(h) = {h.button} /\ h.acted = {}
    \/ /\ NumSeats = 2 /\ h.street = "pre_flop" /\ h.acting_seat = h.button
       /\ start[h.button] <= SmallBlind

Sound(h, start) ==
    \/ Running(h, start) /\ Count(Active(h)) >= 2 /\ WaitsForCall(h, start)
    \/ Ended(h, start)

IInv == initial_stacks \in [Seats -> Nat] /\ Sound(hand, initial_stacks)

(* Two hands that differ in the bookkeeping of the betting round only.     *)
SameBooks(g, h) ==
    /\ g \in Hand
    /\ g.pot = h.pot /\ g.stack = h.stack /\ g.invested = h.invested
    /\ g.total_invested = h.total_invested /\ g.folded = h.folded
    /\ g.street = h.street /\ g.board = h.board
    /\ g.is_terminal = h.is_terminal /\ g.showdown_reached = h.showdown_reached

(* The bookkeeping of a betting round touches no chips.                    *)
LEMMA SameBooksRunning ==
    ASSUME NEW start, NEW h, Running(h, start), NEW g, SameBooks(g, h)
    PROVE  Running(g, start) /\ g.folded = h.folded
  BY DEF SameBooks, Running

(* The second of two hands has paid chips to seats that did not fold.      *)
Gains(g, h) ==
    /\ g.folded = h.folded
    /\ \A t \in Seats : /\ g.stack[t] >= h.stack[t]
                        /\ t \in h.folded => g.stack[t] = h.stack[t]

LEMMA GainsTrans ==
    ASSUME NEW h \in Hand, NEW g \in Hand, NEW f \in Hand, Gains(g, h), Gains(f, g)
    PROVE  Gains(f, h)
  <1>1. \A s \in Seats : h.stack[s] \in Int /\ g.stack[s] \in Int /\ f.stack[s] \in Int
    BY DEF Hand
  <1> QED BY <1>1 DEF Gains

(* A running hand's chips stay where they are; its end pays them out.      *)
Settles(g, h) ==
    IF g.is_terminal THEN Gains(g, h)
    ELSE /\ g.folded = h.folded /\ g.stack = h.stack
         /\ g.total_invested = h.total_invested

(* A seat has put n chips up, and the hand may have ended by it.           *)
Puts(g, h, seat, n) ==
    /\ n \in 0 .. h.stack[seat]
    /\ g.folded = h.folded
    /\ LET before == [h.stack EXCEPT ![seat] = @ - n]
       IN  IF g.is_terminal
           THEN \A t \in Seats : /\ g.stack[t] >= before[t]
                                 /\ t \in h.folded => g.stack[t] = before[t]
           ELSE /\ g.stack = before
                /\ g.total_invested = [h.total_invested EXCEPT ![seat] = @ + n]

(* A seat has folded, and the hand may have ended by it.                   *)
GivesUp(g, h, seat) ==
    /\ g.folded = h.folded \cup {seat}
    /\ IF g.is_terminal
       THEN \A t \in Seats : /\ g.stack[t] >= h.stack[t]
                             /\ t \in g.folded => g.stack[t] = h.stack[t]
       ELSE g.stack = h.stack /\ g.total_invested = h.total_invested

(* What the seat that acts may have done.                                  *)
MovesChips(g, h) ==
    \/ \E n \in Int : Puts(g, h, h.acting_seat, n)
    \/ GivesUp(g, h, h.acting_seat)

(* _commit moves chips of one seat to the pot and keeps the books.         *)
LEMMA CommitRunning ==
    ASSUME NEW start, NEW h, Running(h, start), NEW seat \in Seats, NEW amount \in Nat
    PROVE  /\ Running(Commit(h, seat, amount), start)
           /\ Commit(h, seat, amount).folded = h.folded
           /\ Commit(h, seat, amount).acting_seat = h.acting_seat
  <1> DEFINE c == Least(amount, h.stack[seat])
             g == Commit(h, seat, amount)
  <1>1. /\ h \in Hand /\ h.pot \in Int /\ h.stack[seat] \in Nat
        /\ h.stack \in [Seats -> Int] /\ h.invested \in [Seats -> Int]
        /\ h.total_invested \in [Seats -> Int] /\ h.all_in \in SUBSET Seats
    BY DEF Running, Hand
  <1>2. c \in Nat /\ c <= h.stack[seat]
    BY <1>1 DEF Least
  <1> DEFINE stack == [h.stack EXCEPT ![seat] = @ - c]
             invested == [h.invested EXCEPT ![seat] = @ + c]
             total == [h.total_invested EXCEPT ![seat] = @ + c]
             all_in == IF h.stack[seat] = c THEN h.all_in \cup {seat} ELSE h.all_in
  <1>3. g = [h EXCEPT !.stack = stack, !.invested = invested, !.total_invested = total,
                      !.all_in = all_in, !.pot = h.pot + c]
    BY DEF Commit
  <1> HIDE DEF c
  <1>4. /\ stack \in [Seats -> Int] /\ invested \in [Seats -> Int] /\ total \in [Seats -> Int]
        /\ all_in \in SUBSET Seats /\ h.pot + c \in Int
    BY <1>1, <1>2
  <1> HIDE DEF g, stack, invested, total, all_in
  <1>5. g \in Hand
    BY <1>1, <1>3, <1>4, Zenon DEF Hand
  <1>6. /\ g.stack = stack /\ g.invested = invested /\ g.total_invested = total
        /\ g.pot = h.pot + c
        /\ g.folded = h.folded /\ g.acting_seat = h.acting_seat
        /\ g.street = h.street /\ g.board = h.board
        /\ g.is_terminal = h.is_terminal /\ g.showdown_reached = h.showdown_reached
    BY <1>1, <1>3 DEF Hand
  <1>7. SeatSum(total) = SeatSum(h.total_invested) + c
    <2>1. /\ h.total_invested \in [Seats -> Int] /\ h.total_invested[seat] \in Int
          /\ h.total_invested[seat] + c \in Int /\ SeatSum(h.total_invested) \in Int
      BY <1>1, <1>2, SeatSumType
    <2>2. SeatSum(total) = SeatSum(h.total_invested) - h.total_invested[seat]
                           + (h.total_invested[seat] + c)
      BY <2>1, SeatSumUpdate DEF total
    <2> QED BY <2>1, <2>2, <1>2
  <1>8. \A s \in Seats : /\ stack[s] + total[s] = start[s]
                         /\ stack[s] >= 0 /\ invested[s] >= 0 /\ total[s] >= invested[s]
    BY <1>1, <1>2 DEF Running, stack, invested, total
  <1>9. Running(g, start)
    BY <1>5, <1>6, <1>7, <1>8 DEF Running
  <1> QED BY <1>6, <1>9 DEF g

(* Only the seat that commits can be all in by it, and only by committing  *)
(* all it has.                                                             *)
LEMMA CommitAllIn ==
    ASSUME NEW h \in Hand, NEW seat \in Seats, NEW amount \in Nat
    PROVE  /\ Commit(h, seat, amount).all_in \subseteq h.all_in \cup {seat}
           /\ h.all_in \subseteq Commit(h, seat, amount).all_in
           /\ h.stack[seat] > amount => Commit(h, seat, amount).all_in = h.all_in
           /\ Commit(h, seat, amount).button = h.button
           /\ Commit(h, seat, amount).street = h.street
           /\ Commit(h, seat, amount).folded = h.folded
           /\ Commit(h, seat, amount).board = h.board
           /\ h.stack[seat] >= 0
              => \A s \in Seats : Commit(h, seat, amount).stack[s] <= h.stack[s]
  <1> DEFINE c == Least(amount, h.stack[seat])
             all_in == IF h.stack[seat] = c THEN h.all_in \cup {seat} ELSE h.all_in
             g == Commit(h, seat, amount)
  <1>1. /\ h.stack[seat] \in Int /\ h.stack \in [Seats -> Int]
        /\ h.stack[seat] > amount => h.stack[seat] # c
        /\ h.stack[seat] >= 0 => c >= 0 /\ c \in Int
    BY DEF Hand, Least
  <1>2. /\ g.all_in = all_in /\ g.button = h.button /\ g.street = h.street
        /\ g.folded = h.folded /\ g.board = h.board
        /\ g.stack = [h.stack EXCEPT ![seat] = @ - c]
    BY DEF Commit, Hand
  <1> HIDE DEF g, c
  <1>3. /\ g.all_in \subseteq h.all_in \cup {seat} /\ h.all_in \subseteq g.all_in
        /\ h.stack[seat] > amount => g.all_in = h.all_in
        /\ h.stack[seat] >= 0 => \A s \in Seats : g.stack[s] <= h.stack[s]
    BY <1>1, <1>2
  <1> QED BY <1>2, <1>3 DEF g

(* The uncalled part of a bet is at most the bet.                          *)
LEMMA UncalledBound ==
    ASSUME NEW start, NEW h, Running(h, start), Count(Active(h)) >= 2,
           NEW seat \in Active(h)
    PROVE  Uncalled(h, seat) \in Int /\ Uncalled(h, seat) <= h.total_invested[seat]
  <1> DEFINE S == Active(h) \ {seat}
             f == h.total_invested
             V == {f[t] : t \in S}
  <1>1. /\ f \in [Seats -> Int] /\ S \in SUBSET Seats /\ seat \in Seats
        /\ \A s \in Seats : f[s] \in Int /\ f[s] >= 0
    <2>1. h \in Hand /\ \A s \in Seats : h.invested[s] >= 0 /\ h.total_invested[s] >= h.invested[s]
      BY DEF Running
    <2>2. h.total_invested \in [Seats -> Int] /\ h.invested \in [Seats -> Int]
      BY <2>1 DEF Hand
    <2> QED BY <2>1, <2>2 DEF Active
  <1>2. S # {}
    BY <1>1, CountMany DEF Active
  <1>3. PICK m \in S : MaxOf(V) = f[m]
    BY <1>1, <1>2, MaxOfValues
  <1>4. Uncalled(h, seat) = f[seat] - MaxOf(V)
    BY DEF Uncalled
  <1> QED BY <1>1, <1>3, <1>4

(* _refund_uncalled_if_needed keeps the books of a running hand.           *)
LEMMA RefundRunning ==
    ASSUME NEW start, NEW h, Running(h, start)
    PROVE  /\ Running(RefundUncalled(h), start)
           /\ RefundUncalled(h).folded = h.folded
           /\ RefundUncalled(h).street = h.street
           /\ Gains(RefundUncalled(h), h)
  <1>11. Gains(h, h)
    <2>1. \A s \in Seats : h.stack[s] \in Int
      BY DEF Running, Hand
    <2> QED BY <2>1 DEF Gains
  <1> SUFFICES ASSUME Count(Active(h)) >= 2, \E s \in Active(h) : Uncalled(h, s) > 0
               PROVE  /\ Running(RefundUncalled(h), start)
                      /\ RefundUncalled(h).folded = h.folded
                      /\ RefundUncalled(h).street = h.street
                      /\ Gains(RefundUncalled(h), h)
    BY <1>11 DEF RefundUncalled
  <1> DEFINE seat == CHOOSE s \in Active(h) : Uncalled(h, s) > 0
             r == Uncalled(h, seat)
             g == RefundUncalled(h)
             stack == [h.stack EXCEPT ![seat] = @ + r]
             total == [h.total_invested EXCEPT ![seat] = @ - r]
             invested == [h.invested EXCEPT ![seat] = Greatest(0, @ - r)]
  <1>1. /\ h \in Hand /\ h.pot \in Int /\ h.stack \in [Seats -> Int]
        /\ h.invested \in [Seats -> Int] /\ h.total_invested \in [Seats -> Int]
    BY DEF Running, Hand
  <1>2. seat \in Active(h) /\ seat \in Seats /\ r > 0 /\ seat \notin h.folded
    BY DEF Active
  <1>3. r \in Int /\ r <= h.total_invested[seat]
    BY <1>2, UncalledBound
  <1>4. g = [h EXCEPT !.stack = stack, !.total_invested = total, !.invested = invested,
                      !.pot = h.pot - r]
    BY DEF RefundUncalled
  <1> HIDE DEF r, seat
  <1>5. /\ stack \in [Seats -> Int] /\ invested \in [Seats -> Int] /\ total \in [Seats -> Int]
        /\ h.pot - r \in Int
    BY <1>1, <1>2, <1>3 DEF Greatest
  <1>6. SeatSum(total) = SeatSum(h.total_invested) - r
    <2>1. h.total_invested[seat] - r \in Int /\ SeatSum(h.total_invested) \in Int
      BY <1>1, <1>2, <1>3, SeatSumType
    <2>2. SeatSum(total) = SeatSum(h.total_invested) - h.total_invested[seat]
                           + (h.total_invested[seat] - r)
      BY <2>1, <1>1, <1>2, SeatSumUpdate
    <2> QED BY <2>1, <2>2, <1>1, <1>2, <1>3
  <1>7. \A s \in Seats : /\ stack[s] + total[s] = start[s]
                         /\ stack[s] >= 0 /\ invested[s] >= 0 /\ total[s] >= invested[s]
    BY <1>1, <1>2, <1>3 DEF Running, Greatest
  <1>12. \A s \in Seats : /\ stack[s] >= h.stack[s]
                          /\ s \in h.folded => stack[s] = h.stack[s]
    BY <1>1, <1>2, <1>3
  <1> HIDE DEF g, stack, invested, total
  <1>8. g \in Hand
    BY <1>1, <1>4, <1>5, Zenon DEF Hand
  <1>9. /\ g.stack = stack /\ g.invested = invested /\ g.total_invested = total
        /\ g.pot = h.pot - r
        /\ g.folded = h.folded /\ g.street = h.street /\ g.board = h.board
        /\ g.is_terminal = h.is_terminal /\ g.showdown_reached = h.showdown_reached
    BY <1>1, <1>4 DEF Hand
  <1>10. Running(g, start)
    BY <1>6, <1>7, <1>8, <1>9 DEF Running
  <1>13. Gains(g, h)
    BY <1>9, <1>12 DEF Gains
  <1> QED BY <1>9, <1>10, <1>13 DEF g

(* A new street resets the betting round and nothing of the books.         *)
LEMMA OpenStreetRunning ==
    ASSUME NEW start, NEW h, Running(h, start), NEW street \in {"flop", "turn", "river"}
    PROVE  /\ Running(OpenStreet(h, street), start)
           /\ OpenStreet(h, street).folded = h.folded
           /\ OpenStreet(h, street).street = street
  <1> DEFINE g == OpenStreet(h, street)
             zero == [s \in Seats |-> 0]
             acting == FirstActiveSeatAfter(h, h.button)
  <1>1. h \in Hand /\ h.button \in Seats /\ h.stack \in [Seats -> Int]
        /\ h.total_invested \in [Seats -> Int] /\ h.invested \in [Seats -> Int]
    BY DEF Running, Hand
  <1>2. acting \in Seats \cup {None}
    <2>1. \A S \in SUBSET Seats : S # {} => FirstAfter(S, h.button) \in S
      BY <1>1, FirstAfterMember
    <2>2. CanBet(h) \ {h.button} \in SUBSET Seats /\ Active(h) \ {h.button} \in SUBSET Seats
      BY DEF CanBet, Active
    <2> QED BY <2>1, <2>2 DEF FirstActiveSeatAfter
  <1>3. BoardOn[street] \in 0 .. 5
    BY DEF BoardOn
  <1>4. g = [h EXCEPT !.invested = zero, !.current_bet = 0, !.to_call = 0,
                      !.min_raise_to = BigBlind, !.acted = {}, !.street = street,
                      !.board = BoardOn[street], !.acting_seat = acting]
    BY DEF OpenStreet
  <1>5. zero \in [Seats -> Int] /\ BigBlind \in Int /\ 0 \in Int /\ \A s \in Seats : zero[s] = 0
    BY BlindsAssumption
  <1>6. street \in {"pre_flop", "flop", "turn", "river", "terminal"} /\ street # "terminal"
    OBVIOUS
  <1> HIDE DEF g, zero, acting
  <1>7. g \in Hand
    BY <1>1, <1>2, <1>3, <1>4, <1>5, <1>6, Zenon DEF Hand
  <1>8. /\ g.invested = zero /\ g.stack = h.stack /\ g.total_invested = h.total_invested
        /\ g.pot = h.pot /\ g.folded = h.folded
        /\ g.street = street /\ g.board = BoardOn[street]
        /\ g.is_terminal = h.is_terminal /\ g.showdown_reached = h.showdown_reached
    BY <1>1, <1>4 DEF Hand
  <1>9. \A s \in Seats : h.total_invested[s] >= 0
    BY <1>1 DEF Running
  <1>10. Running(g, start)
    BY <1>5, <1>6, <1>7, <1>8, <1>9 DEF Running
  <1> QED BY <1>8, <1>10 DEF g

(* A new street waits for a seat that can bet, unless only the button can. *)
LEMMA OpenStreetWaits ==
    ASSUME NEW start, NEW h \in Hand, CanBet(h) # {},
           NEW street \in {"flop", "turn", "river"}
    PROVE  WaitsForCall(OpenStreet(h, street), start)
  <1> DEFINE g == OpenStreet(h, street)
             able == CanBet(h) \ {h.button}
  <1>1. /\ g.folded = h.folded /\ g.all_in = h.all_in /\ g.button = h.button /\ g.acted = {}
        /\ g.acting_seat = FirstActiveSeatAfter(h, h.button)
    BY DEF OpenStreet, Hand
  <1> HIDE DEF g
  <1>2. CanBet(g) = CanBet(h)
    BY <1>1 DEF CanBet, Active
  <1>3. able \in SUBSET Seats /\ h.button \in Seats
    BY DEF CanBet, Active, Hand
  <1>4. able # {} => WaitsForCall(g, start)
    <2> SUFFICES ASSUME able # {} PROVE WaitsForCall(g, start)
      OBVIOUS
    <2>1. FirstAfter(able, h.button) \in able
      BY <1>3, FirstAfterMember
    <2>2. FirstActiveSeatAfter(h, h.button) = FirstAfter(able, h.button)
      BY DEF FirstActiveSeatAfter
    <2>3. g.acting_seat \in CanBet(g)
      BY <2>1, <2>2, <1>1, <1>2
    <2> QED BY <2>3 DEF WaitsForCall
  <1>5. able = {} => WaitsForCall(g, start)
    <2> SUFFICES ASSUME able = {} PROVE WaitsForCall(g, start)
      OBVIOUS
    <2>1. CanBet(h) = {h.button}
      OBVIOUS
    <2> QED BY <2>1, <1>1, <1>2 DEF WaitsForCall
  <1> QED BY <1>4, <1>5 DEF g

-----------------------------------------------------------------------------
(* What is settled stays settled.                                          *)

(* Two hands with the same folds, all-ins and board.                       *)
SameSettled(g, h) == g.folded = h.folded /\ g.all_in = h.all_in /\ g.board = h.board

ComesAfter(g, h) ==
    /\ h.folded \subseteq g.folded
    /\ h.all_in \subseteq g.all_in
    /\ h.board <= g.board
    /\ ~g.is_terminal => \A s \in Seats : g.stack[s] <= h.stack[s]

(* Following is transitive along running hands.                            *)
LEMMA FollowsTrans ==
    ASSUME NEW h \in Hand, NEW g \in Hand, NEW f \in Hand, ~g.is_terminal,
           ComesAfter(g, h), ComesAfter(f, g)
    PROVE  ComesAfter(f, h)
  <1>1. /\ h.board \in Int /\ g.board \in Int /\ f.board \in Int
        /\ \A s \in Seats : h.stack[s] \in Int /\ g.stack[s] \in Int /\ f.stack[s] \in Int
    BY DEF Hand
  <1>2. f.board >= h.board
    BY <1>1 DEF ComesAfter
  <1>3. ~f.is_terminal => \A s \in Seats : f.stack[s] <= h.stack[s]
    BY <1>1 DEF ComesAfter
  <1> QED BY <1>2, <1>3 DEF ComesAfter

(* A refund and a showdown change no fold, no all-in and no card.          *)
LEMMA ShowdownSettled ==
    ASSUME NEW h \in Hand, NEW rank
    PROVE  /\ SameSettled(Showdown(RefundUncalled(h), rank), h)
           /\ Showdown(RefundUncalled(h), rank).is_terminal
  <1>1. PICK g : g = RefundUncalled(h)
    OBVIOUS
  <1>2. SameSettled(g, h) /\ DOMAIN g = DOMAIN h
    BY <1>1 DEF RefundUncalled, SameSettled, Hand
  <1>3. /\ Showdown(g, rank).folded = g.folded /\ Showdown(g, rank).all_in = g.all_in
        /\ Showdown(g, rank).board = g.board
    BY <1>2 DEF Showdown, Terminal, Hand
  <1>4. Showdown(g, rank).is_terminal
    BY <1>2 DEF Showdown, Terminal, Hand
  <1> QED BY <1>1, <1>2, <1>3, <1>4 DEF SameSettled

(* The board grows from street to street, to the five cards of the river.  *)
LEMMA OpenStreetFollows ==
    ASSUME NEW start, NEW h, Running(h, start), NEW street \in {"flop", "turn", "river"},
           BoardOn[h.street] <= BoardOn[street]
    PROVE  ComesAfter(OpenStreet(h, street), h)
  <1>1. PICK g : g = OpenStreet(h, street)
    OBVIOUS
  <1>2. h \in Hand /\ h.board <= BoardOn[street]
    BY DEF Running
  <1>3. /\ g.folded = h.folded /\ g.all_in = h.all_in /\ g.stack = h.stack
        /\ g.board = BoardOn[street]
    BY <1>1, <1>2 DEF OpenStreet, Hand
  <1>4. \A s \in Seats : h.stack[s] <= h.stack[s]
    BY <1>2 DEF Hand
  <1>5. ComesAfter(g, h)
    BY <1>2, <1>3, <1>4 DEF ComesAfter
  <1> QED BY <1>1, <1>5

(* The end of a hand follows the hand it ends, and leaves the same seats   *)
(* in and all in.                                                          *)
SameSeats(g, h) == g.folded = h.folded /\ g.all_in = h.all_in

LEMMA EndFollows ==
    ASSUME NEW start, NEW h, Running(h, start), NEW rank
    PROVE  /\ ComesAfter(RunoutAndShowdown(RefundUncalled(h), rank), h)
           /\ ComesAfter(Showdown(RefundUncalled(h), rank), h)
           /\ \A winner : ComesAfter(AwardEntirePot(h, winner), h)
           /\ SameSeats(RunoutAndShowdown(RefundUncalled(h), rank), h)
           /\ SameSeats(Showdown(RefundUncalled(h), rank), h)
           /\ \A winner : SameSeats(AwardEntirePot(h, winner), h)
  <1>1. h \in Hand /\ h.board \in 0 .. 5
    BY DEF Running, Hand
  <1>2. ASSUME NEW g, SameSettled(g, h), g.is_terminal
        PROVE  ComesAfter(g, h) /\ SameSeats(g, h)
    BY <1>1, <1>2 DEF SameSettled, ComesAfter, SameSeats
  <1>3. /\ ComesAfter(Showdown(RefundUncalled(h), rank), h)
        /\ SameSeats(Showdown(RefundUncalled(h), rank), h)
    BY <1>1, <1>2, ShowdownSettled
  <1>4. ASSUME NEW winner
        PROVE  ComesAfter(AwardEntirePot(h, winner), h) /\ SameSeats(AwardEntirePot(h, winner), h)
    <2>1. PICK g : g = AwardEntirePot(h, winner)
      OBVIOUS
    <2>2. SameSettled(g, h) /\ g.is_terminal
      BY <1>1, <2>1 DEF AwardEntirePot, Terminal, SameSettled, Hand
    <2> QED BY <1>2, <2>1, <2>2
  <1>5. /\ ComesAfter(RunoutAndShowdown(RefundUncalled(h), rank), h)
        /\ SameSeats(RunoutAndShowdown(RefundUncalled(h), rank), h)
    <2>1. PICK r : r = RefundUncalled(h)
      OBVIOUS
    <2>2. Running(r, start) /\ r \in Hand
      BY <2>1, RefundRunning DEF Running
    <2>3. SameSettled(r, h)
      BY <1>1, <2>1 DEF RefundUncalled, SameSettled, Hand
    <2>4. PICK o : o = IF r.street = "river" THEN r ELSE OpenStreet(r, "river")
      OBVIOUS
    <2>5. o \in Hand
      <3>1. Running(OpenStreet(r, "river"), start)
        BY <2>2, OpenStreetRunning
      <3>2. OpenStreet(r, "river") \in Hand
        BY <3>1 DEF Running
      <3> QED BY <2>2, <2>4, <3>2
    <2>6. o.folded = r.folded /\ o.all_in = r.all_in /\ r.board <= o.board
      <3>1. r.board \in 0 .. 5 /\ BoardOn["river"] = 5
        BY <2>2 DEF Hand, BoardOn
      <3> QED BY <2>2, <2>4, <3>1 DEF OpenStreet, Hand
    <2>7. PICK e : e = Showdown(RefundUncalled(o), rank)
      OBVIOUS
    <2>8. SameSettled(e, o) /\ e.is_terminal
      BY <2>5, <2>7, ShowdownSettled
    <2>9. ComesAfter(e, h) /\ SameSeats(e, h)
      BY <2>3, <2>6, <2>8 DEF SameSettled, ComesAfter, SameSeats
    <2>10. e = RunoutAndShowdown(RefundUncalled(h), rank)
      BY <2>1, <2>4, <2>7 DEF RunoutAndShowdown
    <2> QED BY <2>9, <2>10
  <1> QED BY <1>3, <1>4, <1>5

-----------------------------------------------------------------------------
(* The segments of the pot.                                                *)

(* The totals of a hand are what its seats have put in, nothing negative.  *)
Totals(h) == h.total_invested \in [Seats -> Nat]

LEMMA RunningTotals ==
    ASSUME NEW start, NEW h, Running(h, start)
    PROVE  Totals(h)
  <1>1. h.total_invested \in [Seats -> Int] /\ h.invested \in [Seats -> Int]
    BY DEF Running, Hand
  <1>2. \A s \in Seats : h.total_invested[s] \in Nat
    BY <1>1 DEF Running
  <1> QED BY <1>1, <1>2 DEF Totals

(* The level below a level is the next smaller total, or nothing.          *)
LEMMA LevelBelowIs ==
    ASSUME NEW h, Totals(h), NEW t \in Seats, h.total_invested[t] > 0
    PROVE  LET below == LevelBelow(h, h.total_invested[t])
           IN  /\ below \in Nat /\ below < h.total_invested[t]
               /\ below = 0 \/ \E m \in Seats : below = h.total_invested[m]
               /\ \A n \in Seats : h.total_invested[n] < h.total_invested[t]
                                   => h.total_invested[n] <= below
  <1> DEFINE T == h.total_invested
             f == [s \in Seats |-> IF T[s] < T[t] THEN T[s] ELSE 0]
             below == LevelBelow(h, T[t])
  <1>1. T \in [Seats -> Nat]
    BY DEF Totals
  <1>2. f \in [Seats -> Int] /\ \A s \in Seats : f[s] = IF T[s] < T[t] THEN T[s] ELSE 0
    BY <1>1
  <1>3. below = MaxOf({f[s] : s \in Seats})
    BY DEF LevelBelow
  <1> HIDE DEF f, below
  <1>4. PICK m \in Seats : below = f[m]
    BY <1>2, <1>3, MaxOfValues
  <1>5. \A n \in Seats : f[n] <= below
    BY <1>2, <1>3, MaxOfValues
  <1>6. below \in Nat /\ below < T[t] /\ (below = 0 \/ below = T[m])
    BY <1>1, <1>2, <1>4
  <1>7. \A n \in Seats : T[n] < T[t] => T[n] <= below
    BY <1>2, <1>5
  <1> QED BY <1>6, <1>7 DEF below

(* One seat opens each level: the first of those that put that much in.    *)
LEMMA LevelOpened ==
    ASSUME NEW h, Totals(h), NEW t \in Seats, h.total_invested[t] > 0
    PROVE  \E o \in Seats :
               /\ OpensLevel(h, o) /\ h.total_invested[o] = h.total_invested[t]
               /\ \A s \in Seats : OpensLevel(h, s) /\ h.total_invested[s] = h.total_invested[t]
                                   => s = o
  <1> DEFINE S == {s \in Seats : h.total_invested[s] = h.total_invested[t]}
             f == [s \in Seats |-> -s]
  <1>1. S \in SUBSET Seats /\ S # {} /\ f \in [Seats -> Int] /\ \A s \in Seats : f[s] = -s
    BY SeatsAssumption DEF Seats
  <1> HIDE DEF f
  <1>2. PICK o \in S : \A n \in S : f[n] <= f[o]
    BY <1>1, LargestExists
  <1>3. \A n \in S : o <= n
    BY <1>1, <1>2, SeatsAssumption DEF Seats
  <1>4. OpensLevel(h, o)
    BY <1>2, <1>3, SeatsAssumption DEF OpensLevel, Seats
  <1>5. \A s \in Seats : OpensLevel(h, s) /\ h.total_invested[s] = h.total_invested[t] => s = o
    BY <1>2, <1>3, SeatsAssumption DEF OpensLevel, Seats
  <1> QED BY <1>2, <1>4, <1>5

(* The height of the segments up to a level, at the seats that open them.  *)
Heights(h, u) ==
    [s \in Seats |-> IF OpensLevel(h, s) /\ h.total_invested[s] <= u
                     THEN h.total_invested[s] - LevelBelow(h, h.total_invested[s])
                     ELSE 0]

LEMMA HeightsType ==
    ASSUME NEW h, Totals(h), NEW u \in Nat
    PROVE  Heights(h, u) \in [Seats -> Nat]
  <1>1. ASSUME NEW s \in Seats, OpensLevel(h, s)
        PROVE  h.total_invested[s] - LevelBelow(h, h.total_invested[s]) \in Nat
    <2>1. h.total_invested[s] > 0 /\ h.total_invested[s] \in Nat
      BY <1>1 DEF OpensLevel, Totals
    <2> QED BY <2>1, LevelBelowIs
  <1> QED BY <1>1 DEF Heights

(* The segments up to a seat's total add up to that total.                 *)
LEMMA HeightsReach ==
    ASSUME NEW h, Totals(h)
    PROVE  \A t \in Seats : SeatSum(Heights(h, h.total_invested[t])) = h.total_invested[t]
  <1> DEFINE T == h.total_invested
             Reached(t) == SeatSum(Heights(h, T[t])) = T[t]
             B == {t \in Seats : ~Reached(t)}
             f == [s \in Seats |-> -T[s]]
  <1> SUFFICES ASSUME B # {} PROVE FALSE
    OBVIOUS
  <1>1. T \in [Seats -> Nat] /\ f \in [Seats -> Int] /\ B \in SUBSET Seats
        /\ \A s \in Seats : T[s] \in Nat /\ f[s] = -T[s]
    BY DEF Totals
  <1> HIDE DEF f
  <1>2. PICK t \in B : \A n \in B : f[n] <= f[t]
    BY <1>1, LargestExists
  <1>3. t \in Seats /\ T[t] \in Nat /\ ~Reached(t) /\ \A n \in Seats : T[n] < T[t] => Reached(n)
    BY <1>1, <1>2
  <1>4. SeatSum(Heights(h, 0)) = 0
    <2>1. \A s \in Seats : ~(OpensLevel(h, s) /\ T[s] <= 0)
      BY <1>1 DEF OpensLevel
    <2>2. Heights(h, 0) = [s \in Seats |-> 0]
      BY <2>1 DEF Heights
    <2> QED BY <2>2, SeatSumZero
  <1>5. T[t] > 0
    BY <1>3, <1>4
  <1> DEFINE b == LevelBelow(h, T[t])
  <1>6. /\ b \in Nat /\ b < T[t]
        /\ b = 0 \/ \E m \in Seats : b = T[m]
        /\ \A n \in Seats : T[n] < T[t] => T[n] <= b
    BY <1>3, <1>5, LevelBelowIs
  <1>7. PICK o \in Seats : /\ OpensLevel(h, o) /\ T[o] = T[t]
                           /\ \A s \in Seats : OpensLevel(h, s) /\ T[s] = T[t] => s = o
    BY <1>3, <1>5, LevelOpened
  <1>8. Heights(h, T[t]) = [Heights(h, b) EXCEPT ![o] = T[t] - b]
    <2>1. \A s \in Seats : s # o /\ OpensLevel(h, s) => (T[s] <= T[t] <=> T[s] <= b)
      BY <1>1, <1>3, <1>6, <1>7
    <2>2. \A s \in Seats : s # o => Heights(h, T[t])[s] = Heights(h, b)[s]
      BY <2>1 DEF Heights
    <2>3. Heights(h, T[t])[o] = T[t] - b
      <3>1. T[o] <= T[t]
        BY <1>3, <1>7
      <3> QED BY <3>1, <1>7 DEF Heights
    <2>4. /\ DOMAIN Heights(h, T[t]) = Seats /\ DOMAIN Heights(h, b) = Seats
          /\ Heights(h, T[t]) = [s \in Seats |-> Heights(h, T[t])[s]]
          /\ Heights(h, b) = [s \in Seats |-> Heights(h, b)[s]]
      BY DEF Heights
    <2> HIDE DEF b
    <2> QED BY <2>2, <2>3, <2>4
  <1>9. SeatSum(Heights(h, b)) = b
    <2>1. CASE b = 0
      BY <2>1, <1>4
    <2>2. CASE b # 0
      <3>1. PICK m \in Seats : b = T[m]
        BY <2>2, <1>6
      <3>2. Reached(m)
        BY <3>1, <1>3, <1>6
      <3> QED BY <3>1, <3>2
    <2> QED BY <2>1, <2>2
  <1>10. Heights(h, b)[o] = 0 /\ Heights(h, b) \in [Seats -> Int]
    <2>1. Heights(h, b) \in [Seats -> Nat]
      BY <1>6, HeightsType
    <2>2. ~(T[o] <= b)
      BY <1>3, <1>6, <1>7
    <2>3. Heights(h, b)[o] = 0
      BY <2>2 DEF Heights
    <2> QED BY <2>1, <2>3
  <1>11. SeatSum(Heights(h, T[t])) = b - 0 + (T[t] - b)
    <2>1. T[t] - b \in Int
      BY <1>3, <1>6
    <2>2. SeatSum([Heights(h, b) EXCEPT ![o] = T[t] - b])
          = SeatSum(Heights(h, b)) - Heights(h, b)[o] + (T[t] - b)
      BY <2>1, <1>10, SeatSumUpdate
    <2> QED BY <2>2, <1>8, <1>9, <1>10
  <1> QED BY <1>3, <1>6, <1>11


(* The chips in a segment, for the seat that opens it.                     *)
Opened(h, s) == IF OpensLevel(h, s) THEN SegmentAmount(h, h.total_invested[s]) ELSE 0

(* What each seat put in up to a seat's total is what the segments up to   *)
(* that total hold.                                                        *)
LEMMA SegmentsHold ==
    ASSUME NEW h, Totals(h), NEW u \in Seats
    PROVE  SeatSum([s \in Seats |-> IF h.total_invested[s] <= h.total_invested[u]
                                    THEN Opened(h, s) ELSE 0])
           = SeatSum([t \in Seats |-> Least(h.total_invested[t], h.total_invested[u])])
  <1> DEFINE T == h.total_invested
             rise(s) == T[s] - LevelBelow(h, T[s])
             inc(s) == OpensLevel(h, s) /\ T[s] <= T[u]
             F == [s \in Seats |-> [t \in Seats |->
                     IF inc(s) /\ T[s] <= T[t] THEN rise(s) ELSE 0]]
             rows == [s \in Seats |-> SeatSum(F[s])]
             column(t) == [s \in Seats |-> F[s][t]]
             columns == [t \in Seats |-> SeatSum(column(t))]
             held == [s \in Seats |-> IF T[s] <= T[u] THEN Opened(h, s) ELSE 0]
             put == [t \in Seats |-> Least(T[t], T[u])]
  <1>1. T \in [Seats -> Nat] /\ \A s \in Seats : T[s] \in Nat
    BY DEF Totals
  <1>2. \A s \in Seats : OpensLevel(h, s) => rise(s) \in Int
    <2> TAKE s \in Seats
    <2>1. OpensLevel(h, s) => LevelBelow(h, T[s]) \in Nat
      BY <1>1, LevelBelowIs DEF OpensLevel
    <2> QED BY <2>1, <1>1
  <1> HIDE DEF rise
  <1>3. F \in [Seats -> [Seats -> Int]]
    BY <1>2
  <1>4. \A s \in Seats : rows[s] = held[s]
    <2> TAKE s \in Seats
    <2>1. CASE ~inc(s)
      <3>1. F[s] = [t \in Seats |-> 0]
        BY <2>1
      <3>2. rows[s] = 0
        BY <3>1, SeatSumZero
      <3> QED BY <2>1, <3>2 DEF Opened
    <2>2. CASE inc(s)
      <3> DEFINE S == Contributors(h, T[s])
      <3>1. S \in SUBSET Seats /\ \A t \in Seats : t \in S <=> T[s] <= T[t]
        BY <1>1 DEF Contributors
      <3>2. F[s] = [t \in Seats |-> IF t \in S THEN rise(s) ELSE 0]
        BY <2>2, <3>1
      <3> HIDE DEF S
      <3>3. rows[s] = rise(s) * Count(S)
        BY <2>2, <3>1, <3>2, <1>2, SeatSumShares
      <3> QED BY <2>2, <3>3 DEF S, Opened, SegmentAmount, rise
    <2> QED BY <2>1, <2>2
  <1>5. \A t \in Seats : columns[t] = put[t]
    <2> TAKE t \in Seats
    <2>1. \E m \in Seats : put[t] = T[m]
      BY DEF Least
    <2>2. SeatSum(Heights(h, put[t])) = put[t]
      BY <2>1, HeightsReach
    <2>3. \A s \in Seats : inc(s) /\ T[s] <= T[t] <=> OpensLevel(h, s) /\ T[s] <= put[t]
      BY <1>1 DEF Least
    <2>4. column(t) = Heights(h, put[t])
      BY <2>3 DEF Heights, rise
    <2> QED BY <2>2, <2>4
  <1>6. SeatSum(rows) = SeatSum(columns)
    BY <1>3, SeatSumExchange
  <1>7. rows = held
    BY <1>4
  <1>8. columns = put
    BY <1>5
  <1> QED BY <1>6, <1>7, <1>8

(* The chips in a segment are a number of chips.                           *)
LEMMA OpenedType ==
    ASSUME NEW h, Totals(h)
    PROVE  \A s \in Seats : Opened(h, s) \in Nat
  <1> SUFFICES ASSUME NEW s \in Seats, OpensLevel(h, s)
               PROVE  SegmentAmount(h, h.total_invested[s]) \in Nat
    BY DEF Opened
  <1>1. h.total_invested[s] \in Nat /\ h.total_invested[s] > 0
    BY DEF Totals, OpensLevel
  <1>2. h.total_invested[s] - LevelBelow(h, h.total_invested[s]) \in Nat
    BY <1>1, LevelBelowIs
  <1>3. Count(Contributors(h, h.total_invested[s])) \in Nat
    BY CountPositive DEF Contributors
  <1>4. \A a, b \in Nat : a * b \in Nat
    OBVIOUS
  <1> QED BY <1>2, <1>3, <1>4 DEF SegmentAmount

(* All the segments together hold the pot.                                 *)
LEMMA SegmentsHoldPot ==
    ASSUME NEW h, Totals(h)
    PROVE  SeatSum([s \in Seats |-> Opened(h, s)]) = SeatSum(h.total_invested)
  <1> DEFINE T == h.total_invested
  <1>1. T \in [Seats -> Int] /\ (\A s \in Seats : T[s] \in Nat) /\ Seats # {} /\ Seats \in SUBSET Seats
    BY SeatsAssumption DEF Totals, Seats
  <1>2. PICK u \in Seats : \A s \in Seats : T[s] <= T[u]
    BY <1>1, LargestExists
  <1>3. [s \in Seats |-> IF T[s] <= T[u] THEN Opened(h, s) ELSE 0] = [s \in Seats |-> Opened(h, s)]
    BY <1>2
  <1>4. [t \in Seats |-> Least(T[t], T[u])] = T
    BY <1>1, <1>2 DEF Least
  <1>5. SeatSum([s \in Seats |-> IF T[s] <= T[u] THEN Opened(h, s) ELSE 0])
        = SeatSum([t \in Seats |-> Least(T[t], T[u])])
    BY SegmentsHold
  <1> QED BY <1>3, <1>4, <1>5

-----------------------------------------------------------------------------
(* The end of a hand.                                                      *)

(* The part of a segment a seat is paid is a number of chips.              *)
LEMMA SegmentShareType ==
    ASSUME NEW start, NEW h, Running(h, start), NEW rank, NEW seat \in Seats,
           NEW s \in Seats,
           OpensLevel(h, s)
    PROVE  SegmentShare(h, rank, h.total_invested[s], seat) \in Nat
  <1> DEFINE level == h.total_invested[s]
             winners == SegmentWinners(h, rank, level)
             amount == SegmentAmount(h, level)
             f == [t \in Seats |-> IF h.total_invested[t] < level THEN h.total_invested[t] ELSE 0]
  <1>1. h.total_invested \in [Seats -> Int] /\ level \in Int /\ level > 0 /\ Seats # {}
    BY DEF Running, Hand, OpensLevel
  <1>2. f \in [Seats -> Int] /\ \A t \in Seats : f[t] < level
    BY <1>1
  <1>3. LevelBelow(h, level) \in Int /\ LevelBelow(h, level) < level
    <2>1. LevelBelow(h, level) = MaxOf({f[t] : t \in Seats})
      BY DEF LevelBelow
    <2>2. PICK m \in Seats : MaxOf({f[t] : t \in Seats}) = f[m]
      BY <1>1, <1>2, MaxOfValues
    <2> QED BY <1>1, <1>2, <2>1, <2>2
  <1>4. Count(Contributors(h, level)) \in Nat
    BY CountPositive DEF Contributors
  <1>5. amount \in Nat
    <2>1. \A a, b \in Nat : a * b \in Nat
      OBVIOUS
    <2> QED BY <1>1, <1>3, <1>4, <2>1 DEF SegmentAmount
  <1>6. winners \in SUBSET Seats
    BY DEF SegmentWinners, Contributors
  <1>7. Count(winners) \in Nat /\ (seat \in winners => Count(winners) > 0)
    BY <1>6, CountPositive
  <1> HIDE DEF level, winners, amount
  <1>8. \A a, n \in Nat : n > 0 => a \div n \in Nat /\ a % n \in Nat
    OBVIOUS
  <1> QED BY <1>5, <1>7, <1>8 DEF SegmentShare, level, winners, amount

(* What a seat is paid at the showdown is a number of chips.               *)
LEMMA PayoutType ==
    ASSUME NEW start, NEW h, Running(h, start), NEW rank, NEW seat \in Seats
    PROVE  Payout(h, rank, seat) \in Nat
  <1> DEFINE f == [s \in Seats |-> IF OpensLevel(h, s)
                                   THEN SegmentShare(h, rank, h.total_invested[s], seat)
                                   ELSE 0]
  <1>1. f \in [Seats -> Nat]
    BY SegmentShareType
  <1> QED BY <1>1, SeatSumNat DEF Payout

(* A folded seat wins no segment.                                          *)
LEMMA FoldedUnpaid ==
    ASSUME NEW h, NEW rank, NEW seat \in h.folded
    PROVE  Payout(h, rank, seat) = 0
  <1>1. \A level : SegmentShare(h, rank, level, seat) = 0
    BY DEF SegmentShare, SegmentWinners
  <1>2. [s \in Seats |-> IF OpensLevel(h, s)
                         THEN SegmentShare(h, rank, h.total_invested[s], seat)
                         ELSE 0] = [s \in Seats |-> 0]
    BY <1>1
  <1> QED BY <1>2, SeatSumZero DEF Payout

(* Quotient and remainder, for as many winners as there can be.            *)
LEMMA Division ==
    ASSUME NEW a \in Nat, NEW n \in 1 .. 6
    PROVE  /\ a \div n \in Nat /\ a % n \in Nat
           /\ (a \div n) * n + (a % n) = a
           /\ (a \div n) + (a % n) <= a
  <1>1. a \div n \in Nat /\ a % n \in Nat
    OBVIOUS
  <1>2. PICK q \in Nat : q = a \div n
    BY <1>1
  <1>3. PICK r \in Nat : r = a % n
    BY <1>1
  <1>4. q * n + r = a
    BY <1>2, <1>3
  <1>5. q <= q * n /\ q * n \in Nat
    OBVIOUS
  <1>6. q + r <= a
    BY <1>4, <1>5
  <1> QED BY <1>1, <1>2, <1>3, <1>4, <1>6

(* A set of seats with a member counts one to six.                         *)
LEMMA CountRange ==
    ASSUME NEW S \in SUBSET Seats, S # {}
    PROVE  Count(S) \in 1 .. 6
  <1>1. \A k \in 0 .. 5 : Mark(S, k) \in {0, 1}
    BY DEF Mark
  <1>2. Count(S) \in Nat /\ Count(S) > 0
    BY CountPositive
  <1> QED BY <1>1, <1>2, CountTerms

(* The ranking of the hands is total: whoever may win, somebody does.      *)
LEMMA WinnersExist ==
    ASSUME NEW h, NEW rank \in Rankings, NEW level, Contributors(h, level) \ h.folded # {}
    PROVE  SegmentWinners(h, rank, level) # {}
  <1> DEFINE S == Contributors(h, level) \ h.folded
  <1>1. S \in SUBSET Seats /\ rank \in [Seats -> Int]
    BY BoundsAssumption DEF Contributors
  <1>2. PICK m \in S : \A n \in S : rank[n] <= rank[m]
    BY <1>1, LargestExists
  <1> QED BY <1>2 DEF SegmentWinners

(* A segment with a winner is paid out to the last chip.                   *)
LEMMA SharesAddUp ==
    ASSUME NEW h, Totals(h), h.button \in Seats, NEW rank, NEW level,
           SegmentAmount(h, level) \in Nat, SegmentWinners(h, rank, level) # {}
    PROVE  SeatSum([seat \in Seats |-> SegmentShare(h, rank, level, seat)])
           = SegmentAmount(h, level)
  <1> DEFINE W == SegmentWinners(h, rank, level)
             a == SegmentAmount(h, level)
             n == Count(W)
             q == a \div n
             r == a % n
             odd == FirstAfter(W, h.button)
             even == [seat \in Seats |-> IF seat \in W THEN q ELSE 0]
             shares == [seat \in Seats |-> SegmentShare(h, rank, level, seat)]
  <1>1. W \in SUBSET Seats /\ W # {}
    BY DEF SegmentWinners, Contributors
  <1>2. n \in 1 .. 6 /\ odd \in W /\ odd \in Seats
    BY <1>1, CountRange, FirstAfterMember
  <1>3. q \in Nat /\ r \in Nat /\ q * n + r = a
    BY <1>2, Division
  <1>4. \A seat \in Seats : shares[seat] = IF seat \notin W THEN 0
                                           ELSE q + IF seat = odd THEN r ELSE 0
    BY DEF SegmentShare
  <1> HIDE DEF a, n, odd, q, r
  <1>5. even \in [Seats -> Int] /\ SeatSum(even) = q * n
    BY <1>1, <1>3, SeatSumShares DEF n
  <1> HIDE DEF W
  <1>6. shares = [even EXCEPT ![odd] = q + r]
    <2>1. \A seat \in Seats : shares[seat] = [even EXCEPT ![odd] = q + r][seat]
      BY <1>2, <1>3, <1>4
    <2> QED BY <2>1
  <1>7. SeatSum([even EXCEPT ![odd] = q + r])
        = SeatSum(even) - even[odd] + (q + r)
    BY <1>2, <1>3, <1>5, SeatSumUpdate
  <1>8. even[odd] = q
    BY <1>2
  <1> HIDE DEF even, shares
  <1>9. SeatSum(shares) = a
    BY <1>2, <1>3, <1>5, <1>6, <1>7, <1>8
  <1> QED BY <1>9 DEF shares, a

(* What a seat is paid from the segment another seat opens.                *)
Paid(h, rank, seat) ==
    [s \in Seats |-> IF OpensLevel(h, s)
                     THEN SegmentShare(h, rank, h.total_invested[s], seat)
                     ELSE 0]

LEMMA PaidType ==
    ASSUME NEW start, NEW h, Running(h, start), NEW rank, NEW seat \in Seats
    PROVE  Paid(h, rank, seat) \in [Seats -> Nat]
  BY SegmentShareType DEF Paid

(* Unless a folded seat put in more than everybody left, the payouts add   *)
(* up to the pot.                                                          *)
LEMMA PayoutsAddUp ==
    ASSUME NEW start, NEW h, Running(h, start), Covered(h), NEW rank \in Rankings
    PROVE  SeatSum([seat \in Seats |-> Payout(h, rank, seat)]) = SeatSum(h.total_invested)
  <1> DEFINE F == [seat \in Seats |-> Paid(h, rank, seat)]
             rows == [seat \in Seats |-> SeatSum(F[seat])]
             column(s) == [seat \in Seats |-> F[seat][s]]
             columns == [s \in Seats |-> SeatSum(column(s))]
  <1>1. Totals(h) /\ h.button \in Seats
    BY RunningTotals DEF Running, Hand
  <1>2. F \in [Seats -> [Seats -> Int]]
    <2>1. \A seat \in Seats : Paid(h, rank, seat) \in [Seats -> Nat]
      BY PaidType
    <2> QED BY <2>1
  <1>3. rows = [seat \in Seats |-> Payout(h, rank, seat)]
    BY DEF Payout, Paid
  <1>4. \A s \in Seats : columns[s] = Opened(h, s)
    <2> TAKE s \in Seats
    <2> DEFINE level == h.total_invested[s]
    <2>1. CASE ~OpensLevel(h, s)
      <3>1. column(s) = [seat \in Seats |-> 0]
        BY <2>1 DEF Paid
      <3> QED BY <2>1, <3>1, SeatSumZero DEF Opened
    <2>2. CASE OpensLevel(h, s)
      <3>1. column(s) = [seat \in Seats |-> SegmentShare(h, rank, level, seat)]
        BY <2>2 DEF Paid
      <3>2. SegmentAmount(h, level) \in Nat
        BY <1>1, <2>2, OpenedType DEF Opened
      <3>3. \E t \in Seats : t \notin h.folded /\ h.total_invested[s] <= h.total_invested[t]
        BY <1>1 DEF Covered, Active, Totals
      <3>4. Contributors(h, level) \ h.folded # {}
        BY <3>3, <1>1 DEF Contributors, Totals
      <3>5. SegmentWinners(h, rank, level) # {}
        BY <3>4, WinnersExist
      <3> HIDE DEF level
      <3>6. columns[s] = SegmentAmount(h, level)
        BY <1>1, <3>1, <3>2, <3>5, SharesAddUp
      <3> QED BY <2>2, <3>6 DEF Opened, level
    <2> QED BY <2>1, <2>2
  <1>5. columns = [s \in Seats |-> Opened(h, s)]
    BY <1>4
  <1>6. SeatSum(rows) = SeatSum(columns)
    BY <1>2, SeatSumExchange
  <1>7. SeatSum([s \in Seats |-> Opened(h, s)]) = SeatSum(h.total_invested)
    BY <1>1, SegmentsHoldPot
  <1> QED BY <1>3, <1>5, <1>6, <1>7

(* Nobody is paid more than the seats together put in up to its own total. *)
LEMMA PayoutCap ==
    ASSUME NEW start, NEW h, Running(h, start), NEW rank, NEW seat \in Seats
    PROVE  Payout(h, rank, seat)
           <= SeatSum([t \in Seats |-> Least(h.total_invested[t], h.total_invested[seat])])
  <1> DEFINE T == h.total_invested
             paid == Paid(h, rank, seat)
             held == [s \in Seats |-> IF T[s] <= T[seat] THEN Opened(h, s) ELSE 0]
  <1>1. Totals(h)
    BY RunningTotals
  <1>2. paid \in [Seats -> Int] /\ held \in [Seats -> Int]
    <2>1. \A s \in Seats : Opened(h, s) \in Nat
      BY <1>1, OpenedType
    <2>2. paid \in [Seats -> Nat]
      BY PaidType
    <2> QED BY <2>1, <2>2
  <1>3. \A s \in Seats : paid[s] <= held[s]
    <2> TAKE s \in Seats
    <2> DEFINE W == SegmentWinners(h, rank, T[s])
               a == SegmentAmount(h, T[s])
    <2>1. Opened(h, s) \in Nat /\ (OpensLevel(h, s) => Opened(h, s) = a)
      BY <1>1, OpenedType DEF Opened
    <2>2. CASE ~OpensLevel(h, s) \/ seat \notin W
      <3>1. paid[s] = 0
        BY <2>2 DEF Paid, SegmentShare
      <3> QED BY <2>1, <3>1
    <2>3. CASE OpensLevel(h, s) /\ seat \in W
      <3>1. W \in SUBSET Seats /\ W # {} /\ T[s] <= T[seat]
        BY <2>3, <1>1 DEF SegmentWinners, Contributors, Totals
      <3>2. Count(W) \in 1 .. 6 /\ a \in Nat
        BY <2>1, <2>3, <3>1, CountRange
      <3>3. /\ a \div Count(W) \in Nat /\ a % Count(W) \in Nat
            /\ (a \div Count(W)) + (a % Count(W)) <= a
        BY <3>2, Division
      <3>4. paid[s] = a \div Count(W) + (IF seat = FirstAfter(W, h.button)
                                         THEN a % Count(W) ELSE 0)
        BY <2>3 DEF Paid, SegmentShare
      <3>5. held[s] = a
        BY <2>1, <2>3, <3>1
      <3> HIDE DEF a, W
      <3> QED BY <3>2, <3>3, <3>4, <3>5
    <2> QED BY <2>2, <2>3
  <1>4. Payout(h, rank, seat) = SeatSum(paid)
    BY DEF Payout, Paid
  <1>5. SeatSum(held) = SeatSum([t \in Seats |-> Least(T[t], T[seat])])
    BY <1>1, SegmentsHold
  <1> HIDE DEF paid, held
  <1>6. SeatSum(paid) <= SeatSum(held)
    BY <1>2, <1>3, SeatSumMonotone
  <1> QED BY <1>4, <1>5, <1>6

(* Until a hand ends, stacks and pot add up to what it started with.       *)
LEMMA RunningConserves ==
    ASSUME NEW start, NEW h, Running(h, start)
    PROVE  SeatSum(h.stack) + h.pot = SeatSum(start)
  <1>1. /\ h.stack \in [Seats -> Int] /\ h.total_invested \in [Seats -> Int]
        /\ \A s \in Seats : h.stack[s] + h.total_invested[s] = start[s]
        /\ h.pot = SeatSum(h.total_invested)
    BY DEF Running, Hand
  <1>2. \A k \in 0 .. 5 :
            /\ Term(h.stack, k) \in Int /\ Term(h.total_invested, k) \in Int
            /\ Term(h.stack, k) = IF k \in Seats THEN h.stack[k] ELSE 0
            /\ Term(h.total_invested, k) = IF k \in Seats THEN h.total_invested[k] ELSE 0
    BY <1>1, SeatSumTerms
  <1>3. \A k \in 0 .. 5 : Term(start, k) = IF k \in Seats THEN start[k] ELSE 0
    BY SeatsAssumption DEF Term, Seats
  <1>4. \A k \in 0 .. 5 : Term(start, k) = Term(h.stack, k) + Term(h.total_invested, k)
    BY <1>1, <1>2, <1>3
  <1> QED BY <1>1, <1>2, <1>4 DEF SeatSum

(* With its payout no seat has more than the stacks of the others allow.   *)
LEMMA PayoutCapped ==
    ASSUME NEW start \in [Seats -> Nat], NEW h, Running(h, start), NEW rank, NEW s \in Seats
    PROVE  h.stack[s] + Payout(h, rank, s)
           <= SeatSum([t \in Seats |-> Least(start[t], start[s])])
  <1> DEFINE T == h.total_invested
             put == [t \in Seats |-> Least(T[t], T[s])]
             all == [t \in Seats |-> Least(start[t], start[s])]
             mine == [put EXCEPT ![s] = start[s]]
  <1>1. /\ T \in [Seats -> Nat] /\ h.stack \in [Seats -> Int]
        /\ \A t \in Seats : /\ h.stack[t] + T[t] = start[t] /\ h.stack[t] >= 0
                             /\ T[t] \in Nat /\ start[t] \in Nat /\ T[t] <= start[t]
    <2>1. T \in [Seats -> Nat] /\ h.stack \in [Seats -> Int]
      BY RunningTotals DEF Totals, Running, Hand
    <2> QED BY <2>1 DEF Running
  <1>2. put \in [Seats -> Int] /\ put[s] = T[s]
    BY <1>1 DEF Least
  <1>3. mine \in [Seats -> Int] /\ all \in [Seats -> Int] /\ \A t \in Seats : mine[t] <= all[t]
    BY <1>1 DEF Least
  <1>4. SeatSum(mine) <= SeatSum(all)
    BY <1>3, SeatSumMonotone
  <1> HIDE DEF all
  <1>5. Payout(h, rank, s) <= SeatSum(put) /\ Payout(h, rank, s) \in Nat
    BY PayoutCap, PayoutType
  <1> HIDE DEF put
  <1>6. SeatSum(mine) = SeatSum(put) - T[s] + start[s] /\ SeatSum(put) \in Int
    <2>1. start[s] \in Int
      BY <1>1
    <2>2. SeatSum([put EXCEPT ![s] = start[s]]) = SeatSum(put) - put[s] + start[s]
      BY <2>1, <1>2, SeatSumUpdate
    <2> QED BY <2>2, <1>2, SeatSumType
  <1>7. SeatSum(all) \in Int
    BY <1>3, SeatSumType
  <1>8. h.stack[s] \in Int /\ T[s] \in Nat /\ start[s] \in Nat /\ h.stack[s] + T[s] = start[s]
    BY <1>1
  <1> HIDE DEF mine, T
  <1>9. h.stack[s] + Payout(h, rank, s) <= SeatSum(all)
    BY <1>4, <1>5, <1>6, <1>7, <1>8
  <1> QED BY <1>9 DEF all

(* _showdown ends a hand of two or more players on the full board.         *)
LEMMA ShowdownOver ==
    ASSUME NEW start \in [Seats -> Nat],
           NEW h, Running(h, start), Count(Active(h)) >= 2, h.street = "river",
           NEW rank \in Rankings
    PROVE  Ended(Showdown(h, rank), start) /\ Gains(Showdown(h, rank), h)
  <1> DEFINE payout == [s \in Seats |-> Payout(h, rank, s)]
             paid == {s \in Seats : payout[s] > 0}
             winner == IF Count(paid) = 1 THEN CHOOSE s \in paid : TRUE ELSE None
             stack == [s \in Seats |-> h.stack[s] + payout[s]]
             g == Showdown(h, rank)
  <1>1. h \in Hand /\ h.stack \in [Seats -> Int] /\ h.board = 5
        /\ \A s \in Seats : /\ h.stack[s] >= 0 /\ h.invested[s] >= 0
                            /\ h.total_invested[s] >= h.invested[s]
    <2>1. BoardOn["river"] = 5
      BY DEF BoardOn
    <2> QED BY <2>1 DEF Running, Hand
  <1>2. payout \in [Seats -> Nat]
    BY PayoutType
  <1>10. \A s \in h.folded : payout[s] = 0 /\ s \in Seats
    BY FoldedUnpaid DEF Running, Hand
  <1>3. g = [h EXCEPT !.pot = 0, !.winner_seat = winner, !.is_terminal = TRUE,
                      !.street = "terminal", !.acting_seat = None, !.to_call = 0,
                      !.stack = stack, !.showdown_reached = TRUE]
    BY <1>1 DEF Showdown, Terminal, Hand
  <1> HIDE DEF payout
  <1>4. winner \in Seats \cup {None}
    <2>1. Count(paid) = 1 => paid # {}
      <3>1. Count({}) = 0
        BY CountTerms DEF Mark
      <3> QED BY <3>1
    <2> QED BY <2>1
  <1>5. stack \in [Seats -> Int] /\ \A s \in Seats : stack[s] >= 0
    BY <1>1, <1>2
  <1>9. /\ 0 \in Int /\ None \in Seats \cup {None} /\ TRUE \in BOOLEAN
        /\ "terminal" \in {"pre_flop", "flop", "turn", "river", "terminal"}
    OBVIOUS
  <1> HIDE DEF g, stack, winner
  <1>6. g \in Hand
    BY <1>1, <1>3, <1>4, <1>5, <1>9, Zenon DEF Hand
  <1>7. /\ g.pot = 0 /\ g.stack = stack /\ g.invested = h.invested
        /\ g.total_invested = h.total_invested /\ g.folded = h.folded /\ g.board = h.board
        /\ g.is_terminal /\ g.showdown_reached
    BY <1>1, <1>3 DEF Hand
  <1>8. Active(g) = Active(h)
    BY <1>7 DEF Active
  <1>11. \A s \in h.folded : stack[s] + h.total_invested[s] = start[s]
    BY <1>1, <1>10 DEF Running, stack
  <1>12. Covered(g) => SeatSum(stack) = SeatSum(start)
    <2> SUFFICES ASSUME Covered(g) PROVE SeatSum(stack) = SeatSum(start)
      OBVIOUS
    <2>1. Covered(h)
      BY <1>7, <1>8 DEF Covered
    <2>2. SeatSum(payout) = SeatSum(h.total_invested)
      BY <2>1, PayoutsAddUp DEF payout
    <2>3. SeatSum(stack) = SeatSum(h.stack) + SeatSum(payout)
      <3>1. payout \in [Seats -> Int]
        BY <1>2
      <3> QED BY <3>1, <1>1, SeatSumAdd DEF stack
    <2> QED BY <2>2, <2>3, RunningConserves DEF Running
  <1>13. Capped(g, start)
    <2>1. \A s \in Seats : stack[s] = h.stack[s] + Payout(h, rank, s)
      BY DEF stack, payout
    <2> QED BY <2>1, <1>7, PayoutCapped DEF Capped
  <1>14. Gains(g, h)
    BY <1>1, <1>2, <1>7, <1>10 DEF Gains, stack
  <1> QED BY <1>1, <1>5, <1>6, <1>7, <1>8, <1>11, <1>12, <1>13, <1>14 DEF Ended, g

(* _award_entire_pot gives the last active seat the pot.                   *)
LEMMA AwardOver ==
    ASSUME NEW start, NEW h, Running(h, start), NEW winner \in Seats, Active(h) = {winner}
    PROVE  Ended(AwardEntirePot(h, winner), start) /\ Gains(AwardEntirePot(h, winner), h)
  <1> DEFINE g == AwardEntirePot(h, winner)
             stack == [h.stack EXCEPT ![winner] = @ + h.pot]
  <1>1. h \in Hand /\ h.stack \in [Seats -> Int]
        /\ h.total_invested \in [Seats -> Int] /\ h.invested \in [Seats -> Int]
        /\ ~h.showdown_reached /\ h.pot = SeatSum(h.total_invested)
        /\ \A s \in Seats : /\ h.stack[s] >= 0 /\ h.invested[s] >= 0
                            /\ h.total_invested[s] >= h.invested[s]
    BY DEF Running, Hand
  <1>2. h.pot \in Nat
    <2>1. h.total_invested \in [Seats -> Nat]
      BY <1>1
    <2> QED BY <1>1, <2>1, SeatSumNat
  <1>3. g = [h EXCEPT !.pot = 0, !.winner_seat = winner, !.is_terminal = TRUE,
                      !.street = "terminal", !.acting_seat = None, !.to_call = 0,
                      !.stack = stack]
    BY <1>1 DEF AwardEntirePot, Terminal, Hand
  <1>4. stack \in [Seats -> Int] /\ \A s \in Seats : stack[s] >= 0
    BY <1>1, <1>2
  <1>8. winner \in Seats \cup {None} /\ 0 \in Int /\ None \in Seats \cup {None} /\ TRUE \in BOOLEAN
        /\ "terminal" \in {"pre_flop", "flop", "turn", "river", "terminal"}
    OBVIOUS
  <1> HIDE DEF g, stack
  <1>5. g \in Hand
    BY <1>1, <1>3, <1>4, <1>8, Zenon DEF Hand
  <1>6. /\ g.pot = 0 /\ g.stack = stack /\ g.invested = h.invested
        /\ g.total_invested = h.total_invested /\ g.folded = h.folded
        /\ g.is_terminal /\ g.showdown_reached = h.showdown_reached
        /\ g.winner_seat = winner
    BY <1>1, <1>3 DEF Hand
  <1>7. Active(g) = {g.winner_seat} /\ g.winner_seat # None
    BY <1>6, NoneAssumption DEF Active
  <1>9. \A s \in h.folded : stack[s] + h.total_invested[s] = start[s]
    <2>1. \A s \in h.folded : s \in Seats /\ s # winner
      BY <1>1 DEF Active, Hand
    <2> QED BY <1>1, <2>1 DEF Running, stack
  <1>10. SeatSum(stack) = SeatSum(start)
    <2>1. SeatSum(h.stack) + h.pot = SeatSum(start) /\ SeatSum(h.stack) \in Int
      BY <1>1, RunningConserves, SeatSumType
    <2>2. h.stack[winner] \in Int /\ h.stack[winner] + h.pot \in Int
      BY <1>1, <1>2
    <2>3. SeatSum(stack) = SeatSum(h.stack) - h.stack[winner] + (h.stack[winner] + h.pot)
      BY <2>2, <1>1, SeatSumUpdate DEF stack
    <2> QED BY <2>1, <2>2, <2>3, <1>2
  <1>11. Gains(g, h)
    <2>1. \A s \in h.folded : s # winner
      BY DEF Active
    <2>2. \A s \in Seats : stack[s] >= h.stack[s] /\ (s # winner => stack[s] = h.stack[s])
      BY <1>1, <1>2 DEF stack
    <2> QED BY <2>1, <2>2, <1>6 DEF Gains
  <1> QED BY <1>1, <1>4, <1>5, <1>6, <1>7, <1>9, <1>10, <1>11 DEF Ended, g

(* Running the board out ends the hand at a showdown.                      *)
LEMMA RunoutOver ==
    ASSUME NEW start \in [Seats -> Nat],
           NEW h, Running(h, start), Count(Active(h)) >= 2, NEW rank \in Rankings
    PROVE  Ended(RunoutAndShowdown(h, rank), start) /\ Gains(RunoutAndShowdown(h, rank), h)
  <1> DEFINE onRiver == IF h.street = "river" THEN h ELSE OpenStreet(h, "river")
  <1>1. Running(onRiver, start) /\ onRiver.folded = h.folded /\ onRiver.street = "river"
    BY OpenStreetRunning
  <1>5. Gains(onRiver, h)
    <2>1. onRiver.stack = h.stack /\ \A s \in Seats : h.stack[s] \in Int
      BY DEF OpenStreet, Running, Hand
    <2> HIDE DEF onRiver
    <2> QED BY <2>1, <1>1 DEF Gains
  <1> HIDE DEF onRiver
  <1>2. /\ Running(RefundUncalled(onRiver), start)
        /\ RefundUncalled(onRiver).folded = h.folded
        /\ RefundUncalled(onRiver).street = "river"
        /\ Gains(RefundUncalled(onRiver), onRiver)
    BY <1>1, RefundRunning
  <1>3. Count(Active(RefundUncalled(onRiver))) >= 2
    BY <1>2 DEF Active
  <1> DEFINE r == RefundUncalled(onRiver)
             e == Showdown(r, rank)
  <1>4. Ended(e, start) /\ Gains(e, r)
    BY <1>2, <1>3, ShowdownOver
  <1>6. h \in Hand /\ onRiver \in Hand /\ r \in Hand /\ e \in Hand
    BY <1>1, <1>2, <1>4 DEF Running, Ended
  <1>7. Gains(r, h)
    BY <1>2, <1>5, <1>6, GainsTrans
  <1>8. Gains(e, h)
    BY <1>4, <1>6, <1>7, GainsTrans
  <1> QED BY <1>4, <1>8 DEF RunoutAndShowdown, onRiver

(* Closing a betting round opens the next one or ends the hand.            *)
LEMMA AdvanceSound ==
    ASSUME NEW start \in [Seats -> Nat],
           NEW h, Running(h, start), Count(Active(h)) >= 2, CanBet(h) # {},
           NEW rank \in Rankings
    PROVE  /\ Sound(AdvanceStreetOrShowdown(h, rank), start)
           /\ Settles(AdvanceStreetOrShowdown(h, rank), h)
  <1>1. CASE h.street = "river"
    <2>1. /\ Running(RefundUncalled(h), start)
          /\ RefundUncalled(h).folded = h.folded
          /\ RefundUncalled(h).street = "river"
          /\ Gains(RefundUncalled(h), h)
      BY <1>1, RefundRunning
    <2>2. Count(Active(RefundUncalled(h))) >= 2
      BY <2>1 DEF Active
    <2> DEFINE r == RefundUncalled(h)
               e == Showdown(r, rank)
    <2>3. Ended(e, start) /\ Gains(e, r)
      BY <2>1, <2>2, ShowdownOver
    <2>4. h \in Hand /\ r \in Hand /\ e \in Hand /\ e.is_terminal
      BY <2>1, <2>3 DEF Running, Ended
    <2>5. Gains(e, h)
      BY <2>1, <2>3, <2>4, GainsTrans
    <2>6. Sound(e, start) /\ Settles(e, h)
      BY <2>3, <2>4, <2>5 DEF Sound, Settles
    <2> QED BY <1>1, <2>6 DEF AdvanceStreetOrShowdown
  <1>2. CASE h.street # "river"
    <2> DEFINE street == NextStreet[h.street]
               g == OpenStreet(h, street)
    <2>1. h.street \in {"pre_flop", "flop", "turn"}
      BY <1>2 DEF Running, Hand
    <2>2. street \in {"flop", "turn", "river"}
      BY <2>1 DEF NextStreet
    <2> HIDE DEF street
    <2>5. WaitsForCall(g, start)
      BY <2>2, OpenStreetWaits DEF Running
    <2>3. Running(g, start) /\ g.folded = h.folded
      BY <2>2, OpenStreetRunning
    <2>4. Count(Active(g)) >= 2
      BY <2>3 DEF Active
    <2>6. Settles(g, h)
      <3>1. h \in Hand /\ ~h.is_terminal
        BY DEF Running
      <3>2. g.stack = h.stack /\ g.total_invested = h.total_invested /\ g.is_terminal = h.is_terminal
        BY <3>1 DEF OpenStreet, Hand
      <3> HIDE DEF g
      <3> QED BY <2>3, <3>1, <3>2 DEF Settles
    <2> QED BY <1>2, <2>3, <2>4, <2>5, <2>6 DEF AdvanceStreetOrShowdown, Sound, street
  <1> QED BY <1>1, <1>2

(* _resolve_after_action, whatever it decides, leaves a sound hand.        *)
LEMMA ResolveSound ==
    ASSUME NEW start \in [Seats -> Nat],
           NEW h, Running(h, start), Active(h) # {}, h.acting_seat \in Seats,
           NEW rank \in Rankings
    PROVE  /\ Sound(ResolveAfterAction(h, rank), start)
           /\ ComesAfter(ResolveAfterAction(h, rank), h)
           /\ Settles(ResolveAfterAction(h, rank), h)
  <1> DEFINE active == Active(h)
             next == CanBet(h) \ {h.acting_seat}
             nextSeat == FirstAfter(next, h.acting_seat)
             waiting == [h EXCEPT !.acting_seat = nextSeat, !.to_call = ToCall(h, nextSeat)]
  <1>1. active \in SUBSET Seats /\ Count(active) \in Nat /\ Count(active) > 0
    BY CountPositive DEF Active
  <1>2. CASE Count(active) = 1
    <2> DEFINE winner == CHOOSE s \in active : TRUE
    <2>1. winner \in active /\ \A t \in active : t = winner
      BY <1>1, <1>2, CountMany
    <2>2. active = {winner} /\ winner \in Seats
      BY <1>1, <2>1
    <2> DEFINE e == AwardEntirePot(h, winner)
    <2>3. Ended(e, start) /\ Gains(e, h)
      BY <2>2, AwardOver
    <2>4. Sound(e, start) /\ Settles(e, h)
      BY <2>3 DEF Sound, Ended, Settles
    <2> QED BY <1>2, <2>4, EndFollows DEF ResolveAfterAction
  <1>3. CASE Count(active) # 1
    <2>1. Count(active) >= 2
      BY <1>1, <1>3
    <2>2. /\ Sound(RunoutAndShowdown(RefundUncalled(h), rank), start)
          /\ Settles(RunoutAndShowdown(RefundUncalled(h), rank), h)
      <3> DEFINE r == RefundUncalled(h)
                 e == RunoutAndShowdown(r, rank)
      <3>1. Running(r, start) /\ r.folded = h.folded /\ Gains(r, h)
        BY RefundRunning
      <3>2. Count(Active(r)) >= 2
        BY <2>1, <3>1 DEF Active
      <3>3. Ended(e, start) /\ Gains(e, r)
        BY <3>1, <3>2, RunoutOver
      <3>4. h \in Hand /\ r \in Hand /\ e \in Hand /\ e.is_terminal
        BY <3>1, <3>3 DEF Running, Ended
      <3>5. Gains(e, h)
        BY <3>1, <3>3, <3>4, GainsTrans
      <3> QED BY <3>3, <3>4, <3>5 DEF Sound, Settles
    <2>3. next # {} => /\ Sound(AdvanceStreetOrShowdown(h, rank), start)
                       /\ Settles(AdvanceStreetOrShowdown(h, rank), h)
      BY <2>1, AdvanceSound
    <2>4. next # {} => Sound(waiting, start) /\ ComesAfter(waiting, h) /\ Settles(waiting, h)
      <3> SUFFICES ASSUME next # {}
                   PROVE  Sound(waiting, start) /\ ComesAfter(waiting, h) /\ Settles(waiting, h)
        OBVIOUS
      <3>1. nextSeat \in Seats /\ nextSeat \in CanBet(h)
        BY FirstAfterMember DEF CanBet, Active
      <3>2. h \in Hand /\ ToCall(h, nextSeat) \in Int /\ nextSeat \in Seats \cup {None}
        BY <3>1 DEF Running, Hand, ToCall, Greatest
      <3> HIDE DEF nextSeat
      <3>3. waiting \in Hand
        BY <3>2, Zenon DEF Hand
      <3>4. SameBooks(waiting, h) /\ waiting.acting_seat = nextSeat /\ waiting.all_in = h.all_in
        BY <3>2, <3>3 DEF Hand, SameBooks
      <3> HIDE DEF waiting
      <3>5. Running(waiting, start) /\ waiting.folded = h.folded
        BY <3>4, SameBooksRunning
      <3>6. Active(waiting) = Active(h) /\ CanBet(waiting) = CanBet(h)
        BY <3>4, <3>5 DEF CanBet, Active
      <3>7. ComesAfter(waiting, h)
        <4>1. h.board \in 0 .. 5 /\ \A s \in Seats : h.stack[s] <= h.stack[s]
          BY <3>2 DEF Hand
        <4> QED BY <4>1, <3>4 DEF SameBooks, ComesAfter
      <3>8. Settles(waiting, h)
        BY <3>4 DEF SameBooks, Running, Settles
      <3> QED BY <2>1, <3>1, <3>4, <3>5, <3>6, <3>7, <3>8 DEF Sound, WaitsForCall
    <2>5. ComesAfter(AdvanceStreetOrShowdown(h, rank), h)
      <3>1. CASE h.street = "river"
        BY <3>1, EndFollows DEF AdvanceStreetOrShowdown
      <3>2. CASE h.street # "river"
        <4>1. h.street \in {"pre_flop", "flop", "turn"}
          BY <3>2 DEF Running, Hand
        <4>2. /\ NextStreet[h.street] \in {"flop", "turn", "river"}
              /\ BoardOn[h.street] <= BoardOn[NextStreet[h.street]]
          BY <4>1 DEF NextStreet, BoardOn
        <4> QED BY <3>2, <4>2, OpenStreetFollows DEF AdvanceStreetOrShowdown
      <3> QED BY <3>1, <3>2
    <2>6. ComesAfter(RunoutAndShowdown(RefundUncalled(h), rank), h)
      BY EndFollows
    <2> HIDE DEF waiting
    <2> QED BY <1>3, <2>2, <2>3, <2>4, <2>5, <2>6 DEF ResolveAfterAction, waiting
  <1> QED BY <1>2, <1>3

-----------------------------------------------------------------------------
(* The actions of the players.                                             *)

(* Putting in chips takes them from the stack and nothing else.            *)
LEMMA CommitFollows ==
    ASSUME NEW h \in Hand, NEW seat \in Seats, h.stack[seat] >= 0, NEW amount \in Nat,
           NEW g, SameBooks(g, Commit(h, seat, amount)), g.all_in = Commit(h, seat, amount).all_in
    PROVE  ComesAfter(g, h)
  <1>1. h.board \in 0 .. 5
    BY DEF Hand
  <1> QED BY <1>1, CommitAllIn DEF SameBooks, ComesAfter

(* Putting chips in is a move of the seat, whatever it leads to.           *)
LEMMA CommitMoves ==
    ASSUME NEW h \in Hand, NEW seat \in Seats, seat = h.acting_seat, h.stack[seat] >= 0,
           NEW amount \in Nat, NEW g, SameBooks(g, Commit(h, seat, amount)),
           NEW f, Settles(f, g)
    PROVE  MovesChips(f, h)
  <1>1. PICK n : n = Least(amount, h.stack[seat])
    OBVIOUS
  <1>2. /\ h.stack \in [Seats -> Int] /\ h.stack[seat] \in Int
        /\ n \in Int /\ n \in 0 .. h.stack[seat]
    <2>1. h.stack \in [Seats -> Int] /\ h.stack[seat] \in Int
      BY DEF Hand
    <2> QED BY <2>1, <1>1 DEF Least
  <1>3. /\ g.folded = h.folded
        /\ g.stack = [h.stack EXCEPT ![seat] = @ - n]
        /\ g.total_invested = [h.total_invested EXCEPT ![seat] = @ + n]
    BY <1>1 DEF Commit, Hand, SameBooks
  <1>4. Puts(f, h, seat, n)
    BY <1>2, <1>3 DEF Settles, Gains, Puts
  <1> QED BY <1>2, <1>4 DEF MovesChips

(* What follows a running hand follows every hand that one follows.        *)
LEMMA FollowsOn ==
    ASSUME NEW start, NEW h \in Hand, NEW g, Running(g, start), ComesAfter(g, h),
           NEW f, Sound(f, start), ComesAfter(f, g)
    PROVE  ComesAfter(f, h)
  <1>1. g \in Hand /\ ~g.is_terminal /\ f \in Hand
    BY DEF Running, Sound, Ended
  <1> QED BY <1>1, FollowsTrans

(* A seat that can act is a seat, and is active.                           *)
LEMMA ActingSeat ==
    ASSUME NEW h \in Hand, CanAct(h)
    PROVE  h.acting_seat \in Seats /\ h.acting_seat \in Active(h)
  BY DEF CanAct, Hand, Active

(* Putting chips in without raising leaves a sound hand.                   *)
LEMMA PutInSound ==
    ASSUME NEW start \in [Seats -> Nat], NEW h, Running(h, start), CanAct(h),
           NEW amount \in Nat, NEW rank \in Rankings
    PROVE  /\ Sound(PutIn(h, rank, amount), start)
           /\ ComesAfter(PutIn(h, rank, amount), h) /\ MovesChips(PutIn(h, rank, amount), h)
  <1> DEFINE seat == h.acting_seat
             c == Commit(h, seat, amount)
             g == [c EXCEPT !.acted = @ \cup {seat}]
  <1>1. seat \in Seats /\ seat \in Active(h)
    BY ActingSeat DEF Running
  <1>2. Running(c, start) /\ c.folded = h.folded /\ c.acting_seat = seat
    BY <1>1, CommitRunning
  <1> HIDE DEF c
  <1>3. c \in Hand /\ c.acted \cup {seat} \in SUBSET Seats
    BY <1>1, <1>2 DEF Running, Hand
  <1>4. SameBooks(g, c) /\ g.acting_seat = c.acting_seat /\ g.all_in = c.all_in
    <2>1. g \in Hand
      BY <1>3, Zenon DEF Hand
    <2> QED BY <2>1, <1>3 DEF Hand, SameBooks
  <1> HIDE DEF g
  <1>5. Running(g, start) /\ g.folded = c.folded /\ g.acting_seat = c.acting_seat
    BY <1>2, <1>4, SameBooksRunning
  <1>6. Running(g, start) /\ Active(g) # {} /\ g.acting_seat \in Seats
    BY <1>1, <1>2, <1>5 DEF Active
  <1>7. /\ Sound(ResolveAfterAction(g, rank), start) /\ ComesAfter(ResolveAfterAction(g, rank), g)
        /\ Settles(ResolveAfterAction(g, rank), g)
    BY <1>6, ResolveSound
  <1>8. ComesAfter(g, h)
    <2>1. h \in Hand /\ h.stack[seat] >= 0
      BY <1>1 DEF Running
    <2> QED BY <2>1, <1>1, <1>4, <1>5, CommitFollows DEF c
  <1>9. ComesAfter(ResolveAfterAction(g, rank), h)
    <2>1. h \in Hand
      BY DEF Running
    <2> QED BY <2>1, <1>5, <1>7, <1>8, FollowsOn
  <1>10. MovesChips(ResolveAfterAction(g, rank), h)
    <2>1. h \in Hand /\ h.stack[seat] >= 0
      BY <1>1 DEF Running
    <2> QED BY <2>1, <1>1, <1>4, <1>7, CommitMoves DEF c
  <1> QED BY <1>7, <1>9, <1>10 DEF PutIn, g, c

(* A raise by chips the seat has leaves a sound hand.                      *)
LEMMA RaiseToSound ==
    ASSUME NEW start \in [Seats -> Nat], NEW h, Running(h, start), CanAct(h),
           NEW rank \in Rankings,
           NEW raise_to \in Int, raise_to > h.invested[h.acting_seat]
    PROVE  /\ Sound(RaiseTo(h, rank, raise_to), start)
           /\ ComesAfter(RaiseTo(h, rank, raise_to), h) /\ MovesChips(RaiseTo(h, rank, raise_to), h)
  <1> DEFINE seat == h.acting_seat
             c == Commit(h, seat, raise_to - h.invested[seat])
             bet == c.invested[seat]
             min == IF bet - h.current_bet > 0 THEN bet + (bet - h.current_bet)
                    ELSE c.min_raise_to
             g == [c EXCEPT !.current_bet = bet, !.min_raise_to = min, !.acted = {seat}]
  <1>1. seat \in Seats /\ seat \in Active(h)
    BY ActingSeat DEF Running
  <1>2. h.invested[seat] \in Int /\ h.current_bet \in Int
    BY <1>1 DEF Running, Hand
  <1>3. Running(c, start) /\ c.folded = h.folded /\ c.acting_seat = seat
    BY <1>1, <1>2, CommitRunning
  <1>4. RaiseTo(h, rank, raise_to) = ResolveAfterAction(g, rank)
    BY DEF RaiseTo
  <1> HIDE DEF c
  <1>5. bet \in Int /\ c.min_raise_to \in Int /\ {seat} \in SUBSET Seats
    BY <1>1, <1>3 DEF Running, Hand
  <1>6. min \in Int
    BY <1>2, <1>5
  <1> HIDE DEF bet, min
  <1>7. /\ Running(g, start) /\ g.folded = c.folded /\ g.acting_seat = c.acting_seat
        /\ ComesAfter(g, h) /\ SameBooks(g, c)
    <2>1. c \in Hand
      BY <1>3 DEF Running
    <2>2. g \in Hand
      BY <2>1, <1>5, <1>6, Zenon DEF Hand
    <2>3. SameBooks(g, c) /\ g.acting_seat = c.acting_seat /\ g.all_in = c.all_in
      BY <2>1, <2>2 DEF Hand, SameBooks
    <2>4. ComesAfter(g, h)
      <3>1. h \in Hand /\ h.stack[seat] >= 0 /\ raise_to - h.invested[seat] \in Nat
        BY <1>1, <1>2 DEF Running
      <3> HIDE DEF g
      <3> QED BY <3>1, <1>1, <2>3, CommitFollows DEF c
    <2> HIDE DEF g
    <2> QED BY <1>3, <2>3, <2>4, SameBooksRunning
  <1> HIDE DEF g
  <1>8. Active(g) # {} /\ g.acting_seat \in Seats
    BY <1>1, <1>3, <1>7 DEF Active
  <1>9. /\ Sound(ResolveAfterAction(g, rank), start) /\ ComesAfter(ResolveAfterAction(g, rank), g)
        /\ Settles(ResolveAfterAction(g, rank), g)
    BY <1>7, <1>8, ResolveSound
  <1>10. ComesAfter(ResolveAfterAction(g, rank), h)
    <2>1. h \in Hand
      BY DEF Running
    <2> QED BY <2>1, <1>7, <1>9, FollowsOn
  <1>11. MovesChips(ResolveAfterAction(g, rank), h)
    <2>1. h \in Hand /\ h.stack[seat] >= 0 /\ raise_to - h.invested[seat] \in Nat
      BY <1>1, <1>2 DEF Running
    <2> QED BY <2>1, <1>1, <1>7, <1>9, CommitMoves DEF c
  <1> QED BY <1>4, <1>9, <1>10, <1>11

(* A fold leaves a sound hand.                                             *)
LEMMA FoldSound ==
    ASSUME NEW start \in [Seats -> Nat],
           NEW h, Running(h, start), Count(Active(h)) >= 2, CanAct(h),
           NEW rank \in Rankings
    PROVE  /\ Sound(ApplyFold(h, rank), start)
           /\ ComesAfter(ApplyFold(h, rank), h) /\ MovesChips(ApplyFold(h, rank), h)
  <1> DEFINE g == [h EXCEPT !.folded = @ \cup {h.acting_seat}]
  <1>1. h \in Hand /\ h.acting_seat \in Seats /\ h.folded \in SUBSET Seats
    BY ActingSeat DEF Running, Hand
  <1>2. g \in Hand
    <2>1. h.folded \cup {h.acting_seat} \in SUBSET Seats
      BY <1>1
    <2> QED BY <1>1, <2>1, Zenon DEF Hand
  <1>3. /\ g.pot = h.pot /\ g.stack = h.stack /\ g.invested = h.invested
        /\ g.total_invested = h.total_invested /\ g.folded = h.folded \cup {h.acting_seat}
        /\ g.acting_seat = h.acting_seat /\ g.street = h.street /\ g.board = h.board
        /\ g.is_terminal = h.is_terminal /\ g.showdown_reached = h.showdown_reached
        /\ g.all_in = h.all_in
    BY <1>1 DEF Hand
  <1> HIDE DEF g
  <1>4. Running(g, start) /\ ComesAfter(g, h)
    <2>1. h.board \in 0 .. 5 /\ \A s \in Seats : h.stack[s] \in Int
      BY <1>1 DEF Hand
    <2> QED BY <2>1, <1>2, <1>3 DEF Running, ComesAfter
  <1>5. Active(g) # {}
    <2>1. PICK t \in Active(h) : t # h.acting_seat
      BY <1>1, CountMany DEF Active
    <2> QED BY <2>1, <1>3 DEF Active
  <1>6. /\ Sound(ResolveAfterAction(g, rank), start) /\ ComesAfter(ResolveAfterAction(g, rank), g)
        /\ Settles(ResolveAfterAction(g, rank), g)
    BY <1>1, <1>3, <1>4, <1>5, ResolveSound
  <1>7. ComesAfter(ResolveAfterAction(g, rank), h)
    BY <1>1, <1>4, <1>6, FollowsOn
  <1>8. MovesChips(ResolveAfterAction(g, rank), h)
    BY <1>3, <1>6 DEF Settles, Gains, GivesUp, MovesChips
  <1> QED BY <1>6, <1>7, <1>8 DEF ApplyFold, g

(* A check leaves a sound hand.                                            *)
LEMMA CheckSound ==
    ASSUME NEW start \in [Seats -> Nat], NEW h, Running(h, start), CanAct(h),
           NEW rank \in Rankings
    PROVE  /\ Sound(ApplyCheck(h, rank), start)
           /\ ComesAfter(ApplyCheck(h, rank), h) /\ MovesChips(ApplyCheck(h, rank), h)
  <1> DEFINE g == [h EXCEPT !.acted = @ \cup {h.acting_seat}]
  <1>1. h \in Hand /\ h.acting_seat \in Seats /\ h.acting_seat \in Active(h)
        /\ h.acted \cup {h.acting_seat} \in SUBSET Seats
    BY ActingSeat DEF Running, Hand
  <1>2. SameBooks(g, h) /\ g.acting_seat = h.acting_seat /\ g.all_in = h.all_in
    <2>1. g \in Hand
      BY <1>1, Zenon DEF Hand
    <2> QED BY <2>1, <1>1 DEF Hand, SameBooks
  <1> HIDE DEF g
  <1>3. Running(g, start) /\ g.folded = h.folded /\ g.acting_seat = h.acting_seat
    BY <1>2, SameBooksRunning
  <1>4. /\ Sound(ResolveAfterAction(g, rank), start) /\ ComesAfter(ResolveAfterAction(g, rank), g)
        /\ Settles(ResolveAfterAction(g, rank), g)
    BY <1>1, <1>3, ResolveSound DEF Active
  <1>5. ComesAfter(g, h)
    <2>1. h.board \in 0 .. 5 /\ \A s \in Seats : h.stack[s] \in Int
      BY <1>1 DEF Hand
    <2> QED BY <2>1, <1>2 DEF SameBooks, ComesAfter
  <1>6. ComesAfter(ResolveAfterAction(g, rank), h)
    BY <1>1, <1>3, <1>4, <1>5, FollowsOn
  <1>7. MovesChips(ResolveAfterAction(g, rank), h)
    <2>1. h.stack[h.acting_seat] >= 0 /\ h.stack[h.acting_seat] \in Int
          /\ h.stack \in [Seats -> Int] /\ h.total_invested \in [Seats -> Int]
      BY <1>1 DEF Running, Hand
    <2>2. /\ [h.stack EXCEPT ![h.acting_seat] = @ - 0] = h.stack
          /\ [h.total_invested EXCEPT ![h.acting_seat] = @ + 0] = h.total_invested
      BY <2>1, <1>1
    <2>3. Puts(ResolveAfterAction(g, rank), h, h.acting_seat, 0)
      BY <2>1, <2>2, <1>2, <1>4 DEF SameBooks, Settles, Gains, Puts
    <2> QED BY <2>3 DEF MovesChips
  <1> QED BY <1>4, <1>6, <1>7 DEF ApplyCheck, g

(* A new hand has posted its blinds and two or more seats to play it.      *)
LEMMA StartSound ==
    ASSUME NEW start \in [Seats -> Nat], NEW button \in Seats
    PROVE  /\ Sound(StartNewHand(start, button), start)
           /\ Running(StartNewHand(start, button), start)
           /\ StartNewHand(start, button).folded = {}
  <1> DEFINE zero == [s \in Seats |-> 0]
             fresh == [street |-> "pre_flop", board |-> 0, button |-> button,
                       pot |-> 0, to_call |-> 0, current_bet |-> 0,
                       min_raise_to |-> 2 * BigBlind,
                       acting_seat |-> None, winner_seat |-> None,
                       is_terminal |-> FALSE, showdown_reached |-> FALSE,
                       stack |-> start, invested |-> zero, total_invested |-> zero,
                       folded |-> {}, all_in |-> {}, acted |-> {}]
             sb == IF NumSeats = 2 THEN button ELSE NextSeat(button)
             bb == NextSeat(sb)
             first == NextSeat(bb)
             small == Commit(fresh, sb, SmallBlind)
             posted == Commit(small, bb, BigBlind)
             bet == Least(BigBlind, posted.invested[bb])
             call == Greatest(0, bet - posted.invested[first])
             g == [posted EXCEPT !.current_bet = bet, !.acting_seat = first,
                                 !.to_call = call, !.min_raise_to = bet + BigBlind]
  <1>1. sb \in Seats /\ bb \in Seats /\ first \in Seats
    BY SeatsAssumption DEF NextSeat, Seats
  <1>2. Running(fresh, start) /\ fresh.folded = {}
    <2>1. start \in [Seats -> Int] /\ zero \in [Seats -> Int] /\ 2 * BigBlind \in Int
      BY BlindsAssumption
    <2>2. fresh \in Hand
      <3> HIDE DEF zero
      <3> QED BY <2>1 DEF Hand
    <2>3. BoardOn["pre_flop"] = 0
      BY DEF BoardOn
    <2>4. SeatSum(zero) = 0
      BY SeatSumZero
    <2> QED BY <2>1, <2>2, <2>3, <2>4 DEF Running
  <1>11. /\ fresh.all_in = {} /\ fresh.stack = start /\ fresh.button = button
         /\ fresh.street = "pre_flop"
    OBVIOUS
  <1>12. /\ NumSeats = 2 => sb = button /\ first = button
         /\ bb # first /\ (NumSeats # 2 => sb # first)
    BY SeatsAssumption DEF NextSeat, Seats
  <1> HIDE DEF sb, bb, first, fresh
  <1>3. Running(small, start) /\ small.folded = {}
    BY <1>1, <1>2, BlindsAssumption, CommitRunning
  <1> HIDE DEF small
  <1>4. Running(posted, start) /\ posted.folded = {}
    BY <1>1, <1>3, BlindsAssumption, CommitRunning
  <1>13. first \in posted.all_in => NumSeats = 2 /\ start[button] <= SmallBlind
    <2>1. fresh \in Hand /\ small \in Hand
      BY <1>2, <1>3 DEF Running
    <2>2. /\ small.all_in \subseteq {sb}
          /\ start[sb] > SmallBlind => small.all_in = {}
      BY <2>1, <1>1, <1>11, BlindsAssumption, CommitAllIn DEF small
    <2>3. posted.all_in \subseteq small.all_in \cup {bb}
      BY <2>1, <1>1, BlindsAssumption, CommitAllIn DEF posted
    <2>4. first \in posted.all_in => first \in small.all_in
      BY <2>3, <1>12
    <2>5. start[button] \in Nat
      OBVIOUS
    <2> QED BY <2>2, <2>4, <2>5, <1>12, BlindsAssumption
  <1>14. posted.button = button /\ posted.street = "pre_flop"
    <2>1. fresh \in Hand /\ small \in Hand
      BY <1>2, <1>3 DEF Running
    <2>2. small.button = button /\ small.street = "pre_flop"
      BY <2>1, <1>1, <1>11, BlindsAssumption, CommitAllIn DEF small
    <2> QED BY <2>1, <2>2, <1>1, BlindsAssumption, CommitAllIn DEF posted
  <1>5. StartNewHand(start, button) = g
    BY DEF StartNewHand, small, fresh, sb, bb, first
  <1> HIDE DEF posted
  <1>6. posted \in Hand /\ bet \in Int /\ call \in Int /\ bet + BigBlind \in Int
        /\ first \in Seats \cup {None}
    <2>1. posted \in Hand /\ posted.invested[bb] \in Int /\ posted.invested[first] \in Int
      BY <1>1, <1>4 DEF Running, Hand
    <2> QED BY <2>1, <1>1, BlindsAssumption DEF Least, Greatest
  <1> HIDE DEF bet, call
  <1>7. /\ SameBooks(g, posted) /\ g.acting_seat = first /\ g.all_in = posted.all_in
        /\ g.button = posted.button
    <2>1. g \in Hand
      BY <1>6, Zenon DEF Hand
    <2> QED BY <2>1, <1>6 DEF Hand, SameBooks
  <1> HIDE DEF g
  <1>8. Running(g, start) /\ Active(g) = Seats
    BY <1>4, <1>7, SameBooksRunning DEF Active
  <1>9. Count(Seats) >= 2
    <2>1. \A k \in 0 .. 5 : Mark(Seats, k) = IF k < NumSeats THEN 1 ELSE 0
      BY SeatsAssumption DEF Mark, Seats
    <2> QED BY <2>1, SeatsAssumption, CountTerms
  <1>15. WaitsForCall(g, start)
    <2>1. CASE first \in posted.all_in
      <3>1. g.street = "pre_flop" /\ g.button = button /\ g.acting_seat = button
        BY <2>1, <1>7, <1>12, <1>13, <1>14 DEF SameBooks
      <3> QED BY <2>1, <3>1, <1>13 DEF WaitsForCall
    <2>2. CASE first \notin posted.all_in
      BY <2>2, <1>1, <1>7, <1>8 DEF WaitsForCall, CanBet
    <2> QED BY <2>1, <2>2
  <1>16. g.folded = {}
    BY <1>4, <1>7 DEF SameBooks
  <1> QED BY <1>5, <1>8, <1>9, <1>15, <1>16 DEF Sound

-----------------------------------------------------------------------------
(* Theorems.                                                               *)

(* The invariant holds of every new hand.                                  *)
LEMMA InitIInv == Init => IInv
  BY StartSound, StacksAssumption DEF Init, IInv

(* What a step does: it leaves a sound hand that follows the one before,   *)
(* and leaves a finished hand alone.                                       *)
Forward ==
    /\ IInv'
    /\ ComesAfter(hand', hand)
    /\ hand.is_terminal => hand' = hand
    /\ hand' = hand \/ (CanAct(hand) /\ MovesChips(hand', hand))
    /\ initial_stacks' = initial_stacks

(* A player acts only on a running hand, and leaves it sound.              *)
LEMMA NextIInv == IInv /\ [Next]_vars => Forward
  <1> SUFFICES ASSUME IInv, [Next]_vars PROVE Forward
    OBVIOUS
  <1> DEFINE Step(h) == hand' = h /\ initial_stacks' = initial_stacks
                        /\ Sound(h, initial_stacks) /\ ComesAfter(h, hand)
                        /\ MovesChips(h, hand)
  <1>1. \A h : Step(h) /\ CanAct(hand) => Forward
    BY DEF IInv, Forward, CanAct
  <1>11. initial_stacks \in [Seats -> Nat]
    BY DEF IInv
  <1>2. CanAct(hand) => /\ Running(hand, initial_stacks) /\ Count(Active(hand)) >= 2
                        /\ hand \in Hand /\ hand.acting_seat \in Seats
    BY ActingSeat DEF IInv, Sound, Ended, CanAct, Running
  <1>3. CanAct(hand) => /\ hand.stack[hand.acting_seat] \in Nat
                        /\ hand.invested[hand.acting_seat] \in Int
                        /\ ToCall(hand, hand.acting_seat) \in Nat
    BY <1>2 DEF Running, Hand, ToCall, Greatest
  <1>4. CASE Fold
    BY <1>1, <1>2, <1>4, <1>11, FoldSound DEF Fold, Accepts
  <1>5. CASE Check
    BY <1>1, <1>2, <1>5, <1>11, CheckSound DEF Check, Accepts
  <1>6. CASE Call
    BY <1>1, <1>2, <1>3, <1>6, <1>11, PutInSound DEF Call, Accepts, ApplyCall
  <1>7. CASE Bet
    <2>1. PICK amount \in 0 .. MaxAmount, rank \in Rankings :
              Accepts(hand, "bet", amount) /\ hand' = ApplyBet(hand, rank, amount)
      BY <1>7 DEF Bet
    <2>2. Least(Shove(hand), amount) \in Int
          /\ Least(Shove(hand), amount) > hand.invested[hand.acting_seat]
      BY <2>1, <1>3, BoundsAssumption DEF Accepts, RaiseAccepted, Least, Shove
    <2>3. /\ Sound(ApplyBet(hand, rank, amount), initial_stacks)
          /\ ComesAfter(ApplyBet(hand, rank, amount), hand)
          /\ MovesChips(ApplyBet(hand, rank, amount), hand)
      BY <2>1, <2>2, <1>2, <1>11, RaiseToSound DEF Accepts, ApplyBet
    <2> QED BY <1>1, <1>7, <2>1, <2>3 DEF Bet, Accepts
  <1>8. CASE Raise
    <2>1. PICK amount \in 0 .. MaxAmount, rank \in Rankings :
              Accepts(hand, "raise", amount) /\ hand' = ApplyRaise(hand, rank, amount)
      BY <1>8 DEF Raise
    <2>2. amount \in Int /\ amount > hand.invested[hand.acting_seat]
      BY <2>1, BoundsAssumption DEF Accepts, RaiseAccepted
    <2>3. /\ Sound(ApplyRaise(hand, rank, amount), initial_stacks)
          /\ ComesAfter(ApplyRaise(hand, rank, amount), hand)
          /\ MovesChips(ApplyRaise(hand, rank, amount), hand)
      BY <2>1, <2>2, <1>2, <1>11, RaiseToSound DEF Accepts, ApplyRaise
    <2> QED BY <1>1, <1>8, <2>1, <2>3 DEF Raise, Accepts
  <1>9. CASE AllIn
    <2>1. PICK rank \in Rankings : hand' = ApplyAllIn(hand, rank)
      BY <1>9 DEF AllIn
    <2>2. CanAct(hand) /\ hand.stack[hand.acting_seat] > 0
      BY <1>9 DEF AllIn, Accepts
    <2>3. /\ Sound(PutIn(hand, rank, hand.stack[hand.acting_seat]), initial_stacks)
          /\ ComesAfter(PutIn(hand, rank, hand.stack[hand.acting_seat]), hand)
          /\ MovesChips(PutIn(hand, rank, hand.stack[hand.acting_seat]), hand)
      BY <2>2, <1>2, <1>3, <1>11, PutInSound
    <2>4. /\ Sound(RaiseTo(hand, rank, Shove(hand)), initial_stacks)
          /\ ComesAfter(RaiseTo(hand, rank, Shove(hand)), hand)
          /\ MovesChips(RaiseTo(hand, rank, Shove(hand)), hand)
      BY <2>2, <1>2, <1>3, <1>11, RaiseToSound DEF Shove
    <2> QED BY <1>1, <1>9, <2>1, <2>2, <2>3, <2>4 DEF AllIn, ApplyAllIn
  <1>10. CASE Finished \/ UNCHANGED vars
    <2>1. hand' = hand /\ initial_stacks' = initial_stacks
      BY <1>10 DEF Finished, vars
    <2>2. hand.board \in 0 .. 5 /\ \A s \in Seats : hand.stack[s] \in Int
      BY DEF IInv, Sound, Running, Ended, Hand
    <2> QED BY <2>1, <2>2 DEF IInv, Forward, ComesAfter
  <1> QED BY <1>4, <1>5, <1>6, <1>7, <1>8, <1>9, <1>10 DEF Next

(* The inductive invariant holds throughout every hand.                    *)
THEOREM Invariant == Spec => []IInv
  <1>1. IInv /\ [Next]_vars => IInv'
    BY NextIInv DEF Forward
  <1> QED BY <1>1, InitIInv, PTL DEF Spec

(* Folds and all-ins are not taken back, the board only grows, no chips    *)
(* come back before the end and a finished hand stays as it is.            *)
THEOREM GoesForward == Spec => OnlyForward
  <1>1. IInv /\ [Next]_vars =>
            [ /\ hand.folded \subseteq hand'.folded
              /\ hand.all_in \subseteq hand'.all_in
              /\ hand.board <= hand'.board
              /\ ~hand'.is_terminal => \A s \in Seats : hand'.stack[s] <= hand.stack[s]
              /\ hand.is_terminal => hand' = hand ]_vars
    BY NextIInv DEF Forward, ComesAfter
  <1> QED BY <1>1, Invariant, PTL DEF Spec, OnlyForward

(* Whatever the players do, the hand is a well-formed HandState.           *)
THEOREM TypeCorrect == Spec => []TypeOK
  <1>1. IInv => TypeOK
    BY DEF IInv, Sound, Running, Ended, TypeOK
  <1> QED BY <1>1, Invariant, PTL

(* The pot of a running hand is what its players have invested.            *)
THEOREM PotCorrect == Spec => []PotIsInvestments
  <1>1. IInv => PotIsInvestments
    BY DEF IInv, Sound, Running, Ended, PotIsInvestments
  <1> QED BY <1>1, Invariant, PTL

(* No chip changes hands before the hand ends.                             *)
THEOREM LedgerCorrect == Spec => []SeatLedger
  <1>1. IInv => SeatLedger
    BY DEF IInv, Sound, Running, Ended, SeatLedger
  <1> QED BY <1>1, Invariant, PTL

(* No stack or investment is ever negative; the pot is paid out whole.     *)
THEOREM NeverNegative == Spec => []NoNegativeChips
  <1>1. IInv => NoNegativeChips
    BY DEF IInv, Sound, Running, Ended, NoNegativeChips
  <1> QED BY <1>1, Invariant, PTL

(* A hand ends with a lone winner or at a showdown over the whole board.   *)
THEOREM ProperEnd == Spec => []EndsProperly
  <1>1. IInv => EndsProperly
    BY DEF IInv, Sound, Running, Ended, EndsProperly
  <1> QED BY <1>1, Invariant, PTL

(* However the pot is split, no seat wins from another more than it put    *)
(* at risk itself.                                                         *)
THEOREM SidePotsCapWinnings == Spec => []SidePotsCap
  <1>1. IInv => SidePotsCap
    BY DEF IInv, Sound, Running, Ended, Capped, SidePotsCap
  <1> QED BY <1>1, Invariant, PTL

(* Unless a folded seat had put in more than every seat left, no chip is   *)
(* lost or made; and a running hand waits for a seat that can act, but for *)
(* the two cases PlaysOut names.                                           *)
THEOREM HandPlaysOut == Spec => []PlaysOut
  <1>1. ASSUME IInv PROVE Covered(hand) => ChipConservation
    <2>1. CASE Running(hand, initial_stacks)
      BY <2>1, RunningConserves DEF ChipConservation
    <2>2. CASE Ended(hand, initial_stacks)
      <3>1. hand.pot = 0 /\ hand.stack \in [Seats -> Int]
            /\ (Covered(hand) => SeatSum(hand.stack) = SeatSum(initial_stacks))
        BY <2>2 DEF Ended, Hand
      <3>2. SeatSum(hand.stack) \in Int
        BY <3>1, SeatSumType
      <3> QED BY <3>1, <3>2 DEF ChipConservation
    <2> QED BY <1>1, <2>1, <2>2 DEF IInv, Sound
  <1>2. ASSUME IInv, ~hand.is_terminal PROVE hand \in Hand /\ WaitsForCall(hand, initial_stacks)
    BY <1>2 DEF IInv, Sound, Running, Ended
  <1>3. ASSUME hand \in Hand, ~hand.is_terminal, hand.acting_seat \in CanBet(hand)
        PROVE  LegalActions(hand) # {}
    <2>1. CanAct(hand)
      BY <1>3, NoneAssumption DEF CanBet, Active, CanAct
    <2> QED BY <2>1 DEF LegalActions
  <1>4. IInv => PlaysOut
    BY <1>1, <1>2, <1>3 DEF PlaysOut, Covered, WaitsForCall, SomeoneCanAct
  <1> QED BY <1>4, Invariant, PTL

(* Whatever is refunded, split or run out, a seat that folded ends the     *)
(* hand with what it had not put in.                                       *)
THEOREM FoldedLose == Spec => []FoldedNeverPaid
  <1>1. IInv => FoldedNeverPaid
    BY DEF IInv, Sound, Running, Ended, FoldedNeverPaid, Hand
  <1> QED BY <1>1, Invariant, PTL

-----------------------------------------------------------------------------
(* The hand as a chip ledger.                                              *)

(* The hand has not lost chips: it is not over, it ended without a         *)
(* showdown, or no folded seat had put in more than every seat left.       *)
PaysInFull(h) == h.showdown_reached => Covered(h)

(* The stakes and the stacks of a hand, while it runs and when it is over. *)
LEMMA Stakes ==
    ASSUME IInv
    PROVE  /\ hand \in Hand
           /\ hand.is_terminal => Staked = [s \in Seats |-> 0]
           /\ ~hand.is_terminal => /\ Staked = hand.total_invested
                                   /\ SeatSum(hand.stack) + SeatSum(Staked)
                                      = SeatSum(initial_stacks)
           /\ hand.is_terminal /\ PaysInFull(hand)
              => SeatSum(hand.stack) = SeatSum(initial_stacks)
  <1>1. CASE Running(hand, initial_stacks)
    <2>1. Staked = hand.total_invested
      BY <1>1 DEF Running, Staked
    <2>2. SeatSum(hand.stack) + hand.pot = SeatSum(initial_stacks)
      BY <1>1, RunningConserves
    <2> QED BY <2>1, <2>2, <1>1 DEF Running
  <1>2. CASE Ended(hand, initial_stacks)
    BY <1>2 DEF Ended, Staked, PaysInFull
  <1> QED BY <1>1, <1>2 DEF IInv, Sound

(* The ledger's seats and sums are those of the engine.                    *)
LEMMA LedgerTable == Ledger!Seats = Seats /\ \A f : Ledger!SeatSum(f) = SeatSum(f)
  BY DEF Ledger!Seats, Seats, Ledger!SeatSum, SeatSum, Ledger!Term, Term

(* A step that loses no chips is a move of the ledger.                     *)
LEMMA LedgerStep ==
    IInv /\ [Next]_vars /\ PaysInFull(hand') => [Ledger!Next]_(Ledger!ledger)
  <1> SUFFICES ASSUME IInv, [Next]_vars, PaysInFull(hand'), hand' # hand
               PROVE  Ledger!Next
    BY DEF Ledger!ledger, Staked
  <1>1. IInv' /\ CanAct(hand) /\ MovesChips(hand', hand) /\ initial_stacks' = initial_stacks
    BY NextIInv DEF Forward
  <1> DEFINE seat == hand.acting_seat
  <1>2. seat \in Seats /\ seat \notin hand.folded /\ ~hand.is_terminal /\ hand \in Hand
    BY <1>1, ActingSeat, Stakes DEF CanAct
  <1>3. Staked = hand.total_invested /\ (hand'.is_terminal => Staked' = [s \in Seats |-> 0])
        /\ (~hand'.is_terminal => Staked' = hand'.total_invested)
    BY <1>2 DEF Staked
  <1>4. hand'.is_terminal => SeatSum(hand'.stack) = SeatSum(hand.stack) + SeatSum(Staked)
    <2>1. ~hand.is_terminal => SeatSum(hand.stack) + SeatSum(Staked) = SeatSum(initial_stacks)
      BY Stakes
    <2>2. hand'.is_terminal => SeatSum(hand'.stack) = SeatSum(initial_stacks')
      <3>1. hand'.is_terminal /\ PaysInFull(hand') /\ Sound(hand', initial_stacks')
            => SeatSum(hand'.stack) = SeatSum(initial_stacks')
        BY DEF Sound, Running, Ended, PaysInFull
      <3> QED BY <3>1, <1>1 DEF IInv
    <2> QED BY <2>1, <2>2, <1>1, <1>2
  <1>7. hand'.is_terminal =>
            /\ Ledger!SeatSum(hand'.stack) = Ledger!SeatSum(hand.stack) + Ledger!SeatSum(Staked)
            /\ Staked' = [t \in Ledger!Seats |-> 0]
    <2>1. /\ Ledger!SeatSum(hand'.stack) = SeatSum(hand'.stack)
          /\ Ledger!SeatSum(hand.stack) = SeatSum(hand.stack)
          /\ Ledger!SeatSum(Staked) = SeatSum(Staked)
          /\ Ledger!Seats = Seats
      BY LedgerTable
    <2> QED BY <2>1, <1>3, <1>4
  <1>8. ASSUME NEW n \in Int, hand'.is_terminal,
               \A t \in Seats : hand'.stack[t] >= [hand.stack EXCEPT ![seat] = @ - n][t],
               \A t \in hand'.folded : hand'.stack[t] = [hand.stack EXCEPT ![seat] = @ - n][t]
        PROVE  Ledger!PayOut(seat, n)
    BY <1>7, <1>8, LedgerTable DEF Ledger!PayOut
  <1>9. hand'.folded \subseteq Seats
    BY <1>1, Stakes DEF IInv, Sound, Running, Ended, Hand
  <1>5. CASE GivesUp(hand', hand, seat)
    <2>1. Ledger!GiveUp(seat)
      <3>1. CASE hand'.is_terminal
        <4>1. [hand.stack EXCEPT ![seat] = @ - 0] = hand.stack
          BY <1>2 DEF Hand
        <4>2. Ledger!PayOut(seat, 0)
          <5>1. /\ \A t \in Seats : hand'.stack[t] >= hand.stack[t]
                /\ \A t \in hand'.folded : hand'.stack[t] = hand.stack[t]
            BY <3>1, <1>5, <1>9 DEF GivesUp
          <5> QED BY <5>1, <4>1, <3>1, <1>8
        <4> QED BY <4>2, <3>1, <1>2, <1>5 DEF Ledger!GiveUp, GivesUp
      <3>2. CASE ~hand'.is_terminal
        BY <3>2, <1>2, <1>3, <1>5 DEF Ledger!GiveUp, GivesUp
      <3> QED BY <3>1, <3>2
    <2> QED BY <2>1, <1>2, LedgerTable DEF Ledger!Next
  <1>6. ASSUME NEW n \in Int, Puts(hand', hand, seat, n) PROVE Ledger!Next
    <2>1. n \in 0 .. hand.stack[seat] /\ hand'.folded = hand.folded
      BY <1>6 DEF Puts
    <2>2. CASE hand'.is_terminal
      <3>1. Ledger!PayOut(seat, n)
        <4>1. /\ \A t \in Seats : hand'.stack[t] >= [hand.stack EXCEPT ![seat] = @ - n][t]
              /\ \A t \in hand'.folded : hand'.stack[t] = [hand.stack EXCEPT ![seat] = @ - n][t]
          BY <2>1, <2>2, <1>6, <1>9 DEF Puts
        <4> QED BY <4>1, <2>2, <1>8
      <3> QED BY <3>1, <2>1, <2>2, <1>2, LedgerTable DEF Ledger!PutUp, Ledger!Next
    <2>3. CASE ~hand'.is_terminal
      <3>1. Ledger!Stake(seat, n)
        BY <2>3, <1>3, <1>6 DEF Ledger!Stake, Puts
      <3> QED BY <3>1, <2>1, <2>3, <1>2, LedgerTable DEF Ledger!PutUp, Ledger!Next
    <2> QED BY <2>2, <2>3
  <1> QED BY <1>1, <1>5, <1>6 DEF MovesChips

(* A new hand is a ledger nobody gave up on.                               *)
LEMMA LedgerInit == Init => Ledger!Init
  <1> SUFFICES ASSUME Init PROVE Ledger!Init
    OBVIOUS
  <1>1. PICK button \in Seats : hand = StartNewHand(initial_stacks, button)
    BY DEF Init
  <1>2. initial_stacks \in StackVectors /\ initial_stacks \in [Seats -> Nat]
    BY StacksAssumption DEF Init
  <1>3. Running(hand, initial_stacks) /\ hand.folded = {}
    BY <1>1, <1>2, StartSound
  <1>4. /\ hand.stack \in [Seats -> Int] /\ hand.total_invested \in [Seats -> Nat]
        /\ ~hand.is_terminal
    BY <1>3, RunningTotals DEF Totals, Running, Hand
  <1>5. hand.stack \in [Seats -> Nat] /\ Staked = hand.total_invested
    BY <1>3, <1>4 DEF Running, Staked
  <1>6. [s \in Seats |-> hand.stack[s] + Staked[s]] = initial_stacks
    BY <1>2, <1>3, <1>5 DEF Running
  <1> QED BY <1>2, <1>3, <1>4, <1>5, <1>6, LedgerTable DEF Ledger!Init

(* With two seats nobody can fold and leave a showdown to others.          *)
LEMMA HeadsUpCovered ==
    ASSUME NumSeats = 2, IInv
    PROVE  PaysInFull(hand)
  <1> SUFFICES ASSUME hand.showdown_reached PROVE Covered(hand)
    BY DEF PaysInFull
  <1>1. Count(Active(hand)) >= 2 /\ hand.folded \in SUBSET Seats
    BY DEF IInv, Sound, Running, Ended, Hand
  <1>2. Active(hand) \in SUBSET {0, 1}
    BY DEF Active, Seats
  <1>3. 0 \in Seats /\ 1 \in Seats /\ Seats = {0, 1}
    BY DEF Seats
  <1>4. PICK t \in Active(hand) : t # 0
    BY <1>1, <1>3, CountMany DEF Active
  <1>5. PICK u \in Active(hand) : u # 1
    BY <1>1, <1>3, CountMany DEF Active
  <1>6. hand.folded = {}
    BY <1>1, <1>2, <1>3, <1>4, <1>5 DEF Active
  <1> QED BY <1>6 DEF Covered

(* Every step of every hand that loses no chips moves them as the ledger   *)
(* allows, for any number of seats.                                        *)
THEOREM MovesAsLedger ==
    Spec => Ledger!Init /\ [][PaysInFull(hand') => Ledger!Next]_(Ledger!ledger)
  <1>1. IInv /\ [Next]_vars => [PaysInFull(hand') => Ledger!Next]_(Ledger!ledger)
    BY LedgerStep
  <1> QED BY <1>1, LedgerInit, Invariant, PTL DEF Spec

(* Heads-up every hand is an implementation of the ledger.                 *)
THEOREM HeadsUpLedger == NumSeats = 2 => (Spec => ImplementsLedger)
  <1> SUFFICES ASSUME NumSeats = 2 PROVE Spec => ImplementsLedger
    OBVIOUS
  <1>1. IInv => PaysInFull(hand)
    BY HeadsUpCovered
  <1>2. IInv /\ [Next]_vars /\ PaysInFull(hand)' => [Ledger!Next]_(Ledger!ledger)
    BY LedgerStep
  <1> QED BY <1>1, <1>2, LedgerInit, Invariant, PTL DEF Spec, ImplementsLedger, Ledger!Spec

-----------------------------------------------------------------------------
(* The order in which the seats of a betting round speak.                  *)

(* A set that is part of another counts no more, and as much only if it is *)
(* the other.                                                              *)
LEMMA CountSubset ==
    ASSUME NEW S \in SUBSET Seats, NEW T \in SUBSET Seats, S \subseteq T
    PROVE  /\ Count(S) <= Count(T)
           /\ Count(S) >= Count(T) => S = T
  <1>1. \A k \in 0 .. 5 : /\ Mark(S, k) \in {0, 1} /\ Mark(T, k) \in {0, 1}
                          /\ Mark(S, k) <= Mark(T, k)
                          /\ Mark(S, k) = Mark(T, k) => (k \in S <=> k \in T)
    BY DEF Mark
  <1>2. Count(S) <= Count(T)
    BY <1>1, CountTerms
  <1>3. Count(S) >= Count(T) => \A k \in 0 .. 5 : Mark(S, k) = Mark(T, k)
    BY <1>1, CountTerms
  <1>4. \A k \in T : k \in 0 .. 5
    BY SeatsAssumption DEF Seats
  <1> QED BY <1>1, <1>2, <1>3, <1>4

(* No seat of a set is nearer, clockwise, than the first.                  *)
LEMMA FirstAfterNearest ==
    ASSUME NEW S \in SUBSET Seats, NEW from \in Seats, S # {}
    PROVE  \A t \in S : Distance(from, FirstAfter(S, from)) <= Distance(from, t)
  <1> DEFINE f == [s \in Seats |-> -Distance(from, s)]
  <1>1. /\ f \in [Seats -> Int]
        /\ \A s \in Seats : Distance(from, s) \in Int /\ f[s] = -Distance(from, s)
    BY SeatsAssumption DEF Distance, Seats
  <1> HIDE DEF f
  <1>2. PICK m \in S : \A n \in S : f[n] <= f[m]
    BY <1>1, LargestExists
  <1>3. \A n \in S : Distance(from, m) <= Distance(from, n)
    BY <1>1, <1>2
  <1> QED BY <1>3 DEF FirstAfter

(* Clockwise distances add up.                                             *)
LEMMA Distances ==
    ASSUME NEW a \in Seats, NEW b \in Seats, NEW s \in Seats
    PROVE  /\ Distance(a, s) \in 1 .. NumSeats
           /\ s # a => Distance(a, s) < NumSeats
           /\ Distance(a, a) = NumSeats
           /\ Distance(a, b) < Distance(a, s) => Distance(b, s) = Distance(a, s) - Distance(a, b)
           /\ Distance(a, b) = Distance(a, s) => b = s
  BY SeatsAssumption DEF Distance, Seats

(* Whose turn it is in a betting round: going round from the seat that     *)
(* acts, the seats that have still to act come before those that have      *)
(* acted, and these have put in what they were asked.                      *)
Round(h) ==
    /\ h.acted \cap h.folded = {}
    /\ h.acting_seat \notin h.acted
    /\ \A s \in h.acted \cap CanBet(h) : h.invested[s] >= h.current_bet
    /\ \A s \in h.acted \cap CanBet(h), t \in CanBet(h) \ h.acted :
           t # h.acting_seat => Distance(h.acting_seat, t) < Distance(h.acting_seat, s)

(* The same once the seat that acts has acted, and is the last in turn.    *)
Acted(h) ==
    /\ h \in Hand /\ h.acting_seat \in Seats
    /\ h.acted \cap h.folded = {}
    /\ h.acting_seat \in CanBet(h) => h.acting_seat \in h.acted
    /\ \A s \in h.acted \cap CanBet(h) : h.invested[s] >= h.current_bet
    /\ \A s \in h.acted \cap CanBet(h), t \in CanBet(h) \ h.acted :
           Distance(h.acting_seat, t) < Distance(h.acting_seat, s)

(* A round is closed only on as many seats that acted as can still bet.    *)
Closes(r, h) ==
    r.street # h.street /\ Count(CanBet(r)) >= 2 =>
        /\ Count(h.acted) >= Count(CanBet(h))
        /\ r.folded = h.folded /\ r.all_in = h.all_in

(* The seat the turn passes to is one that has not acted, or the round is  *)
(* over.                                                                   *)
LEMMA TurnPasses ==
    ASSUME NEW h, Acted(h), NEW next, next = CanBet(h) \ {h.acting_seat}, next # {},
           NEW seat, seat = FirstAfter(next, h.acting_seat), ~RoundOver(h, seat)
    PROVE  /\ seat \in CanBet(h) /\ seat \notin h.acted
           /\ \A s \in h.acted \cap CanBet(h), t \in CanBet(h) \ h.acted :
                  t # seat => Distance(seat, t) < Distance(seat, s)
  <1> DEFINE a == h.acting_seat
  <1>1. /\ a \in Seats /\ CanBet(h) \in SUBSET Seats /\ next \in SUBSET Seats
        /\ h.acted \in SUBSET Seats
    BY DEF Acted, CanBet, Active, Hand
  <1>2. seat \in next /\ seat \in CanBet(h) /\ seat \in Seats
        /\ \A t \in next : Distance(a, seat) <= Distance(a, t)
    BY <1>1, FirstAfterMember, FirstAfterNearest
  <1>3. seat \notin h.acted
    <2> SUFFICES ASSUME seat \in h.acted PROVE RoundOver(h, seat)
      OBVIOUS
    <2>1. \A t \in CanBet(h) : t \in h.acted
      <3> SUFFICES ASSUME NEW t \in CanBet(h), t \notin h.acted PROVE FALSE
        OBVIOUS
      <3>1. Distance(a, t) < Distance(a, seat) /\ t # a
        BY <1>2 DEF Acted
      <3>2. Distance(a, seat) <= Distance(a, t)
        BY <1>2, <3>1
      <3>3. Distance(a, t) \in Int /\ Distance(a, seat) \in Int
        BY <1>1, <1>2, Distances
      <3> QED BY <3>1, <3>2, <3>3
    <2>2. Count(h.acted) >= Count(CanBet(h))
      <3>1. Count(h.acted) \in Int /\ Count(CanBet(h)) \in Int
        BY <1>1, CountPositive
      <3> QED BY <2>1, <3>1, <1>1, CountSubset
    <2>3. ToCall(h, seat) = 0
      <3>1. h.invested[seat] \in Int /\ h.current_bet \in Int
        BY <1>2 DEF Acted, Hand
      <3>2. h.invested[seat] >= h.current_bet
        BY <1>2 DEF Acted
      <3> QED BY <3>1, <3>2 DEF ToCall, Greatest
    <2> QED BY <2>2, <2>3 DEF RoundOver
  <1>4. ASSUME NEW s \in h.acted \cap CanBet(h), NEW t \in CanBet(h) \ h.acted, t # seat
        PROVE  Distance(seat, t) < Distance(seat, s)
    <2>1. Distance(a, t) < Distance(a, s)
      BY DEF Acted
    <2>2. t # a /\ t \in next
      BY DEF Acted
    <2>3. Distance(a, seat) <= Distance(a, t)
      BY <1>2, <2>2
    <2>4. s \in Seats /\ t \in Seats
      BY <1>1
    <2>5. /\ Distance(a, t) \in Int /\ Distance(a, s) \in Int /\ Distance(a, seat) \in Int
          /\ Distance(a, seat) # Distance(a, t)
      BY <1>1, <1>2, <1>4, <2>4, Distances
    <2>6. Distance(a, seat) < Distance(a, t) /\ Distance(a, seat) < Distance(a, s)
      BY <2>1, <2>3, <2>5
    <2>7. /\ Distance(seat, t) = Distance(a, t) - Distance(a, seat)
          /\ Distance(seat, s) = Distance(a, s) - Distance(a, seat)
      BY <2>4, <2>6, <1>1, <1>2, Distances
    <2> QED BY <2>1, <2>5, <2>7
  <1> QED BY <1>2, <1>3, <1>4

(* A new round begins with nobody having acted.                            *)
LEMMA OpenStreetRound ==
    ASSUME NEW h \in Hand, NEW street
    PROVE  /\ Round(OpenStreet(h, street)) /\ SameSeats(OpenStreet(h, street), h)
  <1>1. PICK g : g = OpenStreet(h, street)
    OBVIOUS
  <1>2. g.acted = {} /\ g.folded = h.folded /\ g.all_in = h.all_in
    BY <1>1 DEF OpenStreet, Hand
  <1> QED BY <1>1, <1>2 DEF Round, SameSeats

(* Once a seat has acted the hand ends, a new round begins or the turn     *)
(* passes on, and a round closes only on enough seats that acted.          *)
LEMMA ResolveRound ==
    ASSUME NEW start \in [Seats -> Nat], NEW h, Running(h, start), Acted(h),
           NEW rank \in Rankings
    PROVE  /\ \/ ResolveAfterAction(h, rank).is_terminal
              \/ Round(ResolveAfterAction(h, rank))
           /\ Closes(ResolveAfterAction(h, rank), h)
  <1> DEFINE active == Active(h)
             a == h.acting_seat
             next == CanBet(h) \ {a}
             nextSeat == FirstAfter(next, a)
             Good(r) == (r.is_terminal \/ Round(r)) /\ Closes(r, h)
  <1>1. /\ a \in Seats /\ active \in SUBSET Seats /\ CanBet(h) \subseteq active
        /\ h \in Hand /\ ~h.is_terminal
    BY DEF Acted, Active, CanBet, Running
  <1>2. ASSUME NEW r, SameSeats(r, h), r.is_terminal,
               Count(CanBet(h)) < 2 \/ Count(h.acted) >= Count(CanBet(h))
        PROVE  Good(r)
    <2>1. CanBet(r) = CanBet(h)
      BY <1>2 DEF SameSeats, CanBet, Active
    <2>2. Count(CanBet(h)) \in Int
      BY <1>1, CountPositive
    <2> QED BY <1>2, <2>1, <2>2 DEF SameSeats, Closes
  <1>3. CASE Count(active) = 1
    <2> DEFINE r == AwardEntirePot(h, CHOOSE s \in active : TRUE)
    <2>1. Count(CanBet(h)) < 2
      <3>1. Count(CanBet(h)) <= Count(active) /\ Count(CanBet(h)) \in Int
        BY <1>1, CountSubset, CountPositive
      <3> QED BY <3>1, <1>3
    <2>2. SameSeats(r, h) /\ r.is_terminal
      <3>1. \A winner : AwardEntirePot(h, winner).is_terminal
        BY <1>1 DEF AwardEntirePot, Terminal, Hand
      <3> QED BY <3>1, EndFollows
    <2>3. Good(r)
      BY <2>1, <2>2, <1>2
    <2> QED BY <2>3, <1>3 DEF ResolveAfterAction
  <1>4. CASE Count(active) # 1 /\ (next = {} \/ (active \subseteq h.all_in /\ AllBetsMatched(h)))
    <2> DEFINE r == RunoutAndShowdown(RefundUncalled(h), rank)
    <2>1. Count(CanBet(h)) < 2
      <3>1. CanBet(h) \subseteq {a}
        BY <1>4 DEF CanBet
      <3>2. Count(CanBet(h)) >= 2 => \E t \in CanBet(h) : t # a
        BY <1>1, CountMany
      <3>3. Count(CanBet(h)) \in Int
        BY <1>1, CountPositive
      <3> QED BY <3>1, <3>2, <3>3
    <2>2. SameSeats(r, h)
      BY EndFollows
    <2>3. r.is_terminal
      BY <1>1 DEF RunoutAndShowdown, Showdown, Terminal
    <2>4. Good(r)
      BY <2>1, <2>2, <2>3, <1>2
    <2> QED BY <2>4, <1>4 DEF ResolveAfterAction
  <1>5. CASE /\ Count(active) # 1 /\ next # {} /\ ~(active \subseteq h.all_in /\ AllBetsMatched(h))
             /\ RoundOver(h, nextSeat)
    <2>1. Count(h.acted) >= Count(CanBet(h))
      BY <1>5 DEF RoundOver
    <2>2. Good(AdvanceStreetOrShowdown(h, rank))
      <3>1. CASE h.street = "river"
        <4> DEFINE r == Showdown(RefundUncalled(h), rank)
        <4>1. SameSeats(r, h) /\ r.is_terminal
          BY <1>1, EndFollows, ShowdownSettled
        <4>2. Good(r)
          BY <4>1, <2>1, <1>2
        <4> QED BY <4>2, <3>1 DEF AdvanceStreetOrShowdown
      <3>2. CASE h.street # "river"
        <4> DEFINE r == OpenStreet(h, NextStreet[h.street])
        <4>1. Round(r) /\ SameSeats(r, h)
          BY <1>1, OpenStreetRound
        <4> HIDE DEF r
        <4>2. Good(r)
          BY <4>1, <2>1 DEF Closes, SameSeats
        <4> QED BY <4>2, <3>2 DEF AdvanceStreetOrShowdown, r
      <3> QED BY <3>1, <3>2
    <2> QED BY <2>2, <1>5 DEF ResolveAfterAction
  <1>6. CASE /\ Count(active) # 1 /\ next # {} /\ ~(active \subseteq h.all_in /\ AllBetsMatched(h))
             /\ ~RoundOver(h, nextSeat)
    <2> DEFINE r == [h EXCEPT !.acting_seat = nextSeat, !.to_call = ToCall(h, nextSeat)]
    <2>1. /\ nextSeat \in CanBet(h) /\ nextSeat \notin h.acted
          /\ \A s \in h.acted \cap CanBet(h), t \in CanBet(h) \ h.acted :
                 t # nextSeat => Distance(nextSeat, t) < Distance(nextSeat, s)
      BY <1>6, TurnPasses
    <2>2. /\ r.acting_seat = nextSeat /\ r.acted = h.acted /\ r.folded = h.folded
          /\ r.all_in = h.all_in /\ r.invested = h.invested /\ r.current_bet = h.current_bet
          /\ r.street = h.street
      BY <1>1 DEF Hand
    <2> HIDE DEF r, nextSeat
    <2>3. CanBet(r) = CanBet(h)
      BY <2>2 DEF CanBet, Active
    <2>4. Good(r)
      BY <2>1, <2>2, <2>3 DEF Acted, Round, Closes
    <2> QED BY <2>4, <1>6 DEF ResolveAfterAction, r, nextSeat
  <1> QED BY <1>3, <1>4, <1>5, <1>6


(* A seat that speaks without raising: those that can still bet, what they *)
(* put in and who has acted change for this seat only.                     *)
Speaks(c, h) ==
    /\ c \in Hand /\ h.acting_seat \in CanBet(h) /\ c.acting_seat = h.acting_seat
    /\ c.street = h.street /\ c.current_bet = h.current_bet
    /\ CanBet(h) \ {h.acting_seat} \subseteq CanBet(c) /\ CanBet(c) \subseteq CanBet(h)
    /\ h.acted \subseteq c.acted /\ c.acted \subseteq h.acted \cup {h.acting_seat}
    /\ c.acted \cap c.folded = {}
    /\ h.acting_seat \in CanBet(c) => /\ h.acting_seat \in c.acted
                                      /\ c.invested[h.acting_seat] >= c.current_bet
    /\ \A s \in Seats : s # h.acting_seat => c.invested[s] = h.invested[s]

(* A seat that raises: it alone has acted on its bet.                      *)
RaisesBet(c, h) ==
    /\ c \in Hand /\ h.acting_seat \in Seats /\ c.acting_seat = h.acting_seat
    /\ c.acted = {h.acting_seat} /\ h.acting_seat \notin c.folded
    /\ c.current_bet = c.invested[h.acting_seat]
    /\ c.street = h.street

(* What RoundClosesFairly says of a step.                                  *)
Fair(r, h) ==
    /\ r.street # h.street
    /\ Count(CanBet(r)) >= 2
    /\ r.all_in \cap (h.acted \cup {h.acting_seat}) = {}
    => \A s \in CanBet(h) \ (r.folded \cup {h.acting_seat}) :
           s \in h.acted /\ ToCall(h, s) = 0

LEMMA SpeaksActed ==
    ASSUME NEW h \in Hand, Round(h), NEW c, Speaks(c, h)
    PROVE  Acted(c)
  <1> DEFINE a == h.acting_seat
  <1>1. a \in Seats /\ a \in CanBet(h) /\ CanBet(h) \subseteq Seats
    BY DEF Speaks, CanBet, Active
  <1>2. ASSUME NEW s \in c.acted \cap CanBet(c) PROVE c.invested[s] >= c.current_bet
    <2>1. CASE s = a
      BY <2>1, <1>2 DEF Speaks
    <2>2. CASE s # a
      BY <2>2, <1>1, <1>2 DEF Speaks, Round
    <2> QED BY <2>1, <2>2
  <1>3. ASSUME NEW s \in c.acted \cap CanBet(c), NEW t \in CanBet(c) \ c.acted
        PROVE  Distance(a, t) < Distance(a, s)
    <2>1. t # a /\ t \in CanBet(h) \ h.acted /\ t \in Seats
      BY <1>1, <1>3 DEF Speaks
    <2>2. CASE s = a
      BY <2>1, <2>2, <1>1, Distances
    <2>3. CASE s # a
      <3>1. s \in h.acted \cap CanBet(h)
        BY <2>3, <1>3 DEF Speaks
      <3> QED BY <3>1, <2>1 DEF Round
    <2> QED BY <2>2, <2>3
  <1> QED BY <1>1, <1>2, <1>3 DEF Speaks, Acted

LEMMA SpeaksFair ==
    ASSUME NEW h \in Hand, Round(h), NEW c, Speaks(c, h), NEW r, Closes(r, c)
    PROVE  Fair(r, h)
  <1> DEFINE a == h.acting_seat
  <1> SUFFICES ASSUME r.street # h.street, Count(CanBet(r)) >= 2,
                      r.all_in \cap (h.acted \cup {a}) = {},
                      NEW s \in CanBet(h) \ (r.folded \cup {a})
               PROVE  s \in h.acted /\ ToCall(h, s) = 0
    BY DEF Fair
  <1>1. Count(c.acted) >= Count(CanBet(c)) /\ r.folded = c.folded /\ r.all_in = c.all_in
    BY DEF Speaks, Closes
  <1>2. c.acted \subseteq CanBet(c) /\ CanBet(c) \in SUBSET Seats /\ c.acted \in SUBSET Seats
    BY <1>1 DEF Speaks, Hand, CanBet, Active
  <1>3. c.acted = CanBet(c)
    BY <1>1, <1>2, CountSubset
  <1>4. s \in h.acted
    BY <1>3 DEF Speaks
  <1>5. h.invested[s] >= h.current_bet /\ h.invested[s] \in Int /\ h.current_bet \in Int
    BY <1>4 DEF Round, Hand, CanBet, Active
  <1> QED BY <1>4, <1>5 DEF ToCall, Greatest

LEMMA RaisesActed ==
    ASSUME NEW h, NEW c, RaisesBet(c, h)
    PROVE  Acted(c)
  <1> DEFINE a == h.acting_seat
  <1>1. c.invested[a] \in Int /\ a \in Seats
    BY DEF RaisesBet, Hand
  <1>2. \A t \in CanBet(c) \ c.acted : t # a /\ t \in Seats
    BY DEF RaisesBet, CanBet, Active
  <1>3. \A t \in CanBet(c) \ c.acted : Distance(a, t) < Distance(a, a)
    BY <1>1, <1>2, Distances
  <1> QED BY <1>1, <1>3 DEF RaisesBet, Acted

LEMMA RaisesFair ==
    ASSUME NEW h, NEW c, RaisesBet(c, h), NEW r, Closes(r, c)
    PROVE  Fair(r, h)
  <1> SUFFICES ASSUME r.street # h.street, Count(CanBet(r)) >= 2 PROVE FALSE
    BY DEF Fair
  <1>1. /\ Count({h.acting_seat}) >= Count(CanBet(c))
        /\ r.folded = c.folded /\ r.all_in = c.all_in
    BY DEF RaisesBet, Closes
  <1>2. CanBet(r) = CanBet(c)
    BY <1>1 DEF CanBet, Active
  <1>3. {h.acting_seat} \in SUBSET Seats /\ h.acting_seat \in Seats
    BY DEF RaisesBet
  <1>4. Count({h.acting_seat}) >= 2 => \E t \in {h.acting_seat} : t # h.acting_seat
    BY <1>3, CountMany
  <1>5. Count({h.acting_seat}) \in Int /\ Count(CanBet(c)) \in Int
    BY <1>3, CountPositive DEF CanBet, Active
  <1> QED BY <1>1, <1>2, <1>4, <1>5

(* What a step does to the betting round.                                  *)
-----------------------------------------------------------------------------
(* The bet of a street, with blinds that are ordinary: the big blind is    *)
(* the larger, and every seat has chips when the hand starts.              *)

(* Nobody has bet on a later street; nobody has exceeded the big blind;    *)
(* or all the bets are within the highest and those who have still to act  *)
(* on it owe something.                                                    *)
NoBet(h) ==
    /\ h.street # "pre_flop" /\ h.current_bet = 0 /\ h.min_raise_to = BigBlind
    /\ \A s \in Seats : h.invested[s] = 0
BlindBet(h) ==
    /\ h.street = "pre_flop" /\ 0 < h.current_bet /\ h.current_bet <= BigBlind
    /\ h.current_bet < h.min_raise_to /\ h.min_raise_to <= 2 * BigBlind
    /\ \A s \in Seats : h.invested[s] <= BigBlind
FullBet(h) ==
    /\ 0 < h.current_bet /\ h.current_bet < h.min_raise_to
    /\ \A s \in Seats : h.invested[s] <= h.current_bet
    /\ \A s \in CanBet(h) \ h.acted : h.invested[s] < h.current_bet
StreetBet(h) == NoBet(h) \/ BlindBet(h) \/ FullBet(h)

LEMMA SpeaksBets ==
    ASSUME NEW h \in Hand, StreetBet(h), NEW c, Speaks(c, h), c.min_raise_to = h.min_raise_to,
           c.invested = h.invested
           \/ (h.current_bet > 0 /\ c.invested[h.acting_seat] <= h.current_bet)
    PROVE  StreetBet(c)
  <1> DEFINE a == h.acting_seat
  <1>1. /\ c.street = h.street /\ c.current_bet = h.current_bet /\ a \in Seats
        /\ \A s \in Seats : s # a => c.invested[s] = h.invested[s]
        /\ CanBet(c) \subseteq Seats
        /\ \A s \in CanBet(c) \ c.acted : s # a /\ s \in CanBet(h) \ h.acted
    BY DEF Speaks, CanBet, Active
  <1>2. h.current_bet \in Int /\ BigBlind \in Nat /\ c.invested[a] \in Int
    BY <1>1, BlindsAssumption DEF Hand, Speaks
  <1>3. CASE NoBet(h)
    <2>1. c.invested = h.invested
      BY <1>3, <1>2 DEF NoBet
    <2> QED BY <1>1, <1>3, <2>1 DEF NoBet, StreetBet
  <1>4. CASE BlindBet(h)
    <2>1. c.invested[a] <= BigBlind
      BY <1>1, <1>2, <1>4 DEF BlindBet
    <2>2. BlindBet(c)
      BY <1>1, <1>4, <2>1 DEF BlindBet
    <2> QED BY <2>2 DEF StreetBet
  <1>5. CASE FullBet(h)
    <2>1. c.invested[a] <= c.current_bet
      BY <1>1, <1>5 DEF FullBet
    <2>2. FullBet(c)
      BY <1>1, <1>5, <2>1 DEF FullBet
    <2> QED BY <2>2 DEF StreetBet
  <1> QED BY <1>3, <1>4, <1>5 DEF StreetBet

LEMMA RaisesBets ==
    ASSUME NEW h \in Hand, StreetBet(h), NEW c, RaisesBet(c, h),
           c.current_bet > h.current_bet,
           c.min_raise_to = c.current_bet + (c.current_bet - h.current_bet),
           \A s \in Seats : s # h.acting_seat => c.invested[s] = h.invested[s]
    PROVE  StreetBet(c)
  <1> DEFINE a == h.acting_seat
             n == c.current_bet
             m == h.current_bet
  <1>1. /\ c.street = h.street /\ a \in Seats /\ c.invested[a] = n /\ c.acted = {a}
        /\ n \in Int /\ m \in Int /\ BigBlind \in Nat /\ n > m
        /\ c.min_raise_to = n + (n - m) /\ CanBet(c) \subseteq Seats
    BY BlindsAssumption DEF RaisesBet, Hand, CanBet, Active
  <1>2. \A s \in Seats : h.invested[s] \in Int
    BY DEF Hand
  <1> SUFFICES ASSUME ~(BlindBet(h) /\ n <= BigBlind) PROVE FullBet(c)
    <2>1. ASSUME BlindBet(h), n <= BigBlind PROVE BlindBet(c)
      <3>1. 0 < m /\ 0 < n /\ n < c.min_raise_to /\ c.min_raise_to <= 2 * BigBlind
        BY <1>1, <2>1 DEF BlindBet
      <3>2. \A s \in Seats : c.invested[s] <= BigBlind
        BY <1>1, <2>1 DEF BlindBet
      <3> QED BY <1>1, <2>1, <3>1, <3>2 DEF BlindBet
    <2> QED BY <2>1 DEF StreetBet
  <1>3. 0 <= m
    BY <1>1 DEF StreetBet, NoBet, BlindBet, FullBet
  <1>4. 0 < n /\ n < c.min_raise_to
    BY <1>1, <1>3
  <1>5. \A s \in Seats : s # a => h.invested[s] < n
    BY <1>1, <1>2, <1>3 DEF StreetBet, NoBet, BlindBet, FullBet
  <1>6. \A s \in Seats : c.invested[s] <= n /\ (s # a => c.invested[s] < n)
    BY <1>1, <1>2, <1>5
  <1> QED BY <1>1, <1>4, <1>6 DEF FullBet

(* The bets stay as they are, or a new street begins without any.          *)
LEMMA ResolveBets ==
    ASSUME NEW c \in Hand, c.street # "terminal", StreetBet(c), NEW rank,
           NEW r, r = ResolveAfterAction(c, rank)
    PROVE  r.is_terminal \/ StreetBet(r)
  <1>1. \A d, w : Terminal(d, w).is_terminal = TRUE
    BY DEF Terminal
  <1>2. \A d, w : AwardEntirePot(d, w).is_terminal
    <2>1. ASSUME NEW d, NEW w PROVE AwardEntirePot(d, w).is_terminal = TRUE
      BY DEF AwardEntirePot, Terminal
    <2> QED BY <2>1
  <1>3. \A d, k : Showdown(d, k).is_terminal
    <2>1. ASSUME NEW d, NEW k PROVE Showdown(d, k).is_terminal = TRUE
      BY DEF Showdown, Terminal
    <2> QED BY <2>1
  <1>4. \A d, k : RunoutAndShowdown(d, k).is_terminal
    BY <1>3 DEF RunoutAndShowdown
  <1>5. AdvanceStreetOrShowdown(c, rank).is_terminal \/ StreetBet(AdvanceStreetOrShowdown(c, rank))
    <2>1. CASE c.street = "river"
      BY <1>3, <2>1 DEF AdvanceStreetOrShowdown
    <2>2. CASE c.street # "river"
      <3> DEFINE street == NextStreet[c.street]
                 o == OpenStreet(c, street)
      <3>1. street # "pre_flop" /\ AdvanceStreetOrShowdown(c, rank) = o
        BY <2>2 DEF AdvanceStreetOrShowdown, NextStreet, Hand
      <3> HIDE DEF street
      <3>2. /\ o.street = street /\ o.current_bet = 0 /\ o.min_raise_to = BigBlind
            /\ o.invested = [s \in Seats |-> 0]
        BY DEF OpenStreet, Hand
      <3> HIDE DEF o
      <3> QED BY <3>1, <3>2 DEF StreetBet, NoBet
    <2> QED BY <2>1, <2>2
  <1>6. ASSUME NEW next, r = [c EXCEPT !.acting_seat = next, !.to_call = ToCall(c, next)]
        PROVE  StreetBet(r)
    <2>1. /\ r.street = c.street /\ r.current_bet = c.current_bet
          /\ r.min_raise_to = c.min_raise_to /\ r.invested = c.invested
          /\ r.acted = c.acted /\ r.folded = c.folded /\ r.all_in = c.all_in
      BY <1>6 DEF Hand
    <2> QED BY <2>1 DEF StreetBet, NoBet, BlindBet, FullBet, CanBet, Active
  <1> QED BY <1>2, <1>4, <1>5, <1>6 DEF ResolveAfterAction
-----------------------------------------------------------------------------
(* What every call of apply_action does to the round and to its bet.       *)

Bids(r, h) == StreetBet(h) => r.is_terminal \/ StreetBet(r)

Turns(r, h) == (r.is_terminal \/ Round(r)) /\ Fair(r, h) /\ Bids(r, h)

LEMMA SpeaksTurns ==
    ASSUME NEW start \in [Seats -> Nat], NEW h \in Hand, Round(h), NEW c, Running(c, start),
           Speaks(c, h) \/ RaisesBet(c, h), StreetBet(h) => StreetBet(c), NEW rank \in Rankings
    PROVE  Turns(ResolveAfterAction(c, rank), h)
  <1>1. Acted(c)
    BY SpeaksActed, RaisesActed
  <1>2. PICK r : r = ResolveAfterAction(c, rank)
    OBVIOUS
  <1>3. (r.is_terminal \/ Round(r)) /\ Closes(r, c)
    BY <1>1, <1>2, ResolveRound
  <1>4. Fair(r, h)
    BY <1>3, SpeaksFair, RaisesFair
  <1>5. Bids(r, h)
    <2>1. c \in Hand /\ c.street # "terminal"
      BY DEF Running
    <2> QED BY <1>2, <2>1, ResolveBets DEF Bids
  <1> QED BY <1>2, <1>3, <1>4, <1>5 DEF Turns


-----------------------------------------------------------------------------
(* What apply_action does with what it accepts.                            *)

(* A call, or an all-in that does not exceed the bet.                      *)
PutsIn(h, n) ==
    /\ n > 0 /\ h.invested[h.acting_seat] + n <= h.current_bet
    /\ n = h.stack[h.acting_seat] \/ h.invested[h.acting_seat] + n >= h.current_bet

(* A bet, a raise, or an all-in that does.                                 *)
RaisesTo(h, n) ==
    /\ n > h.invested[h.acting_seat] /\ n <= Shove(h)
    /\ n >= h.min_raise_to \/ n > h.current_bet

LEMMA AcceptedActs ==
    ASSUME NEW start \in [Seats -> Nat], NEW h, Running(h, start), NEW rank,
           NEW type \in ActionTypes, NEW amount \in Int, Accepts(h, type, amount),
           NEW r, r = ApplyAction(h, rank, type, amount)
    PROVE  \/ r = ApplyFold(h, rank)
           \/ r = ApplyCheck(h, rank) /\ ToCall(h, h.acting_seat) = 0
           \/ \E n \in Nat : r = PutIn(h, rank, n) /\ PutsIn(h, n)
           \/ \E n \in Int : r = RaiseTo(h, rank, n) /\ RaisesTo(h, n)
  <1> DEFINE seat == h.acting_seat
  <1>1. CanAct(h) /\ h \in Hand /\ seat \in Seats
    BY ActingSeat DEF Accepts, Running
  <1>2. h.invested[seat] \in Int /\ h.stack[seat] \in Nat /\ h.current_bet \in Int
        /\ h.min_raise_to \in Int
    BY <1>1 DEF Hand, Running
  <1>3. CASE type = "fold"
    BY <1>3 DEF ApplyAction
  <1>4. CASE type = "check"
    BY <1>4 DEF ApplyAction, Accepts
  <1>5. CASE type = "call"
    <2>1. r = PutIn(h, rank, ToCall(h, seat)) /\ ToCall(h, seat) > 0
      BY <1>5 DEF ApplyAction, ApplyCall, Accepts
    <2>2. ToCall(h, seat) \in Nat /\ PutsIn(h, ToCall(h, seat))
      BY <1>2, <2>1 DEF ToCall, Greatest, PutsIn
    <2> QED BY <2>1, <2>2
  <1>6. CASE type = "bet"
    <2>1. r = RaiseTo(h, rank, Least(Shove(h), amount))
          /\ RaiseAccepted(h, Least(Shove(h), amount))
      BY <1>6 DEF ApplyAction, ApplyBet, Accepts
    <2>2. Least(Shove(h), amount) \in Int /\ RaisesTo(h, Least(Shove(h), amount))
      BY <1>2, <2>1 DEF Least, Shove, RaiseAccepted, RaisesTo
    <2> QED BY <2>1, <2>2
  <1>7. CASE type = "raise"
    <2>1. r = RaiseTo(h, rank, amount) /\ RaiseAccepted(h, amount)
      BY <1>7 DEF ApplyAction, ApplyRaise, Accepts
    <2> QED BY <2>1 DEF RaiseAccepted, RaisesTo
  <1>8. CASE type = "all_in"
    <2>1. r = ApplyAllIn(h, rank) /\ h.stack[seat] > 0
      BY <1>8 DEF ApplyAction, Accepts
    <2>2. CASE Shove(h) <= h.current_bet
      <3>1. r = PutIn(h, rank, h.stack[seat])
        BY <2>1, <2>2 DEF ApplyAllIn
      <3>2. PutsIn(h, h.stack[seat])
        BY <1>2, <2>1, <2>2 DEF PutsIn, Shove
      <3> QED BY <1>2, <3>1, <3>2
    <2>3. CASE ~(Shove(h) <= h.current_bet)
      <3>1. r = RaiseTo(h, rank, Shove(h))
        BY <2>1, <2>3 DEF ApplyAllIn
      <3>2. Shove(h) \in Int /\ RaisesTo(h, Shove(h))
        BY <1>2, <2>1, <2>3 DEF RaisesTo, Shove
      <3> QED BY <3>1, <3>2
    <2> QED BY <2>2, <2>3
  <1> QED BY <1>3, <1>4, <1>5, <1>6, <1>7, <1>8 DEF ActionTypes

(* What putting chips in does to the betting round.                        *)
LEMMA CommitRound ==
    ASSUME NEW h \in Hand, NEW seat \in Seats, seat \notin h.all_in, NEW amount \in Nat,
           NEW c, c = Commit(h, seat, amount)
    PROVE  /\ c.acted = h.acted /\ c.current_bet = h.current_bet
           /\ c.min_raise_to = h.min_raise_to
           /\ c.folded = h.folded /\ c.street = h.street /\ c.acting_seat = h.acting_seat
           /\ h.all_in \subseteq c.all_in /\ c.all_in \subseteq h.all_in \cup {seat}
           /\ \A s \in Seats : s # seat => c.invested[s] = h.invested[s]
           /\ seat \in c.all_in \/ c.invested[seat] = h.invested[seat] + amount
           /\ amount = h.stack[seat] => seat \in c.all_in
           /\ c.invested[seat] <= h.invested[seat] + amount
           /\ amount <= h.stack[seat] => c.invested[seat] = h.invested[seat] + amount
  <1>1. PICK n : n = Least(amount, h.stack[seat])
    OBVIOUS
  <1>2. /\ c.acted = h.acted /\ c.current_bet = h.current_bet
        /\ c.min_raise_to = h.min_raise_to
        /\ c.folded = h.folded /\ c.street = h.street /\ c.acting_seat = h.acting_seat
        /\ c.invested = [h.invested EXCEPT ![seat] = @ + n]
        /\ c.all_in = IF h.stack[seat] = n THEN h.all_in \cup {seat} ELSE h.all_in
    BY <1>1 DEF Commit, Hand
  <1>3. h.invested \in [Seats -> Int] /\ h.stack[seat] \in Int
    BY DEF Hand
  <1>4. /\ (h.stack[seat] # n => n = amount) /\ (amount = h.stack[seat] => n = h.stack[seat])
        /\ n \in Int /\ n <= amount /\ (amount <= h.stack[seat] => n = amount)
    BY <1>1, <1>3 DEF Least
  <1> QED BY <1>2, <1>3, <1>4

(* A seat that puts in its whole stack or what it is asked for has spoken. *)
LEMMA PutInTurns ==
    ASSUME NEW start \in [Seats -> Nat], NEW h, Running(h, start), CanAct(h), Round(h),
           NEW rank \in Rankings, NEW amount \in Nat, PutsIn(h, amount)
    PROVE  Turns(PutIn(h, rank, amount), h)
  <1> DEFINE seat == h.acting_seat
             c == Commit(h, seat, amount)
             g == [c EXCEPT !.acted = @ \cup {seat}]
  <1>1. h \in Hand /\ seat \in Seats /\ seat \in CanBet(h) /\ seat \notin h.all_in
    BY ActingSeat DEF Running, CanAct, CanBet, Active
  <1>2. Running(c, start) /\ c \in Hand
    BY <1>1, CommitRunning DEF Running
  <1>3. /\ c.acted = h.acted /\ c.current_bet = h.current_bet
        /\ c.folded = h.folded /\ c.street = h.street /\ c.acting_seat = seat
        /\ h.all_in \subseteq c.all_in /\ c.all_in \subseteq h.all_in \cup {seat}
        /\ \A s \in Seats : s # seat => c.invested[s] = h.invested[s]
        /\ seat \in c.all_in \/ c.invested[seat] >= h.current_bet
        /\ c.min_raise_to = h.min_raise_to /\ h.current_bet > 0
        /\ c.invested[seat] <= h.current_bet
    <2>1. h.invested[seat] \in Nat /\ h.current_bet \in Int /\ c.invested[seat] \in Int
      BY <1>1, <1>2 DEF Running, Hand
    <2> QED BY <1>1, <2>1, CommitRound DEF PutsIn
  <1> HIDE DEF c
  <1>4. g \in Hand
    <2>1. c.acted \cup {seat} \in SUBSET Seats
      BY <1>1, <1>2 DEF Hand
    <2> QED BY <1>2, <2>1, Zenon DEF Hand
  <1>5. /\ g.acted = h.acted \cup {seat} /\ g.current_bet = c.current_bet
        /\ g.folded = c.folded /\ g.street = c.street /\ g.acting_seat = c.acting_seat
        /\ g.all_in = c.all_in /\ g.invested = c.invested /\ SameBooks(g, c)
        /\ g.min_raise_to = c.min_raise_to
    BY <1>2, <1>3, <1>4 DEF Hand, SameBooks
  <1> HIDE DEF g
  <1>6. Running(g, start)
    BY <1>2, <1>5, SameBooksRunning
  <1>7. Speaks(g, h)
    BY <1>1, <1>3, <1>4, <1>5 DEF Speaks, Round, CanBet, Active
  <1>8. StreetBet(h) => StreetBet(g)
    BY <1>1, <1>3, <1>5, <1>7, SpeaksBets
  <1>9. Turns(ResolveAfterAction(g, rank), h)
    BY <1>1, <1>6, <1>7, <1>8, SpeaksTurns
  <1> QED BY <1>9 DEF PutIn, g, c

(* A seat that raises has alone acted on its bet.                          *)
LEMMA RaiseToTurns ==
    ASSUME NEW start \in [Seats -> Nat], NEW h, Running(h, start), CanAct(h), Round(h),
           NEW rank \in Rankings, NEW raise_to \in Int, RaisesTo(h, raise_to)
    PROVE  Turns(RaiseTo(h, rank, raise_to), h)
  <1> DEFINE seat == h.acting_seat
             c == Commit(h, seat, raise_to - h.invested[seat])
             bet == c.invested[seat]
             min == IF bet - h.current_bet > 0 THEN bet + (bet - h.current_bet)
                    ELSE c.min_raise_to
             g == [c EXCEPT !.current_bet = bet, !.min_raise_to = min, !.acted = {seat}]
  <1>1. /\ h \in Hand /\ seat \in Seats /\ seat \in Active(h) /\ seat \notin h.all_in
        /\ seat \notin h.folded /\ h.invested[seat] \in Nat /\ h.current_bet \in Int
        /\ h.stack[seat] \in Int /\ h.min_raise_to \in Int
    BY ActingSeat DEF Running, CanAct, Active, Hand
  <1>2. /\ raise_to - h.invested[seat] \in Nat /\ raise_to - h.invested[seat] <= h.stack[seat]
        /\ h.invested[seat] + (raise_to - h.invested[seat]) = raise_to
    BY <1>1 DEF RaisesTo, Shove
  <1>3. Running(c, start) /\ c \in Hand
    BY <1>1, <1>2, CommitRunning DEF Running
  <1>4. /\ c.folded = h.folded /\ c.street = h.street /\ c.acting_seat = seat
        /\ bet = raise_to /\ \A s \in Seats : s # seat => c.invested[s] = h.invested[s]
    BY <1>1, <1>2, CommitRound
  <1>5. RaiseTo(h, rank, raise_to) = ResolveAfterAction(g, rank)
    BY DEF RaiseTo
  <1> HIDE DEF c
  <1>6. bet \in Int /\ c.min_raise_to \in Int /\ {seat} \in SUBSET Seats
    BY <1>1, <1>3 DEF Hand
  <1>7. min \in Int /\ (bet > h.current_bet => min = bet + (bet - h.current_bet))
    BY <1>1, <1>6
  <1> HIDE DEF min
  <1>8. g \in Hand
    <2> HIDE DEF bet
    <2> QED BY <1>3, <1>6, <1>7, Zenon DEF Hand
  <1>9. /\ g.acted = {seat} /\ g.current_bet = g.invested[seat] /\ g.invested = c.invested
        /\ g.current_bet = bet /\ g.min_raise_to = min
        /\ g.folded = c.folded /\ g.street = c.street /\ g.acting_seat = c.acting_seat
        /\ SameBooks(g, c)
    BY <1>3, <1>8 DEF Hand, SameBooks
  <1> HIDE DEF g
  <1>10. Running(g, start)
    BY <1>3, <1>9, SameBooksRunning
  <1>11. RaisesBet(g, h)
    BY <1>1, <1>4, <1>8, <1>9 DEF RaisesBet
  <1>12. ASSUME StreetBet(h) PROVE StreetBet(g)
    <2>1. raise_to > h.current_bet
      BY <1>1, <1>12 DEF StreetBet, NoBet, BlindBet, FullBet, RaisesTo
    <2> QED BY <1>1, <1>4, <1>7, <1>9, <1>11, <1>12, <2>1, RaisesBets
  <1> QED BY <1>1, <1>5, <1>10, <1>11, <1>12, SpeaksTurns

(* A seat that folds is out of the round.                                  *)
LEMMA FoldTurns ==
    ASSUME NEW start \in [Seats -> Nat], NEW h, Running(h, start), CanAct(h), Round(h),
           NEW rank \in Rankings
    PROVE  Turns(ApplyFold(h, rank), h)
  <1> DEFINE seat == h.acting_seat
             g == [h EXCEPT !.folded = @ \cup {seat}]
  <1>1. h \in Hand /\ seat \in Seats /\ seat \in CanBet(h)
        /\ h.folded \cup {seat} \in SUBSET Seats
    BY ActingSeat DEF Running, CanAct, CanBet, Active, Hand
  <1>2. g \in Hand
    BY <1>1, Zenon DEF Hand
  <1>3. /\ g.pot = h.pot /\ g.stack = h.stack /\ g.invested = h.invested
        /\ g.total_invested = h.total_invested /\ g.folded = h.folded \cup {seat}
        /\ g.acting_seat = seat /\ g.street = h.street /\ g.board = h.board
        /\ g.is_terminal = h.is_terminal /\ g.showdown_reached = h.showdown_reached
        /\ g.all_in = h.all_in /\ g.acted = h.acted /\ g.current_bet = h.current_bet
        /\ g.min_raise_to = h.min_raise_to
    BY <1>1 DEF Hand
  <1> HIDE DEF g
  <1>4. Running(g, start)
    BY <1>2, <1>3 DEF Running
  <1>5. Speaks(g, h)
    BY <1>1, <1>2, <1>3 DEF Speaks, Round, CanBet, Active
  <1>6. StreetBet(h) => StreetBet(g)
    BY <1>1, <1>3, <1>5, SpeaksBets
  <1>7. Turns(ResolveAfterAction(g, rank), h)
    BY <1>1, <1>4, <1>5, <1>6, SpeaksTurns
  <1> QED BY <1>7 DEF ApplyFold, g

(* A seat that checks has acted and owes nothing.                          *)
LEMMA CheckTurns ==
    ASSUME NEW start \in [Seats -> Nat], NEW h, Running(h, start), CanAct(h), Round(h),
           ToCall(h, h.acting_seat) = 0, NEW rank \in Rankings
    PROVE  Turns(ApplyCheck(h, rank), h)
  <1> DEFINE seat == h.acting_seat
             g == [h EXCEPT !.acted = @ \cup {seat}]
  <1>1. h \in Hand /\ seat \in Seats /\ seat \in CanBet(h)
        /\ h.acted \cup {seat} \in SUBSET Seats
    BY ActingSeat DEF Running, CanAct, CanBet, Active, Hand
  <1>2. g \in Hand
    BY <1>1, Zenon DEF Hand
  <1>3. /\ SameBooks(g, h) /\ g.acting_seat = seat /\ g.all_in = h.all_in
        /\ g.acted = h.acted \cup {seat} /\ g.current_bet = h.current_bet
        /\ g.min_raise_to = h.min_raise_to
    BY <1>1, <1>2 DEF Hand, SameBooks
  <1> HIDE DEF g
  <1>4. Running(g, start)
    BY <1>3, SameBooksRunning
  <1>5. h.invested[seat] >= h.current_bet
    BY <1>1 DEF ToCall, Greatest, Hand
  <1>6. Speaks(g, h)
    BY <1>1, <1>2, <1>3, <1>5 DEF SameBooks, Speaks, Round, CanBet, Active
  <1>7. StreetBet(h) => StreetBet(g)
    BY <1>1, <1>3, <1>6, SpeaksBets DEF SameBooks
  <1>8. Turns(ResolveAfterAction(g, rank), h)
    BY <1>1, <1>4, <1>6, <1>7, SpeaksTurns
  <1> QED BY <1>8 DEF ApplyCheck, g

(* So an accepted action leaves a sound hand, and the turn goes round.     *)
LEMMA AcceptedSound ==
    ASSUME NEW start \in [Seats -> Nat], NEW h, Sound(h, start), NEW rank \in Rankings,
           NEW type \in ActionTypes, NEW amount \in Int, Accepts(h, type, amount),
           NEW r, r = ApplyAction(h, rank, type, amount)
    PROVE  Sound(r, start) /\ (Round(h) => Turns(r, h))
  <1>1. CanAct(h) /\ Running(h, start) /\ Count(Active(h)) >= 2
    BY DEF Accepts, CanAct, Sound, Ended
  <1>2. h.invested[h.acting_seat] \in Int /\ h.stack[h.acting_seat] \in Nat
    BY <1>1, ActingSeat DEF Hand, Running
  <1>3. CASE r = ApplyFold(h, rank)
    BY <1>1, <1>3, FoldSound, FoldTurns
  <1>4. CASE r = ApplyCheck(h, rank) /\ ToCall(h, h.acting_seat) = 0
    BY <1>1, <1>4, CheckSound, CheckTurns
  <1>5. CASE \E n \in Nat : r = PutIn(h, rank, n) /\ PutsIn(h, n)
    BY <1>1, <1>5, PutInSound, PutInTurns DEF PutsIn
  <1>6. CASE \E n \in Int : r = RaiseTo(h, rank, n) /\ RaisesTo(h, n)
    BY <1>1, <1>6, RaiseToSound, RaiseToTurns DEF RaisesTo
  <1> QED BY <1>1, <1>3, <1>4, <1>5, <1>6, AcceptedActs

-----------------------------------------------------------------------------

(* The betting round of a running hand goes round from the seat that acts. *)
RoundInv == hand.is_terminal \/ Round(hand)

LEMMA InitRound == Init => RoundInv
  <1> SUFFICES ASSUME Init PROVE Round(hand)
    BY DEF RoundInv
  <1>1. PICK button \in Seats : hand = StartNewHand(initial_stacks, button)
    BY DEF Init
  <1>2. hand.acted = {}
    <2>1. \A c, seat, amount : Commit(c, seat, amount).acted = c.acted
      BY DEF Commit
    <2> QED BY <1>1, <2>1 DEF StartNewHand
  <1> QED BY <1>2 DEF Round

(* Every call of apply_action keeps the turn going round and closes the    *)
(* betting round fairly.                                                   *)
LEMMA NextRound == IInv /\ RoundInv /\ [Next]_vars => Turns(hand', hand) \/ hand' = hand
  <1> SUFFICES ASSUME IInv, RoundInv, Next, hand' # hand PROVE Turns(hand', hand)
    BY DEF vars
  <1>1. PICK type \in ActionTypes, amount \in Int, rank \in Rankings :
            Accepts(hand, type, amount) /\ hand' = ApplyAction(hand, rank, type, amount)
    BY BoundsAssumption
       DEF Next, Fold, Check, Call, Bet, Raise, AllIn, Finished, vars, ActionTypes, ApplyAction
  <1>2. Round(hand)
    BY <1>1 DEF RoundInv, Accepts, CanAct
  <1> QED BY <1>1, <1>2, AcceptedSound DEF IInv

(* A betting round closes on a seat that can still bet only when it has    *)
(* acted and owes nothing, unless a seat that acted has gone all in.       *)
THEOREM RoundsAreFair == Spec => RoundClosesFairly
  <1>1. IInv /\ RoundInv /\ [Next]_vars => RoundInv'
    <2> SUFFICES ASSUME IInv, RoundInv, [Next]_vars PROVE RoundInv'
      OBVIOUS
    <2>1. Turns(hand', hand) \/ hand' = hand
      BY NextRound
    <2> QED BY <2>1 DEF Turns, RoundInv
  <1>2. IInv /\ RoundInv /\ [Next]_vars =>
            [ /\ hand'.street # hand.street
              /\ Count(CanBet(hand')) >= 2
              /\ hand'.all_in \cap (hand.acted \cup {hand.acting_seat}) = {}
              => \A s \in CanBet(hand) \ (hand'.folded \cup {hand.acting_seat}) :
                     s \in hand.acted /\ ToCall(hand, s) = 0 ]_vars
    <2> SUFFICES ASSUME IInv, RoundInv, [Next]_vars PROVE Fair(hand', hand)
      BY DEF Fair
    <2>1. Turns(hand', hand) \/ hand' = hand
      BY NextRound
    <2> QED BY <2>1 DEF Turns, Fair
  <1> QED BY <1>1, <1>2, InitRound, Invariant, PTL DEF Spec, RoundClosesFairly

-----------------------------------------------------------------------------
(* The blinds as bets, for a big blind that is not the smaller one and     *)
(* seats that all have chips.                                              *)
Ordinary ==
    /\ 0 < BigBlind /\ SmallBlind <= BigBlind
    /\ \A stacks \in StackVectors : \A s \in Seats : stacks[s] > 0

LEMMA CommitInvests ==
    ASSUME NEW h, h.invested \in [Seats -> Int], h.stack \in [Seats -> Int],
           NEW seat \in Seats, NEW amount \in Nat, NEW c, c = Commit(h, seat, amount)
    PROVE  /\ c.invested \in [Seats -> Int] /\ c.stack \in [Seats -> Int]
           /\ c.invested[seat] = h.invested[seat] + Least(amount, h.stack[seat])
           /\ \A s \in Seats : s # seat => /\ c.invested[s] = h.invested[s]
                                           /\ c.stack[s] = h.stack[s]
           /\ c.street = h.street /\ DOMAIN c = DOMAIN h
  <1>1. PICK n : n = Least(amount, h.stack[seat])
    OBVIOUS
  <1>2. /\ c.invested = [h.invested EXCEPT ![seat] = @ + n]
        /\ c.stack = [h.stack EXCEPT ![seat] = @ - n] /\ c.street = h.street /\ DOMAIN c = DOMAIN h
    BY <1>1 DEF Commit
  <1>3. n \in Int
    BY <1>1 DEF Least
  <1> QED BY <1>1, <1>2, <1>3

LEMMA StartBets ==
    ASSUME Ordinary, NEW start \in StackVectors, NEW button \in Seats
    PROVE  StreetBet(StartNewHand(start, button))
  <1> DEFINE fresh == [street |-> "pre_flop", board |-> 0, button |-> button,
                       pot |-> 0, to_call |-> 0, current_bet |-> 0,
                       min_raise_to |-> 2 * BigBlind,
                       acting_seat |-> None, winner_seat |-> None,
                       is_terminal |-> FALSE, showdown_reached |-> FALSE,
                       stack |-> start, invested |-> [s \in Seats |-> 0],
                       total_invested |-> [s \in Seats |-> 0],
                       folded |-> {}, all_in |-> {}, acted |-> {}]
             sb == IF NumSeats = 2 THEN button ELSE NextSeat(button)
             bb == NextSeat(sb)
             first == NextSeat(bb)
             small == Commit(fresh, sb, SmallBlind)
             posted == Commit(small, bb, BigBlind)
             bet == Least(BigBlind, posted.invested[bb])
             g == [posted EXCEPT !.current_bet = bet, !.acting_seat = first,
                                 !.to_call = Greatest(0, bet - posted.invested[first]),
                                 !.min_raise_to = bet + BigBlind]
  <1>1. sb \in Seats /\ bb \in Seats /\ sb # bb
    BY SeatsAssumption DEF NextSeat, Seats
  <1>2. start \in [Seats -> Nat] /\ \A s \in Seats : start[s] > 0
    BY StacksAssumption DEF Ordinary
  <1>3. /\ fresh.invested = [s \in Seats |-> 0] /\ fresh.stack = start
        /\ fresh.street = "pre_flop"
        /\ fresh.invested \in [Seats -> Int] /\ fresh.stack \in [Seats -> Int]
        /\ {"current_bet", "min_raise_to", "acting_seat", "to_call"} \subseteq DOMAIN fresh
    BY <1>2
  <1>4. StartNewHand(start, button) = g
    BY DEF StartNewHand
  <1> HIDE DEF fresh, sb, bb, first
  <1>5. /\ small.invested \in [Seats -> Int] /\ small.stack \in [Seats -> Int]
        /\ small.invested[sb] = 0 + Least(SmallBlind, start[sb])
        /\ \A s \in Seats : s # sb => small.invested[s] = 0 /\ small.stack[s] = start[s]
        /\ small.street = "pre_flop" /\ DOMAIN small = DOMAIN fresh
    BY <1>1, <1>3, BlindsAssumption, CommitInvests
  <1> HIDE DEF small
  <1>6. /\ posted.invested[bb] = small.invested[bb] + Least(BigBlind, small.stack[bb])
        /\ \A s \in Seats : s # bb => posted.invested[s] = small.invested[s]
        /\ posted.street = "pre_flop" /\ posted.invested \in [Seats -> Int]
        /\ DOMAIN posted = DOMAIN small
    BY <1>1, <1>5, BlindsAssumption, CommitInvests
  <1> HIDE DEF posted
  <1>7. /\ posted.invested[bb] = Least(BigBlind, start[bb])
        /\ posted.invested[sb] = Least(SmallBlind, start[sb])
        /\ \A s \in Seats : s # sb /\ s # bb => posted.invested[s] = 0
    BY <1>1, <1>2, <1>5, <1>6, BlindsAssumption DEF Least
  <1>8. /\ 0 < bet /\ bet <= BigBlind /\ bet \in Int
        /\ \A s \in Seats : posted.invested[s] <= BigBlind
    BY <1>1, <1>2, <1>7, BlindsAssumption DEF Least, Ordinary
  <1> HIDE DEF bet
  <1>9. /\ g.current_bet = bet /\ g.min_raise_to = bet + BigBlind
        /\ g.street = posted.street /\ g.invested = posted.invested
    BY <1>3, <1>5, <1>6
  <1> HIDE DEF g
  <1>10. BlindBet(g)
    BY <1>6, <1>8, <1>9, BlindsAssumption DEF BlindBet, Ordinary
  <1> QED BY <1>4, <1>10 DEF StreetBet

-----------------------------------------------------------------------------
(* Replays.                                                                *)

(* A set of numbers that holds 0 and with each number the next is Nat:     *)
(* induction, without a predicate as a parameter.                          *)
LEMMA ByNumber ==
    ASSUME NEW S \in SUBSET Nat, 0 \in S, \A n \in S : n + 1 \in S
    PROVE  S = Nat
  <1> SUFFICES ASSUME Nat \ S # {} PROVE FALSE
    OBVIOUS
  <1>1. PICK n \in Nat \ S : \A m \in Nat \ S : ~(<<m, n>> \in OpToRel(<, Nat))
    BY NatLessThanWellFounded, WFMin
  <1>2. n # 0 /\ n - 1 \in Nat /\ n - 1 < n /\ n - 1 + 1 = n
    OBVIOUS
  <1>3. n - 1 \in S
    BY <1>1, <1>2 DEF OpToRel
  <1> QED BY <1>2, <1>3

(* A set of integers with an upper bound has a greatest one.               *)
LEMMA GreatestInteger ==
    ASSUME NEW S \in SUBSET Int, S # {}, NEW b \in Int, \A n \in S : n <= b
    PROVE  /\ MaxOf(S) \in S /\ \A n \in S : n <= MaxOf(S)
           /\ Max(S) \in S /\ \A n \in S : n <= Max(S)
  <1> DEFINE T == {b - n : n \in S}
  <1>1. \A n \in S : n \in Int /\ b - n \in Nat
    OBVIOUS
  <1>2. T \subseteq Nat /\ T # {}
    BY <1>1
  <1>3. PICK t \in T : \A u \in T : ~(<<u, t>> \in OpToRel(<, Nat))
    BY <1>2, NatLessThanWellFounded, WFMin
  <1>4. \A u \in T : ~(u < t)
    BY <1>2, <1>3 DEF OpToRel
  <1>5. PICK m \in S : t = b - m
    BY <1>3
  <1>6. \A n \in S : ~(b - n < b - m)
    BY <1>4, <1>5
  <1>7. \A n \in S : n <= m /\ m >= n
    BY <1>1, <1>6
  <1>8. MaxOf(S) \in S /\ \A n \in S : n <= MaxOf(S)
    BY <1>7 DEF MaxOf
  <1>9. Max(S) \in S /\ \A n \in S : Max(S) >= n
    BY <1>7 DEF Max
  <1> QED BY <1>1, <1>8, <1>9

LEMMA LastPlace ==
    ASSUME NEW k \in Nat, NEW s \in SUBSET (1 .. k), s # {}
    PROVE  Max(s) \in s /\ \A i \in s : i <= Max(s)
  <1>1. k \in Int /\ s \in SUBSET Int /\ \A n \in s : n <= k
    OBVIOUS
  <1> QED BY <1>1, GreatestInteger

(* A run that has not failed yet.                                          *)
RunAt(h) == [hand |-> h, ok |-> TRUE]

(* What the fold computes for the sets of places it comes by: it takes the *)
(* last place of a set last.                                               *)
Replays(g, fresh, rows, rank, k) ==
    g = [s \in SUBSET (1 .. k) |->
            IF s = {} THEN RunAt(fresh) ELSE ReplayRow(g[s \ {Max(s)}], rank, rows[Max(s)])]

LEMMA ReplaysExist ==
    ASSUME NEW fresh, NEW rows, NEW rank, NEW k \in Nat
    PROVE  \E g : Replays(g, fresh, rows, rank, k)
  <1> DEFINE S == {n \in Nat : \E g : Replays(g, fresh, rows, rank, n)}
  <1>1. 0 \in S
    <2> DEFINE g == [s \in SUBSET (1 .. 0) |-> RunAt(fresh)]
    <2>1. \A s \in SUBSET (1 .. 0) : s = {}
      OBVIOUS
    <2>2. g = [s \in SUBSET (1 .. 0) |->
                  IF s = {} THEN RunAt(fresh) ELSE ReplayRow(g[s \ {Max(s)}], rank, rows[Max(s)])]
      BY <2>1, Zenon
    <2> QED BY <2>2 DEF Replays
  <1>2. ASSUME NEW n \in S PROVE n + 1 \in S
    <2>1. PICK g : Replays(g, fresh, rows, rank, n)
      BY <1>2
    <2> DEFINE h == [s \in SUBSET (1 .. n + 1) |->
                        IF n + 1 \in s THEN ReplayRow(g[s \ {n + 1}], rank, rows[n + 1])
                        ELSE g[s]]
    <2>2. \A s \in SUBSET (1 .. n + 1) : n + 1 \notin s => s \in SUBSET (1 .. n)
      OBVIOUS
    <2>3. \A s \in SUBSET (1 .. n) :
              g[s] = IF s = {} THEN RunAt(fresh)
                     ELSE ReplayRow(g[s \ {Max(s)}], rank, rows[Max(s)])
      BY <2>1 DEF Replays
    <2>4. ASSUME NEW s \in SUBSET (1 .. n + 1)
          PROVE  h[s] = IF s = {} THEN RunAt(fresh)
                        ELSE ReplayRow(h[s \ {Max(s)}], rank, rows[Max(s)])
      <3>1. CASE s = {}
        BY <2>2, <2>3, <3>1
      <3>2. CASE s # {} /\ n + 1 \in s
        <4> DEFINE m == Max(s)
        <4>1. n + 1 \in Nat
          OBVIOUS
        <4>2. m \in 1 .. n + 1 /\ n + 1 <= m
          BY <3>2, <4>1, LastPlace
        <4> HIDE DEF m
        <4>3. m = n + 1
          BY <4>2
        <4>4. s \ {n + 1} \in SUBSET (1 .. n + 1) /\ n + 1 \notin s \ {n + 1}
          OBVIOUS
        <4>5. h[s \ {n + 1}] = g[s \ {n + 1}]
          BY <4>4, Zenon
        <4>6. h[s] = ReplayRow(g[s \ {n + 1}], rank, rows[n + 1])
          BY <3>2
        <4> HIDE DEF h
        <4> QED BY <3>2, <4>3, <4>5, <4>6 DEF m
      <3>3. CASE s # {} /\ n + 1 \notin s
        <4>1. s \in SUBSET (1 .. n)
          BY <2>2, <3>3
        <4>2. s \ {Max(s)} \in SUBSET (1 .. n + 1) /\ n + 1 \notin s \ {Max(s)}
          BY <3>3
        <4>3. h[s \ {Max(s)}] = g[s \ {Max(s)}]
          BY <4>2, Zenon
        <4>4. h[s] = g[s]
          BY <3>3
        <4> QED BY <2>3, <3>3, <4>1, <4>3, <4>4
      <3> QED BY <3>1, <3>2, <3>3
    <2>5. Replays(h, fresh, rows, rank, n + 1)
      <3> HIDE DEF h
      <3>1. h = [s \in SUBSET (1 .. n + 1) |-> h[s]]
        BY DEF h
      <3> QED BY <2>4, <3>1, Zenon DEF Replays
    <2> HIDE DEF h
    <2> QED BY <2>5
  <1> HIDE DEF S
  <1>3. S \in SUBSET Nat
    BY DEF S
  <1>4. S = Nat
    BY <1>1, <1>2, <1>3, ByNumber
  <1> QED BY <1>4 DEF S

LEMMA ReplaysUnique ==
    ASSUME NEW fresh, NEW rows, NEW rank, NEW k \in Nat, NEW g, NEW h,
           Replays(g, fresh, rows, rank, k), Replays(h, fresh, rows, rank, k)
    PROVE  g = h
  <1> DEFINE S == {n \in Nat : \A s \in SUBSET (1 .. k) : s \in SUBSET (1 .. n) => g[s] = h[s]}
  <1>1. ASSUME NEW s \in SUBSET (1 .. k)
        PROVE  /\ g[s] = IF s = {} THEN RunAt(fresh)
                         ELSE ReplayRow(g[s \ {Max(s)}], rank, rows[Max(s)])
               /\ h[s] = IF s = {} THEN RunAt(fresh)
                         ELSE ReplayRow(h[s \ {Max(s)}], rank, rows[Max(s)])
    BY DEF Replays
  <1>2. 0 \in S
    <2>1. \A s \in SUBSET (1 .. 0) : s = {}
      OBVIOUS
    <2> QED BY <1>1, <2>1
  <1>3. ASSUME NEW n \in S PROVE n + 1 \in S
    <2>1. ASSUME NEW s \in SUBSET (1 .. k), s \in SUBSET (1 .. n + 1), s # {}
          PROVE  g[s] = h[s]
      <3> DEFINE m == Max(s)
      <3>1. m \in 1 .. n + 1 /\ \A i \in s : i \in 1 .. n + 1 /\ i <= m
        BY <2>1, LastPlace
      <3> HIDE DEF m
      <3>2. \A i \in 1 .. n + 1 : i <= m /\ i # m => i \in 1 .. n
        BY <3>1
      <3>3. s \ {m} \in SUBSET (1 .. n) /\ s \ {m} \in SUBSET (1 .. k)
        BY <3>1, <3>2
      <3>4. g[s \ {m}] = h[s \ {m}]
        BY <3>3
      <3> QED BY <1>1, <2>1, <3>4, Zenon DEF m
    <2>2. \A s \in SUBSET (1 .. k) : s \in SUBSET (1 .. n + 1) => g[s] = h[s]
      BY <1>1, <2>1
    <2> QED BY <2>2
  <1> HIDE DEF S
  <1>4. S = Nat
    BY <1>2, <1>3, ByNumber DEF S
  <1>5. \A s \in SUBSET (1 .. k) : g[s] = h[s]
    BY <1>4 DEF S
  <1>6. /\ g = [s \in SUBSET (1 .. k) |-> g[s]]
        /\ h = [s \in SUBSET (1 .. k) |-> h[s]]
    BY DEF Replays
  <1> QED BY <1>5, <1>6, Zenon

LEMMA ReplayIs ==
    ASSUME NEW fresh, NEW rows, NEW rank, NEW k \in Nat, DOMAIN rows = 1 .. k, NEW g,
           Replays(g, fresh, rows, rank, k)
    PROVE  ReplayRows(fresh, rows, rank) = g[1 .. k]
  <1>1. ReplayRows(fresh, rows, rank) =
          (CHOOSE f : f = [s \in SUBSET (DOMAIN rows) |->
                              IF s = {} THEN RunAt(fresh)
                              ELSE ReplayRow(f[s \ {Max(s)}], rank, rows[Max(s)])])[DOMAIN rows]
    BY DEF ReplayRows, RunAt, FoldLeft, MapThenFoldSet
  <1>2. ReplayRows(fresh, rows, rank) = (CHOOSE f : Replays(f, fresh, rows, rank, k))[1 .. k]
    BY <1>1, Zenon DEF Replays
  <1>3. Replays(CHOOSE f : Replays(f, fresh, rows, rank, k), fresh, rows, rank, k)
    BY Zenon
  <1> QED BY <1>2, <1>3, ReplaysUnique

(* The replay of no row is the fresh hand, and one row more is one call of *)
(* apply_action more.                                                      *)
LEMMA ReplayNothing ==
    ASSUME NEW fresh, NEW rank
    PROVE  ReplayRows(fresh, <<>>, rank) = RunAt(fresh)
  <1>1. PICK f : Replays(f, fresh, <<>>, rank, 0)
    BY ReplaysExist
  <1>2. DOMAIN <<>> = 1 .. 0
    OBVIOUS
  <1>3. ReplayRows(fresh, <<>>, rank) = f[1 .. 0]
    BY <1>1, <1>2, ReplayIs
  <1>4. 1 .. 0 = {} /\ {} \in SUBSET (1 .. 0)
    OBVIOUS
  <1> QED BY <1>1, <1>3, <1>4 DEF Replays

LEMMA ReplayOneMore ==
    ASSUME NEW fresh, NEW T, NEW rows \in Seq(T), NEW row \in T, NEW rank
    PROVE  ReplayRows(fresh, Append(rows, row), rank)
           = ReplayRow(ReplayRows(fresh, rows, rank), rank, row)
  <1> DEFINE k == Len(rows)
             more == Append(rows, row)
  <1>1. /\ k \in Nat /\ k + 1 \in Nat /\ DOMAIN rows = 1 .. k /\ DOMAIN more = 1 .. k + 1
        /\ more[k + 1] = row /\ \A i \in 1 .. k : more[i] = rows[i]
    OBVIOUS
  <1> HIDE DEF k, more
  <1>2. PICK g : Replays(g, fresh, more, rank, k + 1)
    BY <1>1, ReplaysExist
  <1> DEFINE h == [s \in SUBSET (1 .. k) |-> g[s]]
  <1>3. ASSUME NEW s \in SUBSET (1 .. k + 1)
        PROVE  g[s] = IF s = {} THEN RunAt(fresh)
                      ELSE ReplayRow(g[s \ {Max(s)}], rank, more[Max(s)])
    BY <1>2 DEF Replays
  <1>4. ASSUME NEW s \in SUBSET (1 .. k)
        PROVE  h[s] = IF s = {} THEN RunAt(fresh)
                      ELSE ReplayRow(h[s \ {Max(s)}], rank, rows[Max(s)])
    <2>1. \A i \in 1 .. k : i \in 1 .. k + 1
      BY <1>1
    <2>2. s \in SUBSET (1 .. k + 1) /\ s \ {Max(s)} \in SUBSET (1 .. k)
      BY <2>1
    <2>3. h[s] = g[s] /\ h[s \ {Max(s)}] = g[s \ {Max(s)}]
      BY <2>2, Zenon
    <2>4. s # {} => more[Max(s)] = rows[Max(s)]
      BY <1>1, LastPlace
    <2> QED BY <1>3, <2>2, <2>3, <2>4, Zenon
  <1>5. Replays(h, fresh, rows, rank, k)
    <2> HIDE DEF h
    <2>1. h = [s \in SUBSET (1 .. k) |-> h[s]]
      BY DEF h
    <2> QED BY <1>4, <2>1, Zenon DEF Replays
  <1>6. /\ ReplayRows(fresh, rows, rank) = h[1 .. k]
        /\ ReplayRows(fresh, more, rank) = g[1 .. k + 1]
    BY <1>1, <1>2, <1>5, ReplayIs
  <1>7. g[1 .. k + 1] = ReplayRow(g[1 .. k], rank, row)
    <2> DEFINE m == Max(1 .. k + 1)
    <2>1. 1 .. k + 1 # {} /\ 1 .. k + 1 \in SUBSET (1 .. k + 1)
      BY <1>1
    <2>2. m \in 1 .. k + 1 /\ \A i \in 1 .. k + 1 : i <= m
      BY <1>1, <2>1, LastPlace
    <2> HIDE DEF m
    <2>3. m = k + 1
      BY <1>1, <2>2
    <2>4. (1 .. k + 1) \ {k + 1} = 1 .. k
      BY <1>1
    <2> QED BY <1>1, <1>3, <2>1, <2>3, <2>4 DEF m
  <1> QED BY <1>6, <1>7 DEF more

(* apply_action leaves the button where it is.                             *)
LEMMA ButtonStays ==
    ASSUME NEW h, NEW rank, NEW type \in ActionTypes, NEW amount
    PROVE  ApplyAction(h, rank, type, amount).button = h.button
  <1>1. \A c, seat, a : Commit(c, seat, a).button = c.button
    BY DEF Commit
  <1>2. \A c : RefundUncalled(c).button = c.button
    BY DEF RefundUncalled
  <1>3. \A c, r : Showdown(c, r).button = c.button
    BY DEF Showdown, Terminal
  <1>4. \A c, street : OpenStreet(c, street).button = c.button
    BY DEF OpenStreet
  <1>5. \A c, r : /\ AdvanceStreetOrShowdown(c, r).button = c.button
                  /\ RunoutAndShowdown(c, r).button = c.button
    BY <1>2, <1>3, <1>4 DEF AdvanceStreetOrShowdown, RunoutAndShowdown
  <1>6. \A c, w : AwardEntirePot(c, w).button = c.button
    BY DEF AwardEntirePot, Terminal
  <1>7. \A c, r : ResolveAfterAction(c, r).button = c.button
    BY <1>2, <1>5, <1>6 DEF ResolveAfterAction
  <1>8. ASSUME NEW a PROVE PutIn(h, rank, a).button = h.button
    <2> DEFINE c == [Commit(h, h.acting_seat, a) EXCEPT !.acted = @ \cup {h.acting_seat}]
    <2>1. c.button = h.button
      BY <1>1
    <2>2. PutIn(h, rank, a) = ResolveAfterAction(c, rank)
      BY DEF PutIn
    <2> HIDE DEF c
    <2> QED BY <1>7, <2>1, <2>2
  <1>9. ASSUME NEW a PROVE RaiseTo(h, rank, a).button = h.button
    <2> DEFINE c == Commit(h, h.acting_seat, a - h.invested[h.acting_seat])
               bet == c.invested[h.acting_seat]
               d == [c EXCEPT !.current_bet = bet,
                              !.min_raise_to = IF bet - h.current_bet > 0
                                               THEN bet + (bet - h.current_bet) ELSE @,
                              !.acted = {h.acting_seat}]
    <2>1. RaiseTo(h, rank, a) = ResolveAfterAction(d, rank)
      BY DEF RaiseTo
    <2>2. c.button = h.button
      BY <1>1
    <2> HIDE DEF c
    <2>3. d.button = h.button
      BY <2>2
    <2> HIDE DEF d
    <2> QED BY <1>7, <2>1, <2>3
  <1>10. ApplyFold(h, rank).button = h.button /\ ApplyCheck(h, rank).button = h.button
    <2> DEFINE f == [h EXCEPT !.folded = @ \cup {h.acting_seat}]
               c == [h EXCEPT !.acted = @ \cup {h.acting_seat}]
    <2>1. f.button = h.button /\ c.button = h.button
      OBVIOUS
    <2>2. ApplyFold(h, rank) = ResolveAfterAction(f, rank)
          /\ ApplyCheck(h, rank) = ResolveAfterAction(c, rank)
      BY DEF ApplyFold, ApplyCheck
    <2> HIDE DEF f, c
    <2> QED BY <1>7, <2>1, <2>2
  <1>11. /\ ApplyCall(h, rank).button = h.button
         /\ ApplyBet(h, rank, amount).button = h.button
         /\ ApplyRaise(h, rank, amount).button = h.button
         /\ ApplyAllIn(h, rank).button = h.button
    BY <1>8, <1>9 DEF ApplyCall, ApplyBet, ApplyRaise, ApplyAllIn
  <1> QED BY <1>10, <1>11 DEF ApplyAction, ActionTypes

(* An accepted row is one call of apply_action, and the fresh hand of a    *)
(* replay is the one the button was dealt.                                 *)
LEMMA ReplayAccepted ==
    ASSUME NEW h, NEW rank, NEW row, Accepts(h, row.type, row.amount)
    PROVE  ReplayRow(RunAt(h), rank, row) = RunAt(ApplyAction(h, rank, row.type, row.amount))
  BY DEF ReplayRow, RunAt

LEMMA StartsAtButton ==
    ASSUME NEW stacks, NEW button
    PROVE  StartNewHand(stacks, button).button = button
  <1>1. \A c, seat, a : Commit(c, seat, a).button = c.button
    BY DEF Commit
  <1> QED BY <1>1 DEF StartNewHand

=============================================================================
