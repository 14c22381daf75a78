------------------------------ MODULE Evaluator ------------------------------
(***************************************************************************)
(* packages/evaluator/hands.py: what five cards are worth, as a category   *)
(* and a list of values that breaks ties, and the best five of more.       *)
(* eval7 and treys, when they are installed, answer instead; these are the *)
(* lines that run without them.                                            *)
(***************************************************************************)
EXTENDS Integers, Sequences, FiniteSets, FiniteSetsExt

CONSTANT Decks   \* [cards |-> what is dealt from, most |-> how many at most]

ASSUME DecksAssumption ==
    \A pack \in Decks :
        /\ pack.most \in 5 .. 7
        /\ \A card \in pack.cards : card.value \in 2 .. 14 /\ DOMAIN card = {"value", "suit"}

VARIABLE dealt   \* the cards of a hand and of the board

ValuesOf(cards) == {card.value : card \in cards}
CountOf(cards, v) == Cardinality({card \in cards : card.value = v})

(* The members of a set from the first on, in an order of theirs.          *)
InOrderOf(Before(_, _), values) ==
    [i \in 1 .. Cardinality(values) |->
        CHOOSE v \in values : Cardinality({w \in values : Before(w, v)}) = i - 1]
Descending(values) == InOrderOf(>, values)

-----------------------------------------------------------------------------
(* _straight_high: windows of five of the different values, from the top;  *)
(* an ace also counts as 1.  NoStraight is Python's None.                  *)

NoStraight == 0

(* Mutant: the ace is only high.                                           *)
HighAceOnly(values) == values
WithLowAce(values) == IF 14 \in values THEN values \cup {1} ELSE values

StraightHigh(values) ==
    LET uniq == Descending(WithLowAce(values))
        starts == {i \in 1 .. Len(uniq) - 4 : uniq[i] - uniq[i + 4] = 4}
    IN  IF starts = {} THEN NoStraight ELSE uniq[Min(starts)]

(* sorted(counts.items()): by how many there are, then by value.           *)
Ordered(cards) ==
    InOrderOf(LAMBDA v, w : \/ CountOf(cards, v) > CountOf(cards, w)
                            \/ CountOf(cards, v) = CountOf(cards, w) /\ v > w,
              ValuesOf(cards))

Kickers(cards, used) == Descending(ValuesOf(cards) \ used)

EvaluateFive(cards) ==
    LET values == ValuesOf(cards)
        ordered == Ordered(cards)
        flush == Cardinality({card.suit : card \in cards}) = 1
        straight == StraightHigh(values)
        first == ordered[1]
        most == CountOf(cards, first)
        second == CountOf(cards, ordered[2])
    IN  CASE flush /\ straight # NoStraight -> <<8, <<straight>> >>
          [] most = 4 -> <<7, <<first, Max(values \ {first})>> >>
          [] most = 3 /\ second = 2 -> <<6, <<first, ordered[2]>> >>
          [] flush /\ straight = NoStraight -> <<5, Descending(values)>>
          [] ~flush /\ straight # NoStraight -> <<4, <<straight>> >>
          [] most = 3 /\ second = 1 -> <<3, <<first>> \o Kickers(cards, {first})>>
          [] most = 2 /\ second = 2 ->
                 <<2, <<Max({first, ordered[2]}), Min({first, ordered[2]})>>
                        \o Kickers(cards, {first, ordered[2]})>>
          [] most = 2 /\ second = 1 -> <<1, <<first>> \o Kickers(cards, {first})>>
          [] OTHER -> <<0, Descending(values)>>

(* Python's order of tuples.                                               *)
Beats(r, q) ==
    \/ r[1] > q[1]
    \/ /\ r[1] = q[1]
       /\ \E i \in DOMAIN r[2] : r[2][i] > q[2][i] /\ \A j \in 1 .. i - 1 : r[2][j] = q[2][j]

Fives(cards) == kSubset(5, cards)

BestHandRank(cards) ==
    LET ranks == {EvaluateFive(five) : five \in Fives(cards)}
    IN  CHOOSE r \in ranks : \A q \in ranks : ~Beats(q, r)

-----------------------------------------------------------------------------
(* Cards are dealt one by one, and then the next hand is.                  *)

EvaluatorInit == dealt = {}
Deal ==
    \E pack \in Decks :
        /\ dealt \subseteq pack.cards /\ Cardinality(dealt) < pack.most
        /\ \E card \in pack.cards \ dealt : dealt' = dealt \cup {card}
Collect == Cardinality(dealt) >= 5 /\ dealt' = {}

EvaluatorNext == Deal \/ Collect
EvaluatorSpec == EvaluatorInit /\ [][EvaluatorNext]_dealt

-----------------------------------------------------------------------------
(* Properties.                                                             *)

(* The rules of poker: the best kind of hand that the cards show.          *)
Suited(cards) == \A c, d \in cards : c.suit = d.suit
Runs(cards, high) ==
    ValuesOf(cards) = IF high = 5 THEN {14, 2, 3, 4, 5} ELSE high - 4 .. high
InARow(cards) == \E high \in 5 .. 14 : Runs(cards, high)
Groups(cards, sizes) == [i \in 1 .. Len(Ordered(cards)) |-> CountOf(cards, Ordered(cards)[i])] = sizes

Kind(cards) ==
    {k \in 0 .. 8 :
        \/ k = 8 /\ Suited(cards) /\ InARow(cards)
        \/ k = 7 /\ Groups(cards, <<4, 1>>)
        \/ k = 6 /\ Groups(cards, <<3, 2>>)
        \/ k = 5 /\ Suited(cards)
        \/ k = 4 /\ InARow(cards)
        \/ k = 3 /\ Groups(cards, <<3, 1, 1>>)
        \/ k = 2 /\ Groups(cards, <<2, 2, 1>>)
        \/ k = 1 /\ Groups(cards, <<2, 1, 1, 1>>)
        \/ k = 0}

(* Five cards are worth the best kind of hand they show; a straight is as  *)
(* high as its top card, an ace below a deuce being low, and everything    *)
(* else is compared by its larger groups first.  More cards are worth the  *)
(* best five of them, which none of the others beats.                      *)
RanksByTheRules ==
    /\ Cardinality(dealt) = 5 =>
          LET rank == EvaluateFive(dealt)
          IN  /\ rank[1] = Max(Kind(dealt))
              /\ IF InARow(dealt) THEN Runs(dealt, rank[2][1]) /\ Len(rank[2]) = 1
                                  ELSE rank[2] = Ordered(dealt)
    /\ Cardinality(dealt) > 5 =>
          LET best == BestHandRank(dealt)
          IN  /\ best[1] = Max(UNION {Kind(five) : five \in Fives(dealt)})
              /\ \A five \in Fives(dealt) : ~Beats(EvaluateFive(five), best)
=============================================================================
