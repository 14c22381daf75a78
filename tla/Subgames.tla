------------------------------- MODULE Subgames -------------------------------
(***************************************************************************)
(* Game trees that the solvers walk from end to end: the gadget game of    *)
(* packages/solver/safe_subgame.py, and the trees that                     *)
(* solver/equilibrium_refinements.py perturbs.  The two walks are the same *)
(* code but for the tremble; the gadget is walked without one.             *)
(*                                                                         *)
(* A node is the sequence of the actions that lead to it.  A tree has, for *)
(* every inner node, whose turn it is, its information set and its actions *)
(* in order, and the worth of every leaf for the hero; nodes of one        *)
(* information set are equally deep.  Numbers are exact fractions.         *)
(***************************************************************************)
EXTENDS Fractions, Sequences, SequencesExt

CONSTANTS
    Trees,         \* trees to be refined: [turn, info, acts : inner nodes, worth : leaves]
    Trembles,      \* values of TremblingHandRefinement.epsilon
    Trunks,        \* trunk strategies: sequences of [info, dist : <<action, share>> pairs]
    NoTrunk,       \* what is not a trunk
    TrunkValues,   \* SubgameDefinition.trunk_value, whole numbers
    MostWalks      \* bound on the iterations

VARIABLES
    trunk,         \* the trunk strategy of the gadget game, or NoTrunk
    tree,
    epsilon,
    regret, sums,  \* cumulative_regret and strategy_sum of every inner node
    gaps,          \* history: the squares of what each walk added to the regrets of a node
    walks          \* iterations so far

subgameVars == <<trunk, tree, epsilon, regret, sums, gaps, walks>>

Inner(t) == DOMAIN t.turn
Acts(t, p) == Range(t.acts[p])

-----------------------------------------------------------------------------
(* GadgetGame: the opponent enters the subgame or takes the value of the   *)
(* trunk; the subgame is a chain of the trunk's information sets, and      *)
(* nothing is won or lost at its end.                                      *)

(* An information set without actions gets one.                            *)
TrunkActs(node) == IF node.dist = <<>> THEN <<"check">> ELSE [i \in DOMAIN node.dist |-> node.dist[i][1]]

Gadget(of, value) ==
    LET Lines[k \in 0 .. Len(of)] ==
            IF k = 0 THEN {<<"enter">>}
            ELSE {Append(line, a) : line \in Lines[k - 1], a \in Range(TrunkActs(of[k]))}
        chain == UNION {Lines[k] : k \in 0 .. Len(of) - 1}
    IN  [turn |-> [p \in {<<>>} \cup chain |-> IF p = <<>> THEN 1 ELSE (Len(p) - 1) % 2],
         info |-> [p \in {<<>>} \cup chain |-> IF p = <<>> THEN "gadget_root" ELSE of[Len(p)].info],
         acts |-> [p \in {<<>>} \cup chain |->
                      IF p = <<>> THEN <<"alternative", "enter">> ELSE TrunkActs(of[Len(p)])],
         worth |-> [p \in {<<"alternative">>} \cup Lines[Len(of)] |->
                      IF p = <<"alternative">> THEN value ELSE 0]]

(* Mutant: only the action before it counts.                               *)
ReachingLast(of, line) == [k \in 1 .. Len(of) |-> IF k = 1 THEN Unit ELSE of[k - 1].dist[line[k - 1]][2]]

(* compute_reaching_probs, along the whole chain: how likely each of its   *)
(* nodes is when one action is taken at each.                              *)
ReachingProbs(of, line) ==
    LET reach[k \in 1 .. Len(of)] ==
            IF k = 1 THEN Unit ELSE Times(reach[k - 1], of[k - 1].dist[line[k - 1]][2])
    IN  reach

-----------------------------------------------------------------------------
(* _regret_matching, _regret_match: what is regretted, or all alike.       *)
Positive(f) == [a \in DOMAIN f |-> Greater(Zero, f[a])]
Alike(actions) == [a \in actions |-> Ratio(1, Cardinality(actions))]

(* Mutant: what is regretted less than nothing counts as well.             *)
MatchedBySize(f) ==
    IF Total(Positive(f)) = Zero THEN Alike(DOMAIN f)
    ELSE LET sizes == [a \in DOMAIN f |-> Greater(f[a], Negated(f[a]))]
         IN  [a \in DOMAIN f |-> Over(sizes[a], Total(sizes))]

RegretMatch(f) ==
    IF Total(Positive(f)) = Zero THEN Alike(DOMAIN f)
    ELSE [a \in DOMAIN f |-> Over(Greater(Zero, f[a]), Total(Positive(f)))]

(* Mutant: only the actions that are played tremble.                       *)
TremblePlayed(strategy) ==
    [a \in DOMAIN strategy |-> IF strategy[a] = Zero THEN Zero ELSE
        Plus(Over(epsilon, Whole(Cardinality(DOMAIN strategy))), Times(Minus(Unit, epsilon), strategy[a]))]

(* apply_tremble                                                           *)
ApplyTremble(strategy) ==
    [a \in DOMAIN strategy |->
        Plus(Over(epsilon, Whole(Cardinality(DOMAIN strategy))), Times(Minus(Unit, epsilon), strategy[a]))]

Current == [p \in Inner(tree) |-> ApplyTremble(RegretMatch(regret[p]))]

(* The worth of a node for the hero when it is played as `how` says.       *)
ValueOf(how) ==
    LET value[p \in Inner(tree) \cup DOMAIN tree.worth] ==
            IF p \in Inner(tree)
            THEN Total([a \in Acts(tree, p) |-> Times(how[p][a], value[Append(p, a)])])
            ELSE Whole(tree.worth[p])
    IN  value

(* How likely a node is as far as `sides` decide it.                       *)
Reach(how, sides, p) ==
    FoldLeftDomain(LAMBDA likely, k :
        LET before == SubSeq(p, 1, k - 1)
        IN  IF tree.turn[before] \in sides THEN Times(likely, how[before][p[k]]) ELSE likely,
        Unit, p)

Squares(f) == Total([a \in DOMAIN f |-> Times(f[a], f[a])])

(* _cfr_traverse from the root, for one player: every node is met once,    *)
(* and its strategy is what it regretted before.                           *)
Walk ==
    /\ walks < MostWalks /\ walks' = walks + 1
    /\ LET traverser == walks % 2
           how == Current
           value == ValueOf(how)
           own == {p \in Inner(tree) : tree.turn[p] = traverser}
       IN  /\ regret' = [p \in Inner(tree) |-> IF p \notin own THEN regret[p] ELSE
                            [a \in Acts(tree, p) |->
                                Plus(regret[p][a], Minus(value[Append(p, a)], value[p]))]]
           /\ sums' = [p \in Inner(tree) |-> IF p \notin own THEN sums[p] ELSE
                          [a \in Acts(tree, p) |->
                              Plus(sums[p][a], Times(Reach(how, {traverser}, p), how[p][a]))]]
           /\ gaps' = [p \in Inner(tree) |-> IF p \notin own THEN gaps[p] ELSE
                          Plus(gaps[p], Squares([a \in Acts(tree, p) |->
                                                    Minus(value[Append(p, a)], value[p])]))]
    /\ UNCHANGED <<trunk, tree, epsilon>>

-----------------------------------------------------------------------------
(* _extract, _extract_strategies: depth first, and what comes later stands. *)
Preorder(t) ==
    LET Below[p \in Inner(t) \cup DOMAIN t.worth] ==
            IF p \notin Inner(t) THEN <<>>
            ELSE FoldLeft(LAMBDA nodes, a : nodes \o Below[Append(p, a)], <<p>>, t.acts[p])
    IN  Below[<<>>]

(* The average strategy of a node; the gadget's own is nobody's.           *)
Averaged(p) == ApplyTremble([a \in Acts(tree, p) |-> Over(sums[p][a], Total(sums[p]))])
Kept == {p \in Inner(tree) : Total(sums[p]) # Zero /\ tree.info[p] # "gadget_root"}

Extracted ==
    LET order == SelectSeq(Preorder(tree), LAMBDA p : p \in Kept)
    IN  [info \in {tree.info[p] : p \in Kept} |->
            Averaged(Last(SelectSeq(order, LAMBDA p : tree.info[p] = info)))]

(* SequentialEquilibrium._compute_reaching: an information set without a   *)
(* strategy is played alike.                                               *)
Played(strategies) ==
    [p \in Inner(tree) |->
        IF tree.info[p] \in DOMAIN strategies THEN strategies[tree.info[p]] ELSE Alike(Acts(tree, p))]
Members(info) == {p \in Inner(tree) : tree.info[p] = info}
Reaching(strategies, info) ==
    SumOver(LAMBDA p : Reach(Played(strategies), {0, 1}, p), Members(info))

(* compute_beliefs: _collect_nodes gives every node of an information set  *)
(* the reach of the whole set.                                             *)
ComputeBeliefs(strategies, info) ==
    LET reach == Reaching(strategies, info)
        nodes == Members(info)
    IN  IF reach = Zero THEN Alike(nodes)
        ELSE [p \in nodes |-> Over(reach, Times(reach, Whole(Cardinality(nodes))))]

(* is_sequentially_rational: what leads on is taken for worth nothing.     *)
NextWorth(p, a) == IF Append(p, a) \in Inner(tree) THEN 0 ELSE tree.worth[Append(p, a)]
SequentiallyRational(p, strategy) ==
    \A a, b \in Acts(tree, p) : strategy[a] # Zero => NextWorth(p, b) <= NextWorth(p, a)

-----------------------------------------------------------------------------
Blank(t) == [p \in Inner(t) |-> [a \in Acts(t, p) |-> Zero]]

SubgamesInit ==
    /\ \/ /\ trunk \in Trunks /\ \E value \in TrunkValues : tree = Gadget(trunk, value)
          /\ epsilon = Zero
       \/ /\ trunk = NoTrunk /\ tree \in Trees /\ epsilon \in Trembles
    /\ regret = Blank(tree) /\ sums = Blank(tree)
    /\ gaps = [p \in Inner(tree) |-> Zero] /\ walks = 0

-----------------------------------------------------------------------------
(* Properties.                                                             *)

(* Without trembles, regret grows no faster than regret matching allows,   *)
(* whatever the nodes above and below it do meanwhile: the squares of what *)
(* a node regrets are no more than those of what each walk added.          *)
RegretBounded ==
    epsilon = Zero => \A p \in Inner(tree) : NotMore(Squares(Positive(regret[p])), gaps[p])

(* Once both have walked, every information set has a strategy.  With      *)
(* trembles neither it nor what is being played puts an action below its   *)
(* share of the tremble, so that it is rational at its last choice only    *)
(* where nothing depends on it.                                            *)
Trembling(strategy) ==
    /\ Total(strategy) = Unit
    /\ \A a \in DOMAIN strategy :
           NotMore(Over(epsilon, Whole(Cardinality(DOMAIN strategy))), strategy[a])
TrembleKeepsAll ==
    LET infos == {tree.info[p] : p \in Inner(tree)} \ {"gadget_root"}
    IN  /\ walks >= 2 => DOMAIN Extracted = infos
        /\ \A p \in Inner(tree) : Trembling(Current[p])
        /\ \A info \in DOMAIN Extracted : Trembling(Extracted[info])
        /\ epsilon # Zero =>
               \A p \in {q \in Inner(tree) : SequentiallyRational(q, Current[q])} :
                   \A a, b \in Acts(tree, p) : NextWorth(p, a) = NextWorth(p, b)

(* Whatever has been extracted, the information sets of one depth and the  *)
(* leaves above it are reached once together, and what is believed at a    *)
(* set is shared by all of its nodes.                                      *)
ReachAddsUp ==
    LET infos == {tree.info[p] : p \in Inner(tree)}
        depth == Max({Len(p) : p \in Inner(tree)})
        above == {p \in DOMAIN tree.worth : Len(p) <= depth}
        deepest == {tree.info[p] : p \in {q \in Inner(tree) : Len(q) = depth}}
    IN  /\ Plus(SumOver(LAMBDA info : Reaching(Extracted, info), deepest),
                SumOver(LAMBDA p : Reach(Played(Extracted), {0, 1}, p), above)) = Unit
        /\ \A info \in infos : Total(ComputeBeliefs(Extracted, info)) = Unit

(* The gadget game has the information sets and the actions of its trunk:  *)
(* once both have walked, each of them is given a strategy over just its   *)
(* own actions, and the actions of the trunk reach each depth of it once   *)
(* together.  Nothing is said of how good these strategies are: they are   *)
(* promised to be "never worse than the blueprint" (safe_subgame.py:6,     *)
(* 167), but every leaf of the subgame is worth nothing, whatever the      *)
(* trunk is worth.                                                         *)
SubgameFromTrunk ==
    trunk # NoTrunk =>
        /\ \A info \in DOMAIN Extracted : \E k \in DOMAIN trunk :
               info = trunk[k].info /\ DOMAIN Extracted[info] = Range(TrunkActs(trunk[k]))
        /\ walks >= 2 => DOMAIN Extracted = {trunk[k].info : k \in DOMAIN trunk}
        /\ \A k \in DOMAIN trunk :
               LET lines == {line \in [DOMAIN trunk -> 1 .. 2] :
                                \A j \in DOMAIN trunk : line[j] \in DOMAIN trunk[j].dist}
                   upto == {SubSeq(line, 1, k - 1) : line \in lines}
               IN  lines # {} =>
                       SumOver(LAMBDA line : ReachingProbs(SubSeq(trunk, 1, k), line)[k], upto) = Unit

SubgamesSolved == RegretBounded /\ TrembleKeepsAll /\ ReachAddsUp /\ SubgameFromTrunk
=============================================================================
