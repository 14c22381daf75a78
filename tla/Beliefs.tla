------------------------------- MODULE Beliefs -------------------------------
(***************************************************************************)
(* What packages/opponent_model comes to believe of an opponent: the range *)
(* of its cards (bayesian_range.py), the kind of player it is              *)
(* (particle_filter.py), and what it does next, by a tree of relations     *)
(* between its actions (bayes_relational.py) or by a network that is       *)
(* trained on windows of them (behavior_prediction.py).  Each runs by      *)
(* itself: `model` says which.                                             *)
(*                                                                         *)
(* Probabilities are exact fractions.  The hands of one class are alike,   *)
(* and so are all random choices with a positive probability; the noise on *)
(* the parameters of a particle is left out, and where they are drawn a    *)
(* part of the way to those of its kind they are at either end.            *)
(***************************************************************************)
EXTENDS Fractions, Sequences, SequencesExt

CONSTANTS
    Params,         \* ARCHETYPE_PARAMS of some kinds: [vpip, pfr, aggression]
    Transitions,    \* TRANSITION_MATRIX: what a kind may turn into
    Particles,      \* num_particles
    Templates,      \* the features of the tree: a sequence of sets of relations
    MaxDepth,       \* max_depth of the tree
    PastLines,          \* what an opponent may have done: sequences of <<action, street>>
    Doings,         \* what it does next: such pairs
    WindowLength,   \* window_size of BehaviorPredictor
    MaxTrain,       \* _max_train_size
    MostObserved    \* bound on what is observed: a number for every model

ASSUME ParticlesAssumption ==
    Particles \in Nat /\ Particles >= Cardinality(DOMAIN Params) /\ DOMAIN Transitions = DOMAIN Params
ASSUME TreeAssumption == MaxDepth \in Nat /\ WindowLength \in Nat \ {0} /\ MaxTrain \in Nat \ {0}

VARIABLES
    model,
    observed,    \* history: what was observed, in order
    range,       \* the posterior of every class of hands
    strength,    \* history: range_equity_estimate before the last observation
    particles,   \* [kind, like, weight] for every particle
    drawn,       \* history: the particles that a resampling has drawn from, or <<>>
    leaves,      \* the counts of every leaf of the tree
    pairs        \* _train_inputs and _train_targets: [input, target]

beliefVars == <<model, observed, range, strength, particles, drawn, leaves, pairs>>

Forcing == {"bet", "raise", "all_in"}
Percent(n) == Ratio(n, 100)

-----------------------------------------------------------------------------
(* BayesianRangeEstimator: the combinations of each class of hands, and    *)
(* the likelihoods of ActionLikelihood in thousandths.                     *)

HandClasses == {"premium", "strong", "medium", "weak"}
Combos == [premium |-> 44, strong |-> 50, medium |-> 98, weak |-> 1134]
ByClass(premium, strong, medium, weak) ==
    [premium |-> premium, strong |-> strong, medium |-> medium, weak |-> weak]

Likelihood(action, street) ==
    IF street = "pre_flop"
    THEN CASE action \in {"raise", "all_in"} -> ByClass(950, 700, 300, 50)
           [] action = "call" -> ByClass(50, 250, 500, 200)
           [] action = "fold" -> ByClass(1, 50, 200, 750)
           [] action \in {"check", "bet"} -> ByClass(330, 330, 330, 330)
    ELSE CASE action \in Forcing -> ByClass(850, 600, 350, 150)
           [] action = "call" -> ByClass(100, 300, 400, 250)
           [] action = "check" -> ByClass(50, 100, 250, 400)
           [] action = "fold" -> ByClass(1, 50, 200, 600)

Shared(weight) == [k \in DOMAIN weight |-> Over(weight[k], Total(weight))]

(* Mutant: the likelihood is not multiplied by what was believed before.   *)
Forgetful(prior, does) ==
    Shared([class \in HandClasses |->
        Times(Ratio(Combos[class], 1326), Ratio(Likelihood(does[1], does[2])[class], 1000))])

(* update                                                                  *)
Posterior(prior, does) ==
    Shared([class \in HandClasses |-> Times(prior[class], Ratio(Likelihood(does[1], does[2])[class], 1000))])

(* range_equity_estimate                                                   *)
Strength(of) == Plus(of.premium, Plus(Times(of.strong, Percent(70)), Times(of.medium, Percent(40))))

-----------------------------------------------------------------------------
(* ParticleFilterOpponentModel.                                            *)

(* _action_likelihood                                                      *)
ActionLikelihood(does, like) ==
    LET agg == Over(like.aggression, Plus(Unit, like.aggression))
        calm == Minus(Unit, agg)
        AtLeast(p) == Greater(Percent(1), p)
        action == does[1]
    IN  IF does[2] = "pre_flop"
        THEN CASE action \in {"raise", "all_in"} ->
                    Plus(Times(like.pfr, Percent(80)), Times(agg, Percent(20)))
               [] action = "call" -> AtLeast(Minus(like.vpip, like.pfr))
               [] action = "fold" -> AtLeast(Minus(Unit, like.vpip))
               [] action \in {"check", "bet"} -> Percent(10)
        ELSE CASE action \in Forcing -> Plus(Times(agg, Percent(70)), Percent(10))
               [] action = "call" -> Plus(Times(calm, Percent(30)), Percent(10))
               [] action = "fold" -> AtLeast(Times(Minus(Unit, like.vpip), Percent(50)))
               [] action = "check" -> AtLeast(Times(calm, Percent(40)))

(* _transition: a particle stays, or turns and moves towards its new kind. *)
Turned(particle) ==
    {particle} \cup UNION {{[particle EXCEPT !.kind = kind], [particle EXCEPT !.kind = kind, !.like = kind]} :
                               kind \in Transitions[particle.kind]}

(* _reweight                                                               *)
Reweighted(before, does) ==
    LET weight == Shared([i \in DOMAIN before |->
                      Times(before[i].weight, ActionLikelihood(does, Params[before[i].like]))])
    IN  [i \in DOMAIN before |-> [before[i] EXCEPT !.weight = weight[i]]]

(* The inverse of _effective_sample_size.                                  *)
SumOfSquares(of) == Total([i \in DOMAIN of |-> Times(of[i].weight, of[i].weight)])
Concentrated(of) == ~NotMore(SumOfSquares(of), Ratio(2, Particles))

Upto(of, i) == SumOver(LAMBDA k : of[k].weight, 1 .. i)

(* Mutant: every particle is drawn from the first comb's tooth on.         *)
DrawsFirst(of, u) == [k \in 1 .. Particles |-> 1]

(* _resample: a comb with a random beginning, whose teeth are as far apart *)
(* as the particles.                                                       *)
Drawn(of, u) ==
    [k \in 1 .. Particles |->
        LET tooth == Plus(u, Ratio(k - 1, Particles))
            reached == {i \in DOMAIN of : NotMore(tooth, Upto(of, i))}
        IN  IF reached = {} THEN Particles ELSE Min(reached)]
Resampled(of, u) ==
    [k \in 1 .. Particles |-> [of[Drawn(of, u)[k]] EXCEPT !.weight = Ratio(1, Particles)]]

Sort(particle) == <<particle.kind, particle.like>>

(* estimate_archetype                                                      *)
Estimate ==
    [kind \in DOMAIN Params |->
        SumOver(LAMBDA i : particles[i].weight, {i \in 1 .. Particles : particles[i].kind = kind})]

-----------------------------------------------------------------------------
(* BayesRelationalModel.                                                   *)

(* extract_relational_actions                                              *)
Relation(does) ==
    LET street == IF does[2] = "pre_flop" THEN "preflop" ELSE does[2]
        word == CASE does[1] = "call" -> "called" [] does[1] = "fold" -> "folded"
                  [] does[1] = "check" -> IF street = "preflop" THEN "checked" ELSE "check"
                  [] does[1] = "raise" -> "raised"
                  [] does[1] \in {"bet", "all_in"} -> IF street = "preflop" THEN "raised" ELSE "bet"
    IN  <<word, street>>
Relations(line) == {Relation(line[i]) : i \in DOMAIN line}

(* _build_tree: half of the remaining features decide below each side.     *)
Under(features, holds) ==
    LET rest == Tail(features)
        mid == Len(rest) \div 2
    IN  IF holds THEN SubSeq(rest, 1, mid) ELSE SubSeq(rest, mid + 1, Len(rest))

(* A leaf is named by the answers on the way to it.                        *)
LeavesBelow[features \in Seq(Range(Templates)), depth \in 0 .. MaxDepth] ==
    IF depth = MaxDepth \/ features = <<>> THEN {<<>>}
    ELSE UNION {{<<holds>> \o path : path \in LeavesBelow[Under(features, holds), depth + 1]} :
                    holds \in BOOLEAN}
Leaves == LeavesBelow[Templates, 0]

(* find_leaf                                                               *)
PathBelow(line) ==
    LET Path[features \in Seq(Range(Templates)), depth \in 0 .. MaxDepth] ==
            IF depth = MaxDepth \/ features = <<>> THEN <<>>
            ELSE LET holds == Head(features) \subseteq Relations(line)
                 IN  <<holds>> \o Path[Under(features, holds), depth + 1]
    IN  Path[Templates, 0]

PredictActions == {"fold", "check", "call", "bet", "raise", "all_in"}
LeafTotal(leaf) == FoldFunction(+, 0, leaves[leaf])

(* BayesianLeaf.predict                                                    *)
PredictLeaf(leaf) ==
    [action \in PredictActions |-> Ratio(leaves[leaf][action] + 1, LeafTotal(leaf) + Cardinality(PredictActions))]

(* confidence, of everything that was observed, of the leaves that were    *)
(* reached and of what is known at each of them.                           *)
Grown(n, half) == Minus(Unit, Ratio(half, half + n))
TreeConfidence ==
    LET covered == {leaf \in Leaves : LeafTotal(leaf) > 0}
    IN  IF covered = {} THEN Zero
        ELSE Plus(Times(Grown(Len(observed), 20), Percent(40)),
             Plus(Times(Ratio(Cardinality(covered), Cardinality(Leaves)), Percent(30)),
                  Times(Over(SumOver(LAMBDA leaf : Grown(LeafTotal(leaf), 10), covered),
                             Whole(Cardinality(covered))), Percent(30))))

-----------------------------------------------------------------------------
(* BehaviorPredictor.observe: the window before an event, and the event.   *)

LatestOf(seq, n) == SubSeq(seq, IF Len(seq) > n THEN Len(seq) - n + 1 ELSE 1, Len(seq))

(* Mutant: the window ends with the event itself.                          *)
LeakyPair(history) == [input |-> LatestOf(history, WindowLength), target |-> Last(history)]
TrainPair(history) == [input |-> LatestOf(Front(history), WindowLength), target |-> Last(history)]

-----------------------------------------------------------------------------
(* _init_particles: as many of every kind, and copies of any to fill up.   *)
FirstParticles(copied) ==
    LET kinds == SetToSeq(DOMAIN Params)
        KindOf(i) == LET k == (i - 1) \div (Particles \div Len(kinds)) + 1
                     IN  IF k <= Len(kinds) THEN kinds[k] ELSE copied
    IN  [i \in 1 .. Particles |->
            [kind |-> KindOf(i), like |-> KindOf(i), weight |-> Ratio(1, Particles)]]

BeliefsInit ==
    /\ model \in DOMAIN MostObserved
    /\ observed = <<>>
    /\ range = [class \in HandClasses |-> Ratio(Combos[class], 1326)] /\ strength = Zero
    /\ \E last \in DOMAIN Params : particles = FirstParticles(last)
    /\ drawn = <<>>
    /\ leaves = [leaf \in Leaves |-> [action \in PredictActions |-> 0]]
    /\ pairs = <<>>

IsShown(name, what) ==
    /\ model = name /\ Len(observed) < MostObserved[name] /\ UNCHANGED model
    /\ observed' = Append(observed, what)

SeesForRange ==
    \E does \in Doings :
        /\ IsShown("range", does)
        /\ range' = Posterior(range, does) /\ strength' = Strength(range)
        /\ UNCHANGED <<particles, drawn, leaves, pairs>>

(* update: turn, weigh, and draw anew when the weight is on few.           *)
SeesForParticles ==
    \E does \in Doings,
       turned \in [1 .. Particles -> UNION {Turned(particles[i]) : i \in 1 .. Particles}] :
        /\ IsShown("particles", does)
        /\ \A i \in 1 .. Particles : turned[i] \in Turned(particles[i])
        /\ LET weighed == Reweighted(turned, does)
           IN  IF Concentrated(weighed)
               THEN /\ drawn' = weighed
                    /\ \E u \in {Zero, Ratio(1, 2 * Particles)} : particles' = Resampled(weighed, u)
               ELSE /\ drawn' = <<>> /\ particles' = weighed
        /\ UNCHANGED <<range, strength, leaves, pairs>>

(* adapt, of one observation.                                              *)
AdaptTree ==
    \E line \in PastLines, action \in {does[1] : does \in Doings} :
        /\ IsShown("tree", <<line, action>>)
        /\ leaves' = [leaves EXCEPT ![PathBelow(line)][action] = @ + 1]
        /\ UNCHANGED <<range, strength, particles, drawn, pairs>>

SeesForPredictor ==
    \E does \in Doings :
        /\ IsShown("predictor", does)
        /\ pairs' = IF Len(observed) = 0 THEN pairs ELSE LatestOf(Append(pairs, TrainPair(observed')), MaxTrain)
        /\ UNCHANGED <<range, strength, particles, drawn, leaves>>

BeliefsNext == SeesForRange \/ SeesForParticles \/ AdaptTree \/ SeesForPredictor

-----------------------------------------------------------------------------
(* Properties.                                                             *)

(* Whatever it did before, a player who bets or raises is held for no      *)
(* weaker than before, one who checks or folds for no stronger, and what   *)
(* is believed does not depend on the order in which it was seen.          *)
RangeFollows ==
    model = "range" =>
        LET prior == [class \in HandClasses |-> Ratio(Combos[class], 1326)]
        IN  /\ Total(range) = Unit
            /\ range = FoldRight(LAMBDA does, belief : Posterior(belief, does), observed, prior)
            /\ observed # <<>> =>
                   /\ Last(observed)[1] \in Forcing => NotMore(strength, Strength(range))
                   /\ Last(observed)[1] \in {"check", "fold"} => NotMore(Strength(range), strength)

(* The particles stay weighted shares of one belief; when they are drawn   *)
(* anew every sort of them has its due, to within one for each of the old  *)
(* ones, so that none with a share of its own is forgotten.                *)
DrawnByWeight ==
    model = "particles" =>
        /\ Total(Estimate) = Unit
        /\ \A i \in 1 .. Particles : ~NotMore(particles[i].weight, Zero)
        /\ drawn # <<>> =>
               /\ SumOfSquares(particles) = Ratio(1, Particles)
               /\ \A sort \in {Sort(drawn[i]) : i \in 1 .. Particles} :
                      LET before == {i \in 1 .. Particles : Sort(drawn[i]) = sort}
                          after == {i \in 1 .. Particles : Sort(particles[i]) = sort}
                          due == Times(SumOver(LAMBDA i : drawn[i].weight, before), Whole(Particles))
                      IN  ~NotMore(Whole(Cardinality(before)), Apart(Whole(Cardinality(after)), due))

(* A leaf counts exactly what was seen on lines that answer its questions  *)
(* alike; where nothing was seen all actions are alike, and what was seen  *)
(* most is expected most.                                                  *)
TreeCounts ==
    model = "tree" =>
        /\ \A leaf \in Leaves, action \in PredictActions :
               leaves[leaf][action] =
                   Len(SelectSeq(observed, LAMBDA seen : PathBelow(seen[1]) = leaf /\ seen[2] = action))
        /\ \A leaf \in Leaves :
               /\ Total(PredictLeaf(leaf)) = Unit
               /\ \A a, b \in PredictActions :
                      NotMore(PredictLeaf(leaf)[a], PredictLeaf(leaf)[b]) <=> leaves[leaf][a] <= leaves[leaf][b]
        /\ ~NotMore(Unit, TreeConfidence)

(* What the network is trained on is the latest, in order, and never tells *)
(* it the action that it is to predict.                                    *)
NothingLeaks ==
    model = "predictor" =>
        \A k \in DOMAIN pairs :
            LET at == Len(observed) - Len(pairs) + k
            IN  /\ pairs[k].target = observed[at]
                /\ pairs[k].input = LatestOf(SubSeq(observed, 1, at - 1), WindowLength)

BeliefsHold == RangeFollows /\ DrawnByWeight /\ TreeCounts /\ NothingLeaks
=============================================================================
