-------------------------------- MODULE Regrets --------------------------------
(***************************************************************************)
(* What a CFR trainer keeps: CFRState of packages/cfr_agent/trainer.py,    *)
(* with the regrets and the strategies summed up for every information     *)
(* set, next to CompactCFRState of compact_cfr.py, which holds the same    *)
(* sums in a few levels per information set.  Both are updated, discounted *)
(* and saved alike, and a process that loads them goes on from the files.  *)
(* warm_start.py turns sums into strategies and back.                      *)
(*                                                                         *)
(* A dictionary of dictionaries is a function of information sets to       *)
(* functions of actions; numbers are exact fractions.                      *)
(***************************************************************************)
EXTENDS Fractions, Sequences, SequencesExt

CONSTANTS
    Utilities,    \* by information set, what its legal actions may turn out to be worth
    Levels,       \* INT8_MAX, 127 in the code
    Discounts,    \* the factors of apply_dcfr_discount: [positive, negative, sum]
    MaxLearned,   \* bound on the updates
    MaxCalls      \* bound on the other calls

ASSUME UtilitiesAssumption ==
    \A info \in DOMAIN Utilities : Cardinality({DOMAIN u : u \in Utilities[info]}) = 1
ASSUME LevelsAssumption == Levels \in Nat \ {0}
ASSUME CallsAssumption == MaxLearned \in Nat /\ MaxCalls \in Nat

VARIABLES
    exact,      \* CFRState: [regret, sum], dictionaries
    buffer,     \* CompactCFRState: _regret_buffer and _strategy_buffer
    stored,     \* its quantized dictionaries: by information set [level, offset, scale]
    files,      \* what was saved last: [exact, stored, slack, missed]
    slack,      \* history: by how much a sum that is read may be off
    missed,     \* history: the information sets that a discount did not reach
    learned,    \* how many updates there have been
    calls       \* how many other calls

regretVars == <<exact, buffer, stored, files, slack, missed, learned, calls>>

Sides == {"regret", "sum"}
InfoSets == DOMAIN Utilities
Legal == [info \in InfoSets |-> DOMAIN CHOOSE u \in Utilities[info] : TRUE]

-----------------------------------------------------------------------------
(* CFRState.                                                               *)

Entry(dictionary, info, action) ==
    IF info \in DOMAIN dictionary /\ action \in DOMAIN dictionary[info]
    THEN dictionary[info][action] ELSE Zero

Positive(a) == Greater(a, Zero)

(* Every legal action by its positive weight, or all alike if none has one.*)
Proportional(weight, legal) ==
    LET positive == [action \in legal |-> Positive(weight[action])]
    IN  IF Total(positive) = Zero THEN [action \in legal |-> Ratio(1, Cardinality(legal))]
        ELSE [action \in legal |-> Over(positive[action], Total(positive))]

StrategyOf(dictionary, info) ==
    Proportional([action \in Legal[info] |-> Entry(dictionary, info, action)], Legal[info])

CurrentStrategy(state, info) == StrategyOf(state.regret, info)
AverageStrategy(state, info) == StrategyOf(state.sum, info)

ExpectedValue(strategy, utilities) ==
    SumOver(LAMBDA action : Times(strategy[action], utilities[action]), DOMAIN utilities)

(* update adds to the actions that have a utility, and to no others.       *)
Added(dictionary, info, amount) ==
    LET known == IF info \in DOMAIN dictionary THEN DOMAIN dictionary[info] ELSE {}
    IN  (info :> [action \in known \cup DOMAIN amount |->
                     IF action \in DOMAIN amount
                     THEN Plus(Entry(dictionary, info, action), amount[action])
                     ELSE dictionary[info][action]]) @@ dictionary

(* Mutant: the regret of an action is its utility.                         *)
WholeUtility(strategy, utilities) == utilities
RegretOf(strategy, utilities) ==
    [action \in DOMAIN utilities |->
        Minus(utilities[action], ExpectedValue(strategy, utilities))]

Update(state, info, strategy, utilities) ==
    [regret |-> Added(state.regret, info, RegretOf(strategy, utilities)),
     sum |-> Added(state.sum, info, [action \in DOMAIN utilities |-> strategy[action]])]

Rescaled(dictionary, factor(_)) ==
    [info \in DOMAIN dictionary |->
        [action \in DOMAIN dictionary[info] |->
            Times(dictionary[info][action], factor(dictionary[info][action]))]]

Discounted(state) ==
    [regret |-> Rescaled(state.regret, LAMBDA a : IF a.num > 0 THEN Discounts.positive
                                                  ELSE Discounts.negative),
     sum |-> Rescaled(state.sum, LAMBDA a : Discounts.sum)]

-----------------------------------------------------------------------------
(* CompactCFRState.                                                        *)

Smallest(row) == CHOOSE a \in Range(row) : \A b \in Range(row) : NotMore(a, b)
Largest(row) == CHOOSE a \in Range(row) : \A b \in Range(row) : NotMore(b, a)

(* Python's round: to the even one of two whole numbers equally near.      *)
Rounded(a) ==
    LET below == a.num \div a.den
        twice == 2 * (a.num - below * a.den)
    IN  IF twice < a.den \/ (twice = a.den /\ below % 2 = 0) THEN below ELSE below + 1

(* Mutant: int, which cuts off.                                            *)
CutOff(a) == IF a.num < 0 THEN -(Size(a.num) \div a.den) ELSE a.num \div a.den
ToLevel(a) == Rounded(a)

(* _compute_scale_offset and _quantize.  The code's least scale, 1e-8,     *)
(* comes into play when all values are equal, and then they are the offset.*)
Quantized(row) ==
    LET offset == Over(Plus(Smallest(row), Largest(row)), Whole(2))
        scale == Minus(Largest(row), offset)
    IN  IF row = <<>> THEN [level |-> <<>>, offset |-> Zero, scale |-> Unit]
        ELSE [level |-> [action \in DOMAIN row |->
                            IF scale = Zero THEN 0
                            ELSE ToLevel(Times(Over(Minus(row[action], offset), scale),
                                               Whole(Levels)))],
              offset |-> offset, scale |-> scale]

Dequantized(entry) ==
    [action \in DOMAIN entry.level |->
        Plus(entry.offset, Times(Ratio(entry.level[action], Levels), entry.scale))]

(* get_regret, get_strategy_sum: an action that the buffer does not know   *)
(* is 0, one that the quantized values do not know is the offset.          *)
SumRead(side, info, action) ==
    IF info \in DOMAIN buffer[side] THEN Entry(buffer[side], info, action)
    ELSE IF info \notin DOMAIN stored[side] THEN Zero
    ELSE IF action \in DOMAIN stored[side][info].level
         THEN Dequantized(stored[side][info])[action] ELSE stored[side][info].offset

(* update first takes what is stored of an information set into its buffer.*)
Taken(side, info) ==
    IF info \in DOMAIN buffer[side] \/ info \notin DOMAIN stored[side] THEN buffer[side]
    ELSE (info :> Dequantized(stored[side][info])) @@ buffer[side]

(* flush_to_quantized                                                      *)
Flushed(side) ==
    [info \in DOMAIN buffer[side] |-> Quantized(buffer[side][info])] @@ stored[side]

-----------------------------------------------------------------------------
(* warm_start.py, each on an empty state.                                  *)

Extract(state) ==
    [info \in {i \in DOMAIN state.sum : state.sum[i] # <<>>} |->
        LET weight == [action \in DOMAIN state.sum[info] |-> Positive(state.sum[info][action])]
        IN  IF Total(weight) = Zero THEN weight
            ELSE [action \in DOMAIN weight |-> Over(weight[action], Total(weight))]]

WarmStartFromStrategy(strategies, scale) ==
    [regret |-> Rescaled(strategies, LAMBDA a : IF a.num > 0 THEN scale ELSE Zero),
     sum |-> Rescaled(strategies, LAMBDA a : IF a.num > 0 THEN Unit ELSE Zero)]

WarmStartFromState(source, decay) ==
    [side \in Sides |-> Rescaled(source[side], LAMBDA a : decay)]

-----------------------------------------------------------------------------
(* A trainer at work.                                                      *)

Empty == [side \in Sides |-> <<>>]

RegretsInit ==
    /\ exact = Empty /\ buffer = Empty /\ stored = Empty /\ slack = Empty
    /\ files = <<>> /\ missed = {} /\ learned = 0 /\ calls = 0

Calls == calls < MaxCalls /\ calls' = calls + 1 /\ UNCHANGED learned

(* The actions of a node that were tried: those that are played, and of    *)
(* the others any; or none, when the node cannot be cloned.  A clone fails *)
(* or not whatever the action: to try some of those played and not others  *)
(* is left out.                                                            *)
Tried(strategy, all) ==
    {<<>>} \cup {Restrict(all, tried) :
                    tried \in {T \in SUBSET DOMAIN all : \A a \in DOMAIN all \ T : strategy[a] = Zero}}

Learn ==
    /\ learned < MaxLearned /\ learned' = learned + 1
    /\ \E info \in InfoSets : \E all \in Utilities[info] :
       \E utilities \in Tried(CurrentStrategy(exact, info), all) :
          LET strategy == CurrentStrategy(exact, info)
              taken == [side \in Sides |-> Taken(side, info)]
          IN  /\ exact' = Update(exact, info, strategy, utilities)
              /\ buffer' = Update(taken, info, strategy, utilities)
              /\ slack' = [side \in Sides |-> slack[side] @@ (info :> Zero)]
    /\ UNCHANGED <<stored, files, missed, calls>>

(* apply_dcfr_discount: of the compact state only its buffers.             *)
Discount ==
    /\ Calls /\ exact # Empty
    /\ exact' = Discounted(exact)
    /\ buffer' = Discounted(buffer)
    /\ missed' = missed \cup (DOMAIN stored.regret \ DOMAIN buffer.regret)
    /\ UNCHANGED <<stored, files, slack>>

(* save: the buffers are flushed, and stay in use.                         *)
Save ==
    /\ Calls
    /\ stored' = [side \in Sides |-> Flushed(side)]
    /\ files' = [exact |-> exact, stored |-> stored', missed |-> missed,
                 slack |-> [side \in Sides |->
                     [info \in DOMAIN slack[side] |->
                         IF info \notin DOMAIN buffer[side] THEN slack[side][info]
                         ELSE Plus(slack[side][info],
                                   Over(stored'[side][info].scale, Whole(2 * Levels)))]]]
    /\ UNCHANGED <<exact, buffer, slack, missed>>

(* load, in a process that starts: both states as they were saved.         *)
Load ==
    /\ Calls /\ files # <<>>
    /\ exact' = files.exact /\ stored' = files.stored
    /\ slack' = files.slack /\ missed' = files.missed
    /\ buffer' = Empty
    /\ UNCHANGED files

RegretsNext == Learn \/ Discount \/ Save \/ Load

-----------------------------------------------------------------------------
(* Properties.                                                             *)

(* Regret matching always knows something to play: when there are regrets  *)
(* at all, one of them is positive, after every update and discount.       *)
SomethingToPlay ==
    \A info \in DOMAIN exact.regret :
        Range(exact.regret[info]) \subseteq {Zero}
            \/ \E action \in DOMAIN exact.regret[info] : exact.regret[info][action].num > 0

(* "bounded quantization error" (compact_cfr.py:4): what the compact state *)
(* reads is off by half a level for every time it went through a file and  *)
(* no more, unless a discount came while it was not in a buffer; and       *)
(* saving again what was read from a file changes nothing.                 *)
CompactIsClose ==
    \A side \in Sides :
        /\ \A info \in DOMAIN exact[side] \ missed : \A action \in DOMAIN exact[side][info] :
              NotMore(Apart(SumRead(side, info, action), exact[side][info][action]),
                      slack[side][info])
        /\ \A info \in DOMAIN stored[side] :
              Quantized(Dequantized(stored[side][info])) = stored[side][info]

(* A warm start plays from its first iteration what was learned on average,*)
(* and a decayed state what the state it came from plays.                  *)
WarmStartsReproduce ==
    LET warm == WarmStartFromStrategy(Extract(exact), Whole(100))
    IN  \A info \in DOMAIN exact.sum :
            /\ CurrentStrategy(warm, info) = AverageStrategy(exact, info)
            /\ AverageStrategy(warm, info) = AverageStrategy(exact, info)
            /\ LET decayed == WarmStartFromState(exact, Ratio(1, 2))
               IN  CurrentStrategy(decayed, info) = CurrentStrategy(exact, info)

(* What a trainer learned is kept: in regrets, in levels and in strategies.*)
LearningIsKept == SomethingToPlay /\ CompactIsClose /\ WarmStartsReproduce
=============================================================================
