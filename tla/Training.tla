------------------------------- MODULE Training -------------------------------
(***************************************************************************)
(* Models from labelled rows and what is measured of them: the bucket a    *)
(* spot falls into and its label (packages/solver_like), the rows of       *)
(* DatasetBuilder and their export, PolicyTableTrainer, PolicyTableModel,  *)
(* evaluate_policy_model, CalibrationService, train_weighted_vote,         *)
(* train_decision_tree and cross_validate of packages/training, and        *)
(* compute_metrics and compute_calibration of packages/evaluation.         *)
(*                                                                         *)
(* Equities and pot odds are in percent, the ratio of stack to pot in      *)
(* tenths.  A spot is what normalize_runtime makes of a hand; a trace is   *)
(* what an agent stored of its decision, without ratio and button.  A row  *)
(* keeps the bucket, the label and the split; which split a row falls into *)
(* is a hash of its source and may be any.  The features of a row are the  *)
(* parts of its bucket, so a weighted vote over all of them is the policy  *)
(* table.                                                                  *)
(***************************************************************************)
EXTENDS Fractions, Sequences, SequencesExt

CONSTANTS
    Spots,     \* the spots of the traces and the spot packs
    MaxRows    \* bound on the rows of a dataset

ASSUME RowsAssumption == MaxRows \in Nat \ {0}

Splits == {"train", "validation", "test"}

VARIABLES
    rows,      \* the rows of the dataset, in order
    dataset    \* the files of its export: the rows by split

learningVars == <<rows, dataset>>

-----------------------------------------------------------------------------
(* bucketize_spot.                                                         *)

(* The first of the names whose limit is above the value.                  *)
Bucket(value, limits, names) == names[1 + Cardinality({i \in DOMAIN limits : limits[i] <= value})]

SprBucket(spr) == Bucket(spr, <<20, 40, 80>>, <<"lt_2", "2_4", "4_8", "ge_8">>)
EquityBucket(equity) == Bucket(equity, <<35, 50, 65>>, <<"low", "medium", "good", "strong">>)
PriceBucket(edge) == Bucket(edge, <<-8, 0, 8>>, <<"bad", "close_below", "close", "good">>)

BucketizeSpot(spot) ==
    [street |-> spot.street, in_position |-> spot.seat = spot.button,
     spr |-> SprBucket(spot.spr), equity |-> EquityBucket(spot.equity),
     price |-> PriceBucket(spot.equity - spot.pot_odds), texture |-> spot.texture]

(* A trace has neither spr nor button_seat: bucketize_spot takes 0.        *)
BucketizeTrace(spot) == BucketizeSpot([spot EXCEPT !.spr = 0, !.button = 0])

-----------------------------------------------------------------------------
(* SolverLikeLabeler.label_spot.                                           *)

LabelUnpriced(spot) ==
    IF spot.equity >= 72 /\ "all_in" \in spot.legal /\ spot.spr < 20 THEN "all_in"
    ELSE IF spot.equity >= 62 /\ "bet" \in spot.legal THEN "bet"
    ELSE "check"

LabelPriced(spot) ==
    IF /\ spot.equity >= 78 /\ spot.equity >= spot.pot_odds + 22
       /\ "raise" \in spot.legal
    THEN "raise"
    ELSE IF /\ spot.equity >= 64 /\ spot.equity >= spot.pot_odds + 8
            /\ "call" \in spot.legal
    THEN "call"
    ELSE IF spot.equity >= 68 /\ "all_in" \in spot.legal /\ spot.spr <= 15 THEN "all_in"
    ELSE "fold"

LabelAction(spot) == IF spot.to_call = 0 THEN LabelUnpriced(spot) ELSE LabelPriced(spot)

-----------------------------------------------------------------------------
(* DatasetBuilder.build_rows and export.                                   *)

(* export: one file for each split.                                        *)
Export(all) == [split \in Splits |-> SelectSeq(all, LAMBDA row : row.split = split)]

LearningInit == rows = <<>> /\ dataset = Export(<<>>)

AddRow(row) ==
    /\ Len(rows) < MaxRows
    /\ rows' = Append(rows, row)
    /\ dataset' = Export(rows')

(* The decision of a trace is its label.                                   *)
AddTrace ==
    \E spot \in Spots, split \in Splits : \E action \in spot.legal :
        AddRow([key |-> BucketizeTrace(spot), label |-> action, split |-> split])

(* A spot of a pack has the label of the labeler.                          *)
AddSpotPack ==
    \E spot \in Spots, split \in Splits :
        AddRow([key |-> BucketizeSpot(spot), label |-> LabelAction(spot), split |-> split])

LearningNext == AddTrace \/ AddSpotPack

-----------------------------------------------------------------------------
(* PolicyTableTrainer.train: for each bucket the label most of its rows    *)
(* have, the first of these in the order of the rows.                      *)

Keys(all) == {row.key : row \in ToSet(all)}
Labels(all) == {row.label : row \in ToSet(all)}
RowsOf(all, key) == SelectSeq(all, LAMBDA row : row.key = key)
LabelCount(all, label) == Len(SelectSeq(all, LAMBDA row : row.label = label))

(* Mutant: the label of the first row.                                     *)
FirstLabel(all) == all[1].label

MostCommon(all) ==
    all[CHOOSE i \in DOMAIN all :
            /\ \A label \in Labels(all) : LabelCount(all, label) <= LabelCount(all, all[i].label)
            /\ \A j \in 1 .. i - 1 : LabelCount(all, all[j].label) < LabelCount(all, all[i].label)
       ].label

(* The confidence is support / of.                                         *)
Train(all) ==
    [key \in Keys(all) |->
        LET own == RowsOf(all, key)
            action == MostCommon(own)
        IN  [action |-> action, support |-> LabelCount(own, action), of |-> Len(own)]]

Predict(model, key) ==
    IF key \in DOMAIN model THEN model[key] ELSE [action |-> "check", support |-> 0, of |-> 1]

-----------------------------------------------------------------------------
(* evaluate_policy_model: how many rows the model agrees with, and in      *)
(* which of the five bins of confidence they are.                          *)

BinOf(prediction) ==
    Bucket(5 * prediction.support, [i \in 1 .. 4 |-> i * prediction.of], [i \in 1 .. 5 |-> i])

Aligned(model, all) == SelectSeq(all, LAMBDA row : Predict(model, row.key).action = row.label)
InBin(model, all, bin) == SelectSeq(all, LAMBDA row : BinOf(Predict(model, row.key)) = bin)

EvaluatePolicyModel(model, all) ==
    [rows |-> Len(all), correct |-> Len(Aligned(model, all)),
     bins |-> [bin \in 1 .. 5 |-> [count |-> Len(InBin(model, all, bin)),
                                   correct |-> Len(Aligned(model, InBin(model, all, bin)))]]]

(* calibrate: how far the accuracy of a bin is from its middle, weighted   *)
(* by its rows; here times ten and times the number of rows.               *)
GapOf(a, b) == IF a >= b THEN a - b ELSE b - a
WeightedGap(report) ==
    FoldFunction(LAMBDA gap, sum : gap + sum, 0,
        [bin \in 1 .. 5 |->
            GapOf((2 * bin - 1) * report.bins[bin].count, 10 * report.bins[bin].correct)])

-----------------------------------------------------------------------------
(* train_weighted_vote: its accuracy on its own rows.                      *)

Features == <<"equity", "in_position", "price", "spr", "street", "texture">>

Accuracy(all, Prediction(_)) ==
    Ratio(Len(SelectSeq(all, LAMBDA row : Prediction(row) = row.label)), Len(all))

VoteAccuracy(all) == Accuracy(all, LAMBDA row : Predict(Train(all), row.key).action)

-----------------------------------------------------------------------------
(* train_decision_tree: one split, by the feature that leaves the purest   *)
(* groups, the first of these.                                             *)

Group(all, feature, value) == SelectSeq(all, LAMBDA row : row.key[feature] = value)
ValuesAmong(all, feature) == {row.key[feature] : row \in ToSet(all)}
Majority(all) == LabelCount(all, MostCommon(all))

(* _best_split_feature: the weighted purity.                               *)
SplitScore(all, feature) ==
    SumOver(LAMBDA value :
                LET own == Group(all, feature, value)
                IN  Times(Ratio(Majority(own), Len(own)), Ratio(Len(own), Len(all))),
            ValuesAmong(all, feature))

BestSplitFeature(all) ==
    Features[CHOOSE i \in DOMAIN Features :
                /\ \A j \in DOMAIN Features :
                       NotMore(SplitScore(all, Features[j]), SplitScore(all, Features[i]))
                /\ \A j \in 1 .. i - 1 : SplitScore(all, Features[j]) # SplitScore(all, Features[i])]

TreeAccuracy(all) ==
    LET feature == BestSplitFeature(all)
    IN  Accuracy(all, LAMBDA row : MostCommon(Group(all, feature, row.key[feature])))

-----------------------------------------------------------------------------
(* cross_validate: the shuffled indices are dealt to the folds in turn.    *)
(* What it reports of a fold is the accuracy on the rows it was trained on.*)

Shuffles(n) == {order \in [1 .. n -> 1 .. n] : {order[i] : i \in 1 .. n} = 1 .. n}
FoldOf(order, k, f) == {order[i] : i \in {j \in DOMAIN order : (j - 1) % k = f}}
TrainedOn(all, fold) ==
    LET kept == SetToSortSeq(DOMAIN all \ fold, LAMBDA i, j : i < j)
    IN  [i \in DOMAIN kept |-> all[kept[i]]]

CrossValidate(all, order, k) ==
    [f \in 0 .. k - 1 |-> VoteAccuracy(TrainedOn(all, FoldOf(order, k, f)))]

-----------------------------------------------------------------------------
(* compute_metrics and compute_per_class_metrics.  An outcome is a         *)
(* prediction with its confidence and the actual label.                    *)

Outcomes(model, all) ==
    [i \in DOMAIN all |->
        LET p == Predict(model, all[i].key)
        IN  [predicted |-> p.action, actual |-> all[i].label,
             confidence |-> Ratio(p.support, p.of), correct |-> p.action = all[i].label]]

Classes(outcomes) ==
    {o.predicted : o \in ToSet(outcomes)} \cup {o.actual : o \in ToSet(outcomes)}
Confusion(outcomes) ==
    [actual \in Classes(outcomes) |-> [predicted \in Classes(outcomes) |->
        Len(SelectSeq(outcomes, LAMBDA o : o.actual = actual /\ o.predicted = predicted))]]

Share(part, whole) == IF whole = 0 THEN Zero ELSE Ratio(part, whole)

PerClass(outcomes) ==
    LET table == Confusion(outcomes)
    IN  [class \in DOMAIN table |->
            LET predicted == MapThenSumSet(LAMBDA other : table[other][class], DOMAIN table)
                support == MapThenSumSet(LAMBDA other : table[class][other], DOMAIN table)
                precision == Share(table[class][class], predicted)
                recall == Share(table[class][class], support)
            IN  [precision |-> precision, recall |-> recall, support |-> support,
                 f1 |-> IF Plus(precision, recall) = Zero THEN Zero
                        ELSE Over(Times(Whole(2), Times(precision, recall)), Plus(precision, recall))]]

-----------------------------------------------------------------------------
(* compute_calibration, with its ten bins.                                 *)

NumBins == 10
IsCorrect(o) == IF o.correct THEN Unit ELSE Zero

Brier(outcomes) ==
    SumOver(LAMBDA i : LET off == Apart(outcomes[i].confidence, IsCorrect(outcomes[i]))
                       IN  Over(Times(off, off), Whole(Len(outcomes))), DOMAIN outcomes)

(* Mutant: no bin has the confidence 1.                                    *)
BelowHigh(c, bin) == bin * c.den <= NumBins * c.num /\ NumBins * c.num < (bin + 1) * c.den
BinHas(c, bin) ==
    /\ bin * c.den <= NumBins * c.num
    /\ NumBins * c.num < (bin + 1) * c.den \/ (bin = NumBins - 1 /\ c = Unit)

CalibrationBins(outcomes) ==
    [bin \in 0 .. NumBins - 1 |->
        LET items == {i \in DOMAIN outcomes : BinHas(outcomes[i].confidence, bin)}
            Mean(Of(_)) == IF items = {} THEN Zero
                           ELSE Over(SumOver(Of, items), Whole(Cardinality(items)))
        IN  [count |-> Cardinality(items),
             accuracy |-> Mean(LAMBDA i : IsCorrect(outcomes[i])),
             confidence |-> Mean(LAMBDA i : outcomes[i].confidence)]]

BinError(bin) == Apart(bin.accuracy, bin.confidence)
ExpectedError(outcomes) ==
    LET bins == CalibrationBins(outcomes)
    IN  SumOver(LAMBDA b : Times(Ratio(bins[b].count, Len(outcomes)), BinError(bins[b])), DOMAIN bins)
MaxError(outcomes) ==
    LET bins == CalibrationBins(outcomes)
    IN  FoldSet(LAMBDA b, most : Greater(BinError(bins[b]), most), Zero, DOMAIN bins)

-----------------------------------------------------------------------------
(* Properties.                                                             *)

Correct(model, all) == EvaluatePolicyModel(model, all).correct
BinSum(report, field) == FoldFunction(LAMBDA bin, sum : bin[field] + sum, 0, report.bins)

(* A table evaluated on the rows it was trained on does as well as any     *)
(* choice of one action per bucket could, and its confidences are what it  *)
(* then achieves: the calibration error is within half a bin.  The bins    *)
(* and the exported splits each hold every row once.                       *)
LearningAddsUp ==
    LET model == Train(rows)
        report == EvaluatePolicyModel(model, rows)
    IN  /\ \A choice \in [Keys(rows) -> Labels(rows)] :
               Len(SelectSeq(rows, LAMBDA row : choice[row.key] = row.label)) <= report.correct
        /\ WeightedGap(report) <= report.rows
        /\ BinSum(report, "count") = report.rows /\ BinSum(report, "correct") = report.correct
        /\ \A other \in {model, Train(dataset["train"])} :
               Correct(other, rows) = Correct(other, dataset["train"])
                                      + Correct(other, dataset["validation"])
                                      + Correct(other, dataset["test"])

(* The purity that chooses a split is the accuracy the tree then has: no   *)
(* other feature would do better, and the vote over all features does.     *)
SplitIsBest ==
    /\ TreeAccuracy(rows) = SplitScore(rows, BestSplitFeature(rows))
    /\ NotMore(TreeAccuracy(rows), VoteAccuracy(rows))

(* Whatever the shuffle, every row is left out by one fold, the folds are  *)
(* alike in size, and none trains on nothing.                              *)
FoldsPartition ==
    \A k \in 2 .. Len(rows) : \A order \in Shuffles(Len(rows)) :
        /\ \A i \in DOMAIN rows : Cardinality({f \in 0 .. k - 1 : i \in FoldOf(order, k, f)}) = 1
        /\ \A f, g \in 0 .. k - 1 :
               Cardinality(FoldOf(order, k, f)) <= Cardinality(FoldOf(order, k, g)) + 1
        /\ \A f \in 0 .. k - 1 : LET accuracy == CrossValidate(rows, order, k)[f]
                                 IN  NotMore(accuracy, Unit) /\ accuracy # Zero

(* Accuracy is the recall of the classes by their support, and an f1 is    *)
(* between precision and recall.                                           *)
MetricsAgree(outcomes) ==
    LET per == PerClass(outcomes)
    IN  /\ SumOver(LAMBDA class : Times(per[class].recall, Ratio(per[class].support, Len(rows))),
                   DOMAIN per)
              = Ratio(Len(SelectSeq(outcomes, LAMBDA o : o.correct)), Len(rows))
        /\ \A class \in DOMAIN per :
              /\ NotMore(per[class].f1, Greater(per[class].precision, per[class].recall))
              /\ NotMore(per[class].precision, per[class].f1) \/ NotMore(per[class].recall, per[class].f1)

(* Each outcome is in one bin, and no mean error is above the greatest.    *)
BinsAddUp(outcomes) ==
    /\ MapThenSumSet(LAMBDA b : CalibrationBins(outcomes)[b].count, 0 .. NumBins - 1) = Len(rows)
    /\ NotMore(ExpectedError(outcomes), MaxError(outcomes))

(* A table says of its own rows how sure it is, and is exactly right.      *)
SureAsRight ==
    LET own == Outcomes(Train(rows), rows)
    IN  /\ MaxError(own) = Zero
        /\ Brier(own) = SumOver(LAMBDA i : Over(Times(own[i].confidence,
                                                      Minus(Unit, own[i].confidence)), Whole(Len(own))),
                                DOMAIN own)

(* What the models achieve and what is measured of them add up.            *)
ModelsAddUp ==
    /\ LearningAddsUp
    /\ rows # <<>> =>
          /\ SplitIsBest /\ FoldsPartition /\ SureAsRight
          /\ \A model \in {Train(rows), Train(dataset["train"])} :
                MetricsAgree(Outcomes(model, rows)) /\ BinsAddUp(Outcomes(model, rows))
===============================================================================
