---------------------------- MODULE WorkflowProofs ----------------------------
(* Theorems about the workflows: the saga, for any number of callers,      *)
(* steps and retries, any steps without a compensation and any faults; the *)
(* session runner, for any number of sessions and hands and any faults;    *)
(* the files on the way to a release, for any number of requests that      *)
(* evaluate or assess the model while they are written; and the three of   *)
(* them together.                                                          *)
EXTENDS MCWorkflows, FiniteSetTheorems, TLAPS

-----------------------------------------------------------------------------
(***************************************************************************)
(* The saga.                                                               *)
(***************************************************************************)

(* The inductive invariant.                                                *)

NoneLate == "late" \notin spoilt
NoneLost == spoilt \cap {"late", "compensate"} = {}

DoneUpTo(c, n) == \A s \in Steps : s <= n => effect[c][s] > 0
NothingAfter(c, n) == \A s \in Steps : s > n => effect[c][s] = 0

(* Where a call is tells which of its steps are in place: those before the *)
(* one it executes, or those it has still to compensate.  An attempt that  *)
(* was late leaves its effect at the step that is tried again.             *)
StepsOf(c) ==
    /\ at[c] \in {"start", "create", "refused", "reused"} => step[c] = 1 /\ NothingAfter(c, 0)
    /\ at[c] = "execute" =>
          /\ step[c] \in 1 .. NumSteps + 1
          /\ DoneUpTo(c, step[c] - 1) /\ NothingAfter(c, step[c])
          /\ NoneLate => NothingAfter(c, step[c] - 1)
    /\ at[c] = "advance" =>
          step[c] \in Steps /\ DoneUpTo(c, step[c]) /\ NothingAfter(c, step[c])
    /\ at[c] \in {"fail", "compensating"} =>
          /\ step[c] \in 0 .. NumSteps /\ DoneUpTo(c, step[c])
          /\ NoneLate => NothingAfter(c, step[c])
    /\ at[c] = "compensate" =>
          /\ step[c] \in 0 .. NumSteps /\ DoneUpTo(c, step[c])
          /\ NoneLost => \A s \in Compensable : s > step[c] => effect[c][s] = 0
    /\ at[c] = "returned" => DoneUpTo(c, NumSteps)
    /\ NoneLate => \A s \in Steps : effect[c][s] <= 1

(* The row is that of the one call with the key that has done anything,    *)
(* and its status follows where that call is.                              *)
Owns(c) == row # NoRow /\ row.owner = c
StatusOf(c) ==
    /\ at[c] \in {"execute", "advance", "fail"} => Owns(c) /\ row.status = "running"
    /\ at[c] \in {"execute", "advance"} => row.current_step = step[c] - 1
    /\ at[c] = "compensating" => Owns(c) /\ row.status = "failed"
    /\ at[c] = "compensate" => Owns(c) /\ row.status = "compensating"
    /\ at[c] = "returned" => Owns(c) /\ row.status = "completed"
    /\ at[c] = "reused" => row # NoRow /\ row.status = "completed"
RowOf(c) ==
    /\ at[c] \in {"create", "advance", "fail", "compensating", "reused"} => c \in keyed
    /\ c \in keyed => StatusOf(c) /\ \A s \in Steps : effect[c][s] > 0 => Owns(c)

CompletedReturned == row # NoRow /\ row.status = "completed" => at[row.owner] = "returned"

(* UndoneInReverse and Cleanup, of one call.                               *)
UndoneOf(c) ==
    NoneLost => \A s, t \in Compensable : s < t /\ effect[c][t] > 0 => effect[c][s] > 0
CleanupOf(c) ==
    spoilt \cap {"late", "compensate", "store"} = {} =>
        (at[c] = "raised" => \A s \in Compensable : effect[c][s] = 0)

CallOf(c) == StepsOf(c) /\ RowOf(c) /\ UndoneOf(c) /\ CleanupOf(c)

SagaIInv ==
    /\ SagaTypeOK
    /\ \A c \in Callers : CallOf(c)
    /\ CompletedReturned
    /\ RowTellsProgress

LEMMA SagaInitial == SagaInit => SagaIInv
  <1> SUFFICES ASSUME SagaInit PROVE SagaIInv
    OBVIOUS
  <1> USE SagaAssumption
  <1>1. SagaTypeOK
    BY DEF SagaInit, SagaTypeOK, SagaEnded, Steps
  <1>2. ASSUME NEW c \in Callers PROVE CallOf(c)
    <2>1. StepsOf(c)
      BY DEF SagaInit, StepsOf, NothingAfter, Steps
    <2>2. RowOf(c)
      BY DEF SagaInit, RowOf, StatusOf, Steps
    <2>3. UndoneOf(c) /\ CleanupOf(c)
      BY DEF SagaInit, UndoneOf, CleanupOf, Steps
    <2> QED BY <2>1, <2>2, <2>3 DEF CallOf
  <1>3. CompletedReturned /\ RowTellsProgress
    BY DEF SagaInit, CompletedReturned, RowTellsProgress
  <1> QED BY <1>1, <1>2, <1>3 DEF SagaIInv

-----------------------------------------------------------------------------
(* What a step of one call leaves of another.                              *)

SameAt(d) == at'[d] = at[d] /\ step'[d] = step[d] /\ effect'[d] = effect[d]
RowKept(d) == Owns(d) \/ (row # NoRow /\ row.status = "completed") => row' = row
FaultsStay == spoilt \subseteq spoilt' /\ keyed' = keyed

LEMMA OthersKeep ==
    ASSUME NEW d \in Callers, CallOf(d), SameAt(d), RowKept(d), FaultsStay
    PROVE  CallOf(d)'
  <1>1. (NoneLate' => NoneLate) /\ (NoneLost' => NoneLost)
    BY DEF FaultsStay, NoneLate, NoneLost
  <1>2. StepsOf(d)'
    BY <1>1 DEF CallOf, StepsOf, SameAt, DoneUpTo, NothingAfter
  <1>3. RowOf(d)'
    BY DEF CallOf, RowOf, StatusOf, Owns, SameAt, RowKept, FaultsStay
  <1>4. UndoneOf(d)'
    BY <1>1 DEF CallOf, UndoneOf, SameAt
  <1>5. CleanupOf(d)'
    BY DEF CallOf, CleanupOf, SameAt, FaultsStay
  <1> QED BY <1>2, <1>3, <1>4, <1>5 DEF CallOf

(* Only the call that made the row changes it, and no more once it says    *)
(* that the saga is completed.                                             *)
LEMMA RunLeavesOthers ==
    ASSUME SagaIInv, NEW c \in Callers, Run(c)
    PROVE  FaultsStay /\ \A d \in Callers \ {c} : SameAt(d) /\ RowKept(d)
  <1>1. FaultsStay
    BY DEF Run, Lookup, Create, Succeed, FailedAttempt, Advance, Complete, StoreRaises, Fail,
           Compensating, Compensate, Reraise, Suffer, FaultsStay
  <1>2. ASSUME NEW d \in Callers \ {c} PROVE SameAt(d)
    BY DEF Run, Lookup, Create, Succeed, FailedAttempt, Advance, Complete, StoreRaises, Fail,
           Compensating, Compensate, Reraise, SagaGoto, Do, Undo, SameAt, SagaIInv, SagaTypeOK
  <1>3. row' = row \/ row = NoRow \/ (Owns(c) /\ row.status # "completed")
    BY DEF Run, Lookup, Create, Succeed, FailedAttempt, Advance, Complete, StoreRaises, Fail,
           Compensating, Compensate, Reraise, SagaIInv, CallOf, RowOf, StatusOf
  <1>4. ASSUME NEW d \in Callers \ {c} PROVE RowKept(d)
    BY <1>3 DEF RowKept, Owns
  <1> QED BY <1>1, <1>2, <1>4

(* Effects stay numbers, because only what is in place is undone.          *)
LEMMA RunTyped ==
    ASSUME SagaTypeOK, NEW c \in Callers, StepsOf(c), RowOf(c), Run(c)
    PROVE  SagaTypeOK'
  <1> USE SagaAssumption
  <1>1. keyed' \subseteq Callers /\ spoilt' \subseteq SagaFaults
    BY DEF SagaTypeOK, Run, Lookup, Create, Succeed, FailedAttempt, Advance, Complete,
           StoreRaises, Fail, Compensating, Compensate, Reraise, Suffer
  <1>2. at' \in [Callers -> SagaEnded \cup {"start", "create", "execute", "advance", "fail",
                                         "compensating", "compensate"}]
    BY DEF SagaTypeOK, Run, Lookup, Create, Succeed, FailedAttempt, Advance, Complete,
           StoreRaises, Fail, Compensating, Compensate, Reraise, SagaGoto, SagaEnded
  <1>3. tries' \in [Callers -> 0 .. MaxRetries]
    BY DEF SagaTypeOK, Run, Lookup, Create, Succeed, FailedAttempt, Advance, Complete,
           StoreRaises, Fail, Compensating, Compensate, Reraise
  <1>4. step' \in [Callers -> 0 .. NumSteps + 1]
    <2>1. CASE Succeed(c) \/ Advance(c)
      <3>1. step[c] + 1 \in 0 .. NumSteps + 1 /\ step \in [Callers -> 0 .. NumSteps + 1]
        BY <2>1 DEF SagaTypeOK, Succeed, Advance, StepsOf, Steps
      <3> QED BY <2>1, <3>1 DEF Succeed, Advance
    <2>2. CASE FailedAttempt(c) \/ Compensate(c)
      <3>1. step[c] - 1 \in 0 .. NumSteps + 1 /\ step \in [Callers -> 0 .. NumSteps + 1]
        BY <2>2 DEF SagaTypeOK, FailedAttempt, Compensate, Steps
      <3> QED BY <2>2, <3>1 DEF FailedAttempt, Compensate
    <2>3. CASE StoreRaises(c)
      BY <2>3 DEF StoreRaises, SagaTypeOK
    <2>4. CASE step' = step
      BY <2>4 DEF SagaTypeOK
    <2> QED BY <2>1, <2>2, <2>3, <2>4 DEF Run, Lookup, Create, Complete, Fail, Compensating, Reraise
  <1>5. effect' \in [Callers -> [Steps -> Nat]]
    <2>1. ASSUME NEW s \in Steps, Do(c, s) PROVE effect' \in [Callers -> [Steps -> Nat]]
      BY <2>1 DEF Do, SagaTypeOK
    <2>2. CASE Compensate(c) /\ Undo(c, step[c])
      <3>1. step[c] \in Steps /\ effect[c][step[c]] > 0
        BY <2>2 DEF Compensate, StepsOf, DoneUpTo, Steps, SagaTypeOK
      <3>2. effect[c][step[c]] - 1 \in Nat
        BY <3>1 DEF SagaTypeOK
      <3> QED BY <2>2, <3>1, <3>2 DEF Undo, SagaTypeOK
    <2>3. CASE effect' = effect
      BY <2>3 DEF SagaTypeOK
    <2> QED BY <2>1, <2>2, <2>3 DEF Run, Lookup, Create, Succeed, FailedAttempt, Advance, Complete,
            StoreRaises, Fail, Compensating, Compensate, Reraise
  <1>6. row' \in {NoRow} \cup [owner : keyed, current_step : 0 .. NumSteps,
                             status : {"running", "completed", "failed", "compensating"}]
    <2>1. CASE Create(c)
      BY <2>1 DEF Create, SagaTypeOK, RowOf
    <2>2. CASE Advance(c)
      BY <2>2 DEF Advance, SagaTypeOK, RowOf, StatusOf, Owns, StepsOf, Steps
    <2>3. CASE Complete(c) \/ Fail(c) \/ Compensating(c)
      BY <2>3 DEF Complete, Fail, Compensating, SagaTypeOK, RowOf, StatusOf, Owns
    <2>4. CASE row' = row
      BY <2>4 DEF SagaTypeOK
    <2> QED BY <2>1, <2>2, <2>3, <2>4 DEF Run, Lookup, Succeed, FailedAttempt, StoreRaises,
            Compensate, Reraise
  <1>7. keyed' = keyed
    BY DEF Run
  <1> QED BY <1>1, <1>2, <1>3, <1>4, <1>5, <1>6, <1>7 DEF SagaTypeOK

-----------------------------------------------------------------------------
(* How an effect changes.                                                  *)

LEMMA DoAt ==
    ASSUME SagaTypeOK, NEW c \in Callers, NEW s \in Steps, Do(c, s)
    PROVE  /\ effect'[c][s] = effect[c][s] + 1
           /\ \A t \in Steps \ {s} : effect'[c][t] = effect[c][t]
  BY DEF SagaTypeOK, Do

LEMMA UndoAt ==
    ASSUME SagaTypeOK, NEW c \in Callers, NEW s \in Steps, Undo(c, s)
    PROVE  /\ effect'[c][s] = effect[c][s] - 1
           /\ \A t \in Steps \ {s} : effect'[c][t] = effect[c][t]
  BY DEF SagaTypeOK, Undo

LEMMA NextExecuted ==
    ASSUME NEW c \in Callers, at'[c] = "execute", step'[c] \in 1 .. NumSteps + 1,
           \A t \in Steps : /\ t <= step'[c] - 1 => effect'[c][t] > 0
                            /\ t > step'[c] - 1 => effect'[c][t] = 0
                            /\ t > step'[c] => effect'[c][t] = 0,
           NoneLate' => \A t \in Steps : effect'[c][t] <= 1
    PROVE  StepsOf(c)'
  BY DEF StepsOf, DoneUpTo, NothingAfter

(* One attempt is one effect more, one compensation one less.              *)
LEMMA RunSteps ==
    ASSUME SagaTypeOK, NEW c \in Callers, StepsOf(c), RowOf(c), Run(c)
    PROVE  StepsOf(c)'
  <1> USE SagaAssumption
  <1> effect[c] \in [Steps -> Nat] /\ step[c] \in 0 .. NumSteps + 1
    BY DEF SagaTypeOK
  <1>1. CASE Lookup(c)
    <2>1. /\ at'[c] \in {"execute", "reused", "create"} /\ step'[c] = 1
          /\ effect' = effect /\ spoilt' = spoilt
      BY <1>1 DEF Lookup, SagaGoto, StepsOf, SagaTypeOK
    <2>2. NothingAfter(c, 0) /\ (NoneLate => \A s \in Steps : effect[c][s] <= 1)
      BY <1>1 DEF Lookup, StepsOf
    <2> QED BY <2>1, <2>2 DEF StepsOf, NothingAfter, DoneUpTo, Steps, NoneLate
  <1>2. CASE Create(c)
    <2>1. /\ at'[c] \in {"execute", "refused"} /\ step'[c] = 1
          /\ effect' = effect /\ spoilt' = spoilt
      BY <1>2 DEF Create, SagaGoto, StepsOf, SagaTypeOK
    <2>2. NothingAfter(c, 0) /\ (NoneLate => \A s \in Steps : effect[c][s] <= 1)
      BY <1>2 DEF Create, StepsOf
    <2> QED BY <2>1, <2>2 DEF StepsOf, NothingAfter, DoneUpTo, Steps, NoneLate
  <1>3. CASE Succeed(c)
    <2>1. step[c] \in Steps /\ DoneUpTo(c, step[c] - 1) /\ NothingAfter(c, step[c])
      BY <1>3 DEF Succeed, StepsOf
    <2>2. NoneLate => NothingAfter(c, step[c] - 1) /\ \A s \in Steps : effect[c][s] <= 1
      BY <1>3 DEF Succeed, StepsOf
    <2>3. \/ at'[c] = "advance" /\ step'[c] = step[c]
          \/ at'[c] = "execute" /\ step'[c] = step[c] + 1
      BY <1>3 DEF Succeed, SagaGoto, SagaTypeOK
    <2>4. /\ effect'[c][step[c]] = effect[c][step[c]] + 1
          /\ \A t \in Steps \ {step[c]} : effect'[c][t] = effect[c][t]
      BY <1>3, <2>1, DoAt DEF Succeed
    <2>5. \A t \in Steps : /\ t <= step[c] => effect'[c][t] > 0
                           /\ t > step[c] => effect'[c][t] = 0
      <3>1. \A t \in Steps : /\ t <= step[c] /\ t # step[c] => effect'[c][t] > 0
                             /\ t > step[c] => t # step[c] /\ effect'[c][t] = 0
        <4>1. \A t \in Steps : /\ t <= step[c] /\ t # step[c] => t <= step[c] - 1
                               /\ t > step[c] => t # step[c]
          BY <2>1 DEF Steps
        <4> QED BY <2>1, <2>4, <4>1 DEF DoneUpTo, NothingAfter
      <3>2. effect'[c][step[c]] > 0
        BY <2>1, <2>4
      <3> QED BY <2>1, <3>1, <3>2 DEF Steps
    <2>6. NoneLate' => \A t \in Steps : effect'[c][t] <= 1
      <3>1. NoneLate' => NoneLate
        BY <1>3 DEF Succeed, NoneLate
      <3>2. NoneLate => effect[c][step[c]] = 0
        BY <2>1, <2>2 DEF NothingAfter, Steps
      <3> QED BY <2>2, <2>4, <3>1, <3>2
    <2>7. CASE at'[c] = "advance" /\ step'[c] = step[c]
      BY <2>1, <2>5, <2>6, <2>7 DEF StepsOf, DoneUpTo, NothingAfter
    <2>8. CASE at'[c] = "execute" /\ step'[c] = step[c] + 1
      <3>1. /\ step'[c] \in 1 .. NumSteps + 1
            /\ \A t \in Steps : /\ t <= step'[c] - 1 => effect'[c][t] > 0
                                /\ t > step'[c] - 1 => effect'[c][t] = 0
                                /\ t > step'[c] => effect'[c][t] = 0
        BY <2>1, <2>5, <2>8 DEF Steps
      <3> QED BY <2>6, <2>8, <3>1, NextExecuted
    <2> QED BY <2>3, <2>7, <2>8
  <1>4. CASE FailedAttempt(c)
    <2>1. step[c] \in Steps /\ DoneUpTo(c, step[c] - 1) /\ NothingAfter(c, step[c])
      BY <1>4 DEF FailedAttempt, StepsOf
    <2>2. NoneLate => NothingAfter(c, step[c] - 1) /\ \A s \in Steps : effect[c][s] <= 1
      BY <1>4 DEF FailedAttempt, StepsOf
    <2>3. \/ at'[c] = "execute" /\ step'[c] = step[c]
          \/ at'[c] \in {"fail", "compensate"} /\ step'[c] = step[c] - 1
      BY <1>4 DEF FailedAttempt, SagaGoto, SagaTypeOK
    <2>4. \A t \in Steps : /\ t < step[c] => effect'[c][t] > 0
                           /\ t > step[c] => effect'[c][t] = 0
      <3>1. CASE effect' = effect
        BY <2>1, <3>1 DEF DoneUpTo, NothingAfter, Steps
      <3>2. CASE Do(c, step[c])
        BY <2>1, <3>2, DoAt DEF DoneUpTo, NothingAfter, Steps
      <3> QED BY <1>4, <3>1, <3>2 DEF FailedAttempt
    <2>5. NoneLate' => NoneLate /\ effect' = effect
      BY <1>4 DEF FailedAttempt, Suffer, NoneLate
    <2>6. NoneLate' => \A t \in Steps : /\ t > step[c] - 1 => effect'[c][t] = 0
                                        /\ effect'[c][t] <= 1
      BY <2>2, <2>5 DEF NothingAfter
    <2>7. CASE at'[c] = "execute" /\ step'[c] = step[c]
      BY <2>1, <2>4, <2>6, <2>7 DEF StepsOf, DoneUpTo, NothingAfter, Steps
    <2>8. CASE at'[c] \in {"fail", "compensate"} /\ step'[c] = step[c] - 1
      <3>1. NoneLost' => NoneLate'
        BY DEF NoneLost, NoneLate
      <3>2. \A s \in Compensable : s \in Steps
        BY DEF Steps
      <3> QED BY <2>1, <2>4, <2>6, <2>8, <3>1, <3>2 DEF StepsOf, DoneUpTo, NothingAfter, Steps
    <2> QED BY <2>3, <2>7, <2>8
  <1>5. CASE Advance(c)
    <2>1. step[c] \in Steps /\ DoneUpTo(c, step[c]) /\ NothingAfter(c, step[c])
      BY <1>5 DEF Advance, StepsOf
    <2>2. NoneLate => \A s \in Steps : effect[c][s] <= 1
      BY DEF StepsOf
    <2>3. at'[c] = "execute" /\ step'[c] = step[c] + 1 /\ effect' = effect /\ spoilt' = spoilt
      BY <1>5 DEF Advance, SagaGoto, SagaTypeOK
    <2>4. /\ step'[c] \in 1 .. NumSteps + 1
          /\ \A t \in Steps : /\ t <= step'[c] - 1 => effect'[c][t] > 0
                              /\ t > step'[c] - 1 => effect'[c][t] = 0
                              /\ t > step'[c] => effect'[c][t] = 0
      BY <2>1, <2>3 DEF DoneUpTo, NothingAfter, Steps
    <2>5. NoneLate' => \A t \in Steps : effect'[c][t] <= 1
      BY <2>2, <2>3 DEF NoneLate
    <2> QED BY <2>3, <2>4, <2>5, NextExecuted
  <1>6. CASE Complete(c)
    <2>1. DoneUpTo(c, NumSteps)
      BY <1>6 DEF Complete, StepsOf, DoneUpTo, Steps
    <2>2. NoneLate => \A s \in Steps : effect[c][s] <= 1
      BY DEF StepsOf
    <2>3. at'[c] = "returned" /\ step' = step /\ effect' = effect /\ spoilt' = spoilt
      BY <1>6 DEF Complete, SagaGoto, SagaTypeOK
    <2> QED BY <2>1, <2>2, <2>3 DEF StepsOf, DoneUpTo, NoneLate
  <1>7. CASE StoreRaises(c)
    <2>1. /\ step'[c] \in 0 .. NumSteps
          /\ DoneUpTo(c, step'[c]) /\ NothingAfter(c, step'[c])
      BY <1>7 DEF StoreRaises, StepsOf, DoneUpTo, NothingAfter, Steps, SagaTypeOK
    <2>2. (NoneLate' => NoneLate) /\ (NoneLate => \A s \in Steps : effect[c][s] <= 1)
      BY <1>7 DEF StoreRaises, Suffer, NoneLate, StepsOf
    <2>3. at'[c] = "fail" /\ effect' = effect
      BY <1>7 DEF StoreRaises, SagaGoto, SagaTypeOK
    <2> QED BY <2>1, <2>2, <2>3 DEF StepsOf, DoneUpTo, NothingAfter
  <1>8. CASE Fail(c) \/ Compensating(c)
    <2>1. /\ step[c] \in 0 .. NumSteps /\ DoneUpTo(c, step[c])
          /\ NoneLate => NothingAfter(c, step[c])
      BY <1>8 DEF Fail, Compensating, StepsOf
    <2>2. /\ at'[c] \in {"compensating", "compensate", "raised"}
          /\ step' = step /\ effect' = effect
      BY <1>8 DEF Fail, Compensating, SagaGoto, SagaTypeOK
    <2>3. /\ NoneLate' => NoneLate /\ \A s \in Steps : effect[c][s] <= 1
          /\ NoneLost' => NoneLate'
      BY <1>8 DEF Fail, Compensating, Suffer, NoneLate, NoneLost, StepsOf
    <2> QED BY <2>1, <2>2, <2>3 DEF StepsOf, DoneUpTo, NothingAfter, Steps
  <1>9. CASE Compensate(c)
    <2>1. /\ step[c] \in Steps /\ DoneUpTo(c, step[c])
          /\ NoneLost => \A s \in Compensable : s > step[c] => effect[c][s] = 0
      BY <1>9 DEF Compensate, StepsOf, Steps
    <2>2. at'[c] = "compensate" /\ step'[c] = step[c] - 1
      BY <1>9 DEF Compensate, SagaTypeOK
    <2>3. /\ NoneLate' => NoneLate /\ \A s \in Steps : effect[c][s] <= 1
          /\ NoneLost' => NoneLost /\ NoneLate'
      BY <1>9 DEF Compensate, Suffer, NoneLate, NoneLost, StepsOf
    <2>4. /\ step'[c] \in 0 .. NumSteps
          /\ \A t \in Steps : t <= step'[c] => effect'[c][t] > 0
          /\ NoneLost' => \A t \in Compensable : t > step'[c] => effect'[c][t] = 0
          /\ NoneLate' => \A t \in Steps : effect'[c][t] <= 1
      <3>1. CASE step[c] \in Compensable /\ Undo(c, step[c])
        <4>1. /\ effect'[c][step[c]] = effect[c][step[c]] - 1
              /\ \A t \in Steps \ {step[c]} : effect'[c][t] = effect[c][t]
          BY <2>1, <3>1, UndoAt
        <4>2. NoneLost' => effect'[c][step[c]] = 0
          BY <2>1, <2>3, <4>1 DEF DoneUpTo, Steps
        <4>3. \A t \in Compensable : t \in Steps
          BY DEF Steps
        <4>4. step'[c] \in 0 .. NumSteps
          BY <2>1, <2>2 DEF Steps
        <4>5. \A t \in Steps : t <= step'[c] => effect'[c][t] > 0
          <5> TAKE t \in Steps
          <5>1. t <= step'[c] => t # step[c] /\ t <= step[c]
            BY <2>1, <2>2 DEF Steps
          <5> QED BY <2>1, <4>1, <5>1 DEF DoneUpTo
        <4>6. ASSUME NoneLost', NEW t \in Compensable, t > step'[c] PROVE effect'[c][t] = 0
          <5>1. t \in Steps
            BY <4>3, <4>6
          <5>2. t \in Int /\ step[c] \in Int /\ t > step[c] - 1
            BY <2>1, <2>2, <4>6, <5>1, SagaAssumption DEF Steps
          <5>3. t = step[c] \/ t > step[c]
            BY <5>2
          <5> QED BY <2>1, <2>3, <4>1, <4>2, <4>6, <5>1, <5>3
        <4>7. NoneLate' => \A t \in Steps : effect'[c][t] <= 1
          BY <2>1, <2>3, <4>1 DEF Steps
        <4> QED BY <4>4, <4>5, <4>6, <4>7
      <3>2. CASE effect' = effect /\ (step[c] \notin Compensable \/ ~NoneLost')
        <4>1. \A t \in Compensable : t \in Steps
          BY DEF Steps
        <4> QED BY <2>1, <2>2, <2>3, <3>2, <4>1 DEF DoneUpTo, Steps
      <3> QED BY <1>9, <3>1, <3>2 DEF Compensate, Suffer, NoneLost
    <2> QED BY <2>2, <2>4 DEF StepsOf, DoneUpTo
  <1>10. CASE Reraise(c)
    BY <1>10 DEF Reraise, SagaGoto, SagaTypeOK, StepsOf, NoneLate
  <1> QED BY <1>1, <1>2, <1>3, <1>4, <1>5, <1>6, <1>7, <1>8, <1>9, <1>10 DEF Run

-----------------------------------------------------------------------------
(* A record with another status or number of steps is none of NoRow.       *)
LEMMA RowChanges ==
    ASSUME SagaTypeOK, NEW c \in Callers, Owns(c)
    PROVE  /\ \A status \in {"running", "completed", "failed", "compensating"} :
                 row' = [row EXCEPT !.status = status] => Owns(c)' /\ row'.status = status
           /\ \A n \in 0 .. NumSteps :
                 row' = [row EXCEPT !.current_step = n] =>
                     Owns(c)' /\ row'.status = row.status /\ row'.current_step = n
  BY NoRowAssumption DEF SagaTypeOK, Owns

(* Of the calls with the key only the one that made the row goes on.       *)
LEMMA RunStatus ==
    ASSUME SagaTypeOK, NEW c \in Callers, StepsOf(c), RowOf(c), Run(c), c \in keyed
    PROVE  StatusOf(c)'
  <1> USE SagaAssumption
  <1>0. /\ StatusOf(c) /\ step \in [Callers -> 0 .. NumSteps + 1]
        /\ at \in [Callers -> SagaEnded \cup {"start", "create", "execute", "advance", "fail",
                                          "compensating", "compensate"}]
    BY DEF RowOf, SagaTypeOK
  <1>1. CASE Lookup(c)
    BY <1>0, <1>1 DEF Lookup, SagaGoto, StatusOf
  <1>2. CASE Create(c)
    <2>1. step'[c] = 1
      BY <1>2 DEF Create, StepsOf
    <2>2. CASE row = NoRow
      <3>1. row' = [owner |-> c, status |-> "running", current_step |-> 0] /\ at'[c] = "execute"
        BY <1>0, <1>2, <2>2 DEF Create, SagaGoto
      <3>2. row' # NoRow
        BY <3>1, NoRowAssumption
      <3> QED BY <2>1, <3>1, <3>2 DEF StatusOf, Owns
    <2>3. CASE row # NoRow
      BY <1>0, <1>2, <2>3 DEF Create, SagaGoto, StatusOf
    <2> QED BY <2>2, <2>3
  <1>3. CASE Succeed(c)
    BY <1>0, <1>3 DEF Succeed, SagaGoto, StatusOf, Owns
  <1>4. CASE FailedAttempt(c)
    BY <1>0, <1>4 DEF FailedAttempt, SagaGoto, StatusOf, Owns
  <1>5. CASE Advance(c)
    <2>1. Owns(c) /\ row.status = "running" /\ step[c] \in Steps
      BY <1>0, <1>5 DEF Advance, StatusOf, StepsOf
    <2>2. Owns(c)' /\ row'.status = "running" /\ row'.current_step = step[c]
      BY <1>5, <2>1, RowChanges DEF Advance, Steps
    <2>3. at'[c] = "execute" /\ step'[c] - 1 = step[c]
      BY <1>0, <1>5, <2>1 DEF Advance, SagaGoto, Steps
    <2> QED BY <2>2, <2>3 DEF StatusOf
  <1>6. CASE Complete(c)
    <2>1. Owns(c) /\ at'[c] = "returned" /\ row' = [row EXCEPT !.status = "completed"]
      BY <1>0, <1>6 DEF Complete, SagaGoto, StatusOf
    <2>2. Owns(c)' /\ row'.status = "completed"
      BY <2>1, RowChanges
    <2> QED BY <2>1, <2>2 DEF StatusOf
  <1>7. CASE StoreRaises(c)
    BY <1>0, <1>7 DEF StoreRaises, SagaGoto, StatusOf, Owns
  <1>8. CASE Fail(c)
    <2>1. Owns(c)
      BY <1>0, <1>8 DEF Fail, StatusOf
    <2>2. \/ at'[c] = "raised"
          \/ at'[c] = "compensating" /\ Owns(c)' /\ row'.status = "failed"
      BY <1>0, <1>8, <2>1, RowChanges DEF Fail, SagaGoto
    <2> QED BY <2>2 DEF StatusOf
  <1>9. CASE Compensating(c)
    <2>1. Owns(c)
      BY <1>0, <1>9 DEF Compensating, StatusOf
    <2>2. \/ at'[c] = "raised"
          \/ at'[c] = "compensate" /\ Owns(c)' /\ row'.status = "compensating"
      BY <1>0, <1>9, <2>1, RowChanges DEF Compensating, SagaGoto
    <2> QED BY <2>2 DEF StatusOf
  <1>10. CASE Compensate(c)
    BY <1>0, <1>10 DEF Compensate, StatusOf, Owns
  <1>11. CASE Reraise(c)
    BY <1>0, <1>11 DEF Reraise, SagaGoto, StatusOf
  <1> QED BY <1>1, <1>2, <1>3, <1>4, <1>5, <1>6, <1>7, <1>8, <1>9, <1>10, <1>11 DEF Run

LEMMA RunRow ==
    ASSUME SagaTypeOK, NEW c \in Callers, StepsOf(c), RowOf(c), Run(c)
    PROVE  RowOf(c)'
  <1>1. keyed' = keyed
    BY DEF Run
  <1>2. at'[c] \in {"create", "advance", "fail", "compensating", "reused"} => c \in keyed
    BY DEF Run, Lookup, Create, Succeed, FailedAttempt, Advance, Complete, StoreRaises, Fail,
           Compensating, Compensate, Reraise, SagaGoto, RowOf, SagaTypeOK
  <1>3. ASSUME c \in keyed, NEW s \in Steps, effect'[c][s] > 0 PROVE Owns(c)'
    <2>1. StatusOf(c) /\ StatusOf(c)' /\ (effect[c][s] > 0 => Owns(c))
      BY <1>3, RunStatus DEF RowOf
    <2>2. CASE Lookup(c) \/ Create(c)
      <3>1. effect[c][s] = 0 /\ effect' = effect
        BY <2>2 DEF Lookup, Create, StepsOf, NothingAfter, Steps
      <3> QED BY <1>3, <3>1
    <2>3. CASE Reraise(c)
      BY <2>1, <2>3 DEF Reraise, StatusOf, Owns
    <2>4. CASE Fail(c) \/ Compensating(c)
      <3>1. Owns(c)
        BY <2>1, <2>4 DEF Fail, Compensating, StatusOf
      <3> QED BY <2>4, <3>1, RowChanges DEF Fail, Compensating, Owns
    <2>5. CASE \/ Succeed(c) \/ FailedAttempt(c) \/ Advance(c)
               \/ Complete(c) \/ StoreRaises(c) \/ Compensate(c)
      <3>1. at'[c] \in {"execute", "advance", "fail", "compensate", "returned"}
        BY <1>3, <2>5 DEF Succeed, FailedAttempt, Advance, Complete, StoreRaises, Compensate,
              SagaGoto, SagaTypeOK
      <3> QED BY <2>1, <3>1 DEF StatusOf
    <2> QED BY <2>2, <2>3, <2>4, <2>5 DEF Run
  <1> QED BY <1>1, <1>2, <1>3, RunStatus DEF RowOf

(* A step is undone only when no later one is in place any more.           *)
LEMMA RunUndone ==
    ASSUME SagaTypeOK, NEW c \in Callers, StepsOf(c), UndoneOf(c), Run(c)
    PROVE  UndoneOf(c)'
  <1> USE SagaAssumption
  <1> effect[c] \in [Steps -> Nat] /\ step[c] \in 0 .. NumSteps + 1
    BY DEF SagaTypeOK
  <1>1. SUFFICES ASSUME NoneLost', NEW s \in Compensable, NEW t \in Compensable,
                        s < t, effect'[c][t] > 0
                 PROVE  effect'[c][s] > 0
    BY DEF UndoneOf
  <1>2. NoneLost /\ s \in Steps /\ t \in Steps /\ (effect[c][t] > 0 => effect[c][s] > 0)
    <2>1. NoneLost
      BY <1>1, RunLeavesOthers DEF Run, Lookup, Create, Succeed, FailedAttempt, Advance, Complete,
            StoreRaises, Fail, Compensating, Compensate, Reraise, Suffer, NoneLost
    <2> QED BY <1>1, <2>1 DEF UndoneOf, Steps
  <1>3. CASE Succeed(c)
    <2>1. step[c] \in Steps /\ DoneUpTo(c, step[c] - 1) /\ NothingAfter(c, step[c])
      BY <1>3 DEF Succeed, StepsOf
    <2>2. /\ effect'[c][step[c]] = effect[c][step[c]] + 1
          /\ \A u \in Steps \ {step[c]} : effect'[c][u] = effect[c][u]
      BY <1>3, <2>1, DoAt DEF Succeed
    <2>3. t <= step[c]
      <3>1. SUFFICES ASSUME t > step[c] PROVE FALSE
        BY <1>2, <2>1 DEF Steps
      <3>2. effect[c][t] = 0 /\ t # step[c]
        BY <1>2, <2>1, <3>1 DEF NothingAfter, Steps
      <3> QED BY <1>1, <1>2, <2>2, <3>2
    <2>4. s <= step[c] - 1 /\ s # step[c]
      BY <1>1, <1>2, <2>1, <2>3 DEF Steps
    <2>5. effect[c][s] > 0
      BY <1>2, <2>1, <2>4 DEF DoneUpTo
    <2> QED BY <1>2, <2>2, <2>4, <2>5
  <1>4. CASE Compensate(c) /\ step[c] \in Compensable /\ Undo(c, step[c])
    <2>1. /\ step[c] \in Steps /\ DoneUpTo(c, step[c])
          /\ \A u \in Compensable : u > step[c] => effect[c][u] = 0
      BY <1>2, <1>4 DEF Compensate, StepsOf, Steps
    <2>2. /\ effect'[c][step[c]] = effect[c][step[c]] - 1
          /\ \A u \in Steps \ {step[c]} : effect'[c][u] = effect[c][u]
      BY <1>4, <2>1, UndoAt
    <2>3. NoneLate /\ effect[c][step[c]] <= 1
      BY <1>2, <2>1 DEF NoneLost, NoneLate, StepsOf
    <2>4. t # step[c]
      <3>1. effect[c][step[c]] \in Nat
        BY <2>1
      <3>2. ~(effect'[c][step[c]] > 0)
        BY <2>2, <2>3, <3>1
      <3> QED BY <1>1, <3>2
    <2>5. effect[c][t] > 0
      BY <1>1, <1>2, <2>2, <2>4
    <2>6. s <= step[c] /\ s # step[c]
      <3>1. t \in Steps /\ ~(t > step[c])
        BY <1>1, <1>2, <2>1, <2>5
      <3> QED BY <1>1, <1>2, <2>1, <3>1 DEF Steps
    <2> QED BY <1>2, <2>1, <2>2, <2>6 DEF DoneUpTo
  <1>5. CASE effect' = effect
    BY <1>1, <1>2, <1>5
  <1> QED BY <1>1, <1>3, <1>4, <1>5 DEF Run, Lookup, Create, FailedAttempt, Advance, Complete,
          StoreRaises, Fail, Compensating, Compensate, Reraise, Suffer, NoneLost

(* The loop over the completed steps leaves nothing to be undone.          *)
LEMMA RunCleanup ==
    ASSUME SagaTypeOK, NEW c \in Callers, StepsOf(c), CleanupOf(c), Run(c)
    PROVE  CleanupOf(c)'
  <1> USE SagaAssumption
  <1>1. SUFFICES ASSUME spoilt' \cap {"late", "compensate", "store"} = {}, at'[c] = "raised",
                        NEW s \in Compensable
                 PROVE  effect'[c][s] = 0
    BY DEF CleanupOf
  <1>2. CASE Reraise(c)
    BY <1>1, <1>2 DEF Reraise, StepsOf, NoneLost, Steps
  <1>3. ~(Fail(c) \/ Compensating(c))
    BY <1>1 DEF Fail, Compensating, Suffer, SagaGoto, SagaTypeOK
  <1> QED BY <1>1, <1>2, <1>3 DEF Run, Lookup, Create, Succeed, FailedAttempt, Advance, Complete,
          StoreRaises, Compensate, SagaGoto, SagaTypeOK

-----------------------------------------------------------------------------
(* The row under its steps.                                                *)

LEMMA OwnerTyped ==
    ASSUME SagaTypeOK, row # NoRow
    PROVE  row.owner \in Callers /\ row.owner \in keyed /\ row.current_step \in 0 .. NumSteps
  BY DEF SagaTypeOK

LEMMA RunCompleted ==
    ASSUME SagaIInv, NEW c \in Callers, Run(c)
    PROVE  CompletedReturned'
  <1>1. SagaTypeOK /\ StepsOf(c) /\ RowOf(c) /\ CompletedReturned
    BY DEF SagaIInv, CallOf
  <1>2. CASE row' = row
    <2>1. SUFFICES ASSUME row # NoRow, row.status = "completed"
                   PROVE  at'[row.owner] = "returned"
      BY <1>2 DEF CompletedReturned
    <2>2. at[row.owner] = "returned" /\ row.owner \in Callers
      BY <1>1, <2>1, OwnerTyped DEF CompletedReturned
    <2>3. at[c] # "returned"
      BY DEF Run, Lookup, Create, Succeed, FailedAttempt, Advance, Complete, StoreRaises, Fail,
             Compensating, Compensate, Reraise
    <2>4. SameAt(row.owner)
      BY <2>2, <2>3, RunLeavesOthers
    <2> QED BY <2>2, <2>4 DEF SameAt
  <1>3. CASE Create(c) /\ row = NoRow
    <2>1. row'.status = "running"
      BY <1>3 DEF Create
    <2> QED BY <2>1 DEF CompletedReturned
  <1>4. CASE Advance(c)
    <2>1. Owns(c) /\ row.status = "running" /\ step[c] \in 0 .. NumSteps
      BY <1>1, <1>4 DEF Advance, RowOf, StatusOf, StepsOf, Steps
    <2>2. row'.status = "running"
      BY <1>1, <1>4, <2>1, RowChanges DEF Advance
    <2> QED BY <2>2 DEF CompletedReturned
  <1>5. CASE Complete(c) /\ c \in keyed
    <2>1. Owns(c)
      BY <1>1, <1>5 DEF Complete, RowOf, StatusOf
    <2>2. Owns(c)' /\ at'[c] = "returned"
      BY <1>1, <1>5, <2>1, RowChanges DEF Complete, SagaGoto, SagaTypeOK
    <2> QED BY <2>2 DEF Owns, CompletedReturned
  <1>6. CASE Fail(c) \/ Compensating(c)
    <2>1. Owns(c)
      BY <1>1, <1>6 DEF Fail, Compensating, RowOf, StatusOf
    <2> QED BY <1>1, <1>2, <1>6, <2>1, RowChanges DEF Fail, Compensating, CompletedReturned
  <1> QED BY <1>2, <1>3, <1>4, <1>5, <1>6 DEF Run, Lookup, Create, Succeed, FailedAttempt, Complete,
          StoreRaises, Compensate, Reraise

LEMMA RunProgress ==
    ASSUME SagaIInv, NEW c \in Callers, Run(c)
    PROVE  RowTellsProgress'
  <1> USE SagaAssumption
  <1>1. /\ SagaTypeOK /\ StepsOf(c) /\ RowOf(c) /\ RowTellsProgress
        /\ effect[c] \in [Steps -> Nat] /\ step[c] \in 0 .. NumSteps + 1
    BY DEF SagaIInv, CallOf, SagaTypeOK
  <1>2. CASE row' = row
    <2>1. SUFFICES ASSUME row # NoRow, row.status = "running", NEW s \in Steps
                   PROVE  /\ s <= row.current_step => effect'[row.owner][s] > 0
                          /\ s > row.current_step + 1 => effect'[row.owner][s] = 0
      BY <1>2 DEF RowTellsProgress
    <2>2. /\ s <= row.current_step => effect[row.owner][s] > 0
          /\ s > row.current_step + 1 => effect[row.owner][s] = 0
          /\ row.owner \in Callers /\ row.owner \in keyed
      BY <1>1, <2>1, OwnerTyped DEF RowTellsProgress
    <2>3. CASE row.owner # c
      <3>1. SameAt(row.owner)
        BY <2>2, <2>3, RunLeavesOthers
      <3> QED BY <2>2, <3>1 DEF SameAt
    <2>4. CASE effect' = effect
      BY <2>2, <2>4
    <2>5. CASE row.owner = c /\ at[c] = "execute" /\ step[c] \in Steps /\ Do(c, step[c])
      <3>1. row.current_step = step[c] - 1
        BY <1>1, <2>2, <2>5 DEF RowOf, StatusOf
      <3>2. /\ effect'[c][step[c]] = effect[c][step[c]] + 1
            /\ \A t \in Steps \ {step[c]} : effect'[c][t] = effect[c][t]
        BY <1>1, <2>5, DoAt
      <3>3. /\ s <= row.current_step => s # step[c]
            /\ s > row.current_step + 1 => s # step[c]
        BY <1>1, <2>2, <2>5, <3>1 DEF Steps
      <3> QED BY <2>2, <2>5, <3>2, <3>3
    <2>6. ~(row.owner = c /\ at[c] = "compensate")
      BY <1>1, <2>1, <2>2 DEF RowOf, StatusOf
    <2> QED BY <2>3, <2>4, <2>5, <2>6 DEF Run, Lookup, Create, Succeed, FailedAttempt, Advance,
            Complete, StoreRaises, Fail, Compensating, Compensate, Reraise
  <1>3. CASE Create(c) /\ row = NoRow
    BY <1>1, <1>3 DEF Create, RowTellsProgress, StepsOf, NothingAfter, Steps
  <1>4. CASE Advance(c)
    <2>1. Owns(c) /\ step[c] \in 0 .. NumSteps /\ DoneUpTo(c, step[c]) /\ NothingAfter(c, step[c])
      BY <1>1, <1>4 DEF Advance, RowOf, StatusOf, StepsOf, Steps
    <2>2. row'.owner = c /\ row'.current_step = step[c] /\ effect' = effect
      BY <1>1, <1>4, <2>1, RowChanges DEF Advance, Owns
    <2> QED BY <2>1, <2>2 DEF RowTellsProgress, DoneUpTo, NothingAfter, Steps
  <1>5. CASE (Complete(c) /\ c \in keyed) \/ Fail(c) \/ Compensating(c)
    <2>1. Owns(c)
      BY <1>1, <1>5 DEF Complete, Fail, Compensating, RowOf, StatusOf
    <2>2. row' = row \/ row'.status # "running"
      BY <1>1, <1>5, <2>1, RowChanges DEF Complete, Fail, Compensating
    <2> QED BY <1>2, <2>2 DEF RowTellsProgress
  <1> QED BY <1>2, <1>3, <1>4, <1>5 DEF Run, Lookup, Create, Succeed, FailedAttempt, Complete,
          StoreRaises, Compensate, Reraise

-----------------------------------------------------------------------------
(* The process dies: what it did stays.                                    *)

LEMMA CrashIInv ==
    ASSUME SagaIInv, SagaCrash
    PROVE  SagaIInv'
  <1>1. /\ spoilt' = spoilt \cup {"crash"} /\ spoilt' \subseteq SagaFaults
        /\ UNCHANGED <<keyed, row, step, tries, effect>>
    BY DEF SagaIInv, SagaTypeOK, SagaCrash, Suffer
  <1>2. \A c \in Callers : at'[c] = "dead" \/ at'[c] = at[c]
    BY DEF SagaCrash
  <1>3. SagaTypeOK'
    BY <1>1 DEF SagaIInv, SagaTypeOK, SagaCrash, SagaEnded
  <1>4. ASSUME NEW c \in Callers PROVE CallOf(c)'
    <2>1. CallOf(c)
      BY DEF SagaIInv
    <2>2. /\ (NoneLate' => NoneLate) /\ (NoneLost' => NoneLost)
          /\ at'[c] = "dead" \/ at'[c] = at[c]
      BY <1>1, <1>2 DEF NoneLate, NoneLost
    <2>3. StepsOf(c)'
      BY <1>1, <2>1, <2>2 DEF CallOf, StepsOf, DoneUpTo, NothingAfter
    <2>4. RowOf(c)'
      BY <1>1, <2>1, <2>2 DEF CallOf, RowOf, StatusOf, Owns
    <2>5. UndoneOf(c)' /\ CleanupOf(c)'
      BY <1>1, <2>1, <2>2 DEF CallOf, UndoneOf, CleanupOf
    <2> QED BY <2>3, <2>4, <2>5 DEF CallOf
  <1>5. CompletedReturned'
    <2>1. \A c \in Callers : at[c] = "returned" => at'[c] = "returned"
      BY DEF SagaCrash, SagaEnded
    <2> QED BY <1>1, <2>1, OwnerTyped DEF SagaIInv, CompletedReturned
  <1>6. RowTellsProgress'
    BY <1>1 DEF SagaIInv, RowTellsProgress
  <1> QED BY <1>3, <1>4, <1>5, <1>6 DEF SagaIInv

-----------------------------------------------------------------------------
(* The invariant, and the theorems.                                        *)

LEMMA SagaInductive == SagaIInv /\ [SagaNext]_sagaVars => SagaIInv'
  <1> SUFFICES ASSUME SagaIInv, [SagaNext]_sagaVars PROVE SagaIInv'
    OBVIOUS
  <1>1. ASSUME NEW c \in Callers, Run(c) PROVE SagaIInv'
    <2>1. SagaTypeOK /\ CallOf(c)
      BY DEF SagaIInv
    <2>2. SagaTypeOK'
      BY <1>1, <2>1, RunTyped DEF CallOf
    <2>3. CallOf(c)'
      BY <1>1, <2>1, RunSteps, RunRow, RunUndone, RunCleanup DEF CallOf
    <2>4. ASSUME NEW d \in Callers \ {c} PROVE CallOf(d)'
      BY <1>1, RunLeavesOthers, OthersKeep DEF SagaIInv
    <2>5. CompletedReturned' /\ RowTellsProgress'
      BY <1>1, RunCompleted, RunProgress
    <2> QED BY <2>2, <2>3, <2>4, <2>5 DEF SagaIInv
  <1>2. CASE SagaCrash
    BY <1>2, CrashIInv
  <1>3. CASE UNCHANGED sagaVars
    BY <1>3 DEF sagaVars, SagaIInv, SagaTypeOK, CallOf, StepsOf, RowOf, StatusOf, Owns, UndoneOf,
           CleanupOf, CompletedReturned, RowTellsProgress, DoneUpTo, NothingAfter, NoneLate, NoneLost
  <1> QED BY <1>1, <1>2, <1>3 DEF SagaNext

LEMMA Invariant == SagaSpec => []SagaIInv
  BY SagaInitial, SagaInductive, PTL DEF SagaSpec

(* ADR-003, "Idempotency keys for exactly-once semantics": for any number  *)
(* of calls with the key, steps and retries, and under every fault but a   *)
(* late answer, a step's effect is never in place twice.                   *)
THEOREM EffectsOnce == SagaSpec => []NeverTwice
  <1>1. SagaIInv => NeverTwice
    <2> SUFFICES ASSUME SagaIInv, NoneLate, NEW s \in Steps,
                        NEW c \in InPlace(s), NEW d \in InPlace(s)
                 PROVE  c = d /\ effect[c][s] = 1
      BY DEF NeverTwice, NoneLate
    <2>1. /\ c \in keyed /\ d \in keyed /\ effect[c][s] > 0 /\ effect[d][s] > 0
          /\ keyed \subseteq Callers
      BY DEF InPlace, SagaIInv, SagaTypeOK
    <2>2. Owns(c) /\ Owns(d)
      BY <2>1 DEF SagaIInv, CallOf, RowOf
    <2>3. effect[c][s] \in Nat /\ effect[c][s] <= 1
      BY <2>1 DEF SagaIInv, SagaTypeOK, CallOf, StepsOf
    <2> QED BY <2>1, <2>2, <2>3 DEF Owns
  <1> QED BY <1>1, Invariant, PTL

(* ADR-003, "reverse-order compensation" and "Automatic cleanup on         *)
(* failure": what is undone is undone in reverse, and when run has raised  *)
(* all of it is, whichever steps can be undone.                            *)
THEOREM FailuresUndone == SagaSpec => []EffectsUndone
  <1>1. SagaIInv => EffectsUndone
    BY DEF SagaIInv, CallOf, UndoneOf, CleanupOf, NoneLost, EffectsUndone, UndoneInReverse, Cleanup
  <1> QED BY <1>1, Invariant, PTL

(* What the row says, what callers are told and what is in place agree,    *)
(* after any crashes and failures of the store.                            *)
THEOREM RowIsTrue == SagaSpec => []RowAndAnswersTrue
  <1>1. SagaIInv => RowAndAnswersTrue
    <2> SUFFICES ASSUME SagaIInv PROVE RowAndAnswersTrue
      OBVIOUS
    <2>1. \A c \in Callers, s \in Steps : at[c] = "returned" => effect[c][s] > 0
      BY SagaAssumption DEF SagaIInv, CallOf, StepsOf, DoneUpTo, Steps
    <2>2. row # NoRow /\ row.status = "completed" =>
              row.owner \in keyed /\ \A s \in Steps : effect[row.owner][s] > 0
      BY <2>1, OwnerTyped DEF SagaIInv, CompletedReturned
    <2>3. \A c \in Callers : at[c] = "reused" => row # NoRow /\ row.status = "completed"
      BY DEF SagaIInv, CallOf, RowOf, StatusOf
    <2>4. AnsweredIsDone
      BY <2>1, <2>2, <2>3 DEF AnsweredIsDone, InPlace
    <2> QED BY <2>4 DEF SagaIInv, RowAndAnswersTrue
  <1> QED BY <1>1, Invariant, PTL

(* Nothing is undone that was not done, and no call goes beyond its steps  *)
(* and retries.                                                            *)
THEOREM SagaTypeCorrect == SagaSpec => []SagaTypeOK
  <1>1. SagaIInv => SagaTypeOK
    BY DEF SagaIInv
  <1> QED BY <1>1, Invariant, PTL

-----------------------------------------------------------------------------
(***************************************************************************)
(* The session runner.                                                     *)
(***************************************************************************)

(* The inductive invariant.                                                *)

BeforeReport == {"create_session", "simulate", "next_hand", "append_batch", "commit"}
Reporting == {"open_report", "write_report", "update_summary"}
Working == {"simulate", "next_hand", "append_batch", "commit", "open_report", "write_report",
            "update_summary", "delete"}

(* What is stored of a session: nothing, or its hands before the next one, *)
(* each with its batch.                                                    *)
StoredOf(s) ==
    /\ batches[s] = hands[s]
    /\ hands[s] = IF rows[s] = "none" THEN {} ELSE 1 .. next[s] - 1

(* Another session took the name of the session's report.                  *)
Shared(s) == \E t \in Sessions \ {s} : named[t] = named[s]

(* How far the call is tells what its row and its transaction are.         *)
StageOf(s) ==
    /\ stage[s] \in {"create_session", "raised"} => rows[s] = "none"
    /\ stage[s] \in Working => rows[s] = "open"
    /\ rows[s] = "summarised" => next[s] = NumHands + 1
    /\ stage[s] = "append_batch" => next[s] \in Indices /\ uow[s] = [hands |-> {next[s]}, batches |-> {}]
    /\ stage[s] = "commit" => next[s] \in Indices /\ uow[s] = [hands |-> {next[s]}, batches |-> {next[s]}]
    /\ stage[s] \in Reporting => next[s] = NumHands + 1
    /\ stage[s] = "create_session" => next[s] = 1
    /\ stage[s] \notin {"append_batch", "commit"} => uow[s] = NoWrites

(* And what its report is: the name is given once, the file is emptied     *)
(* before it is written, and what is not the session's own in it is there  *)
(* because another session has the same name.                              *)
ReportOf(s) ==
    /\ stage[s] \in BeforeReport => named[s] = 0
    /\ stage[s] \in Reporting \/ rows[s] = "summarised" => named[s] \in Seconds
    /\ stage[s] = "write_report" => files[named[s]] = Report(s, "part") \/ Shared(s)
    /\ stage[s] = "update_summary" \/ rows[s] = "summarised" =>
          /\ files[named[s]] # NoReport
          /\ files[named[s]] = Report(s, "whole") \/ Shared(s)

IInv == SessionTypeOK /\ \A s \in Sessions : StoredOf(s) /\ StageOf(s) /\ ReportOf(s)

LEMMA InitIInv == SessionInit => IInv
  <1> SUFFICES ASSUME SessionInit PROVE IInv
    OBVIOUS
  <1>1. SessionTypeOK
    BY SessionAssumption DEF SessionInit, SessionTypeOK, SessionEnded, NoWrites, NoReport, Seconds, Indices
  <1>2. ASSUME NEW s \in Sessions PROVE StoredOf(s) /\ StageOf(s) /\ ReportOf(s)
    BY SessionAssumption DEF SessionInit, StoredOf, StageOf, ReportOf, Working, BeforeReport, Reporting
  <1> QED BY <1>1, <1>2 DEF IInv

(* What another session's step leaves alone.                               *)
SameSession(s) ==
    /\ rows'[s] = rows[s] /\ hands'[s] = hands[s] /\ batches'[s] = batches[s]
    /\ uow'[s] = uow[s] /\ stage'[s] = stage[s] /\ next'[s] = next[s] /\ named'[s] = named[s]

(* A name once given stays, and a file is touched only by the sessions of  *)
(* its name, none of which takes it away.                                  *)
NamesStay == \A t \in Sessions : named[t] # 0 => named'[t] = named[t]

FilesStay(s) ==
    \A n \in Seconds : files'[n] # files[n] => n = named[s] /\ files'[n] # NoReport

LEMMA OtherSessionsKeep ==
    ASSUME NEW s \in Sessions, StoredOf(s), StageOf(s), ReportOf(s), SameSession(s), NamesStay,
           files' = files \/ \E t \in Sessions \ {s} : FilesStay(t)
    PROVE  StoredOf(s)' /\ StageOf(s)' /\ ReportOf(s)'
  <1>1. StoredOf(s)'
    BY DEF StoredOf, SameSession
  <1>2. StageOf(s)'
    BY DEF StageOf, SameSession, Working, Indices
  <1>3. named[s] \in Seconds => (Shared(s) => Shared(s)')
    <2> SUFFICES ASSUME named[s] \in Seconds, NEW t \in Sessions \ {s}, named[t] = named[s]
                 PROVE  named'[t] = named'[s]
      BY DEF Shared
    <2>1. named[t] # 0
      BY DEF Seconds
    <2> QED BY <2>1 DEF NamesStay, SameSession
  <1>4. ASSUME named[s] \in Seconds
        PROVE  files'[named[s]] = files[named[s]] \/ (files'[named[s]] # NoReport /\ Shared(s))
    BY <1>4 DEF FilesStay, Shared
  <1>5. ReportOf(s)'
    BY <1>3, <1>4 DEF ReportOf, SameSession, BeforeReport, Reporting, Report
  <1> QED BY <1>1, <1>2, <1>5

(* A step of one call that keeps the types, the other calls and their      *)
(* files keeps the invariant when what the call itself is keeps it.        *)
LEMMA OneCall ==
    ASSUME IInv, NEW s \in Sessions, SessionTypeOK', NamesStay, FilesStay(s),
           \A t \in Sessions \ {s} : SameSession(t),
           StoredOf(s)', StageOf(s)', ReportOf(s)'
    PROVE  IInv'
  <1>1. ASSUME NEW t \in Sessions \ {s} PROVE StoredOf(t)' /\ StageOf(t)' /\ ReportOf(t)'
    BY <1>1, OtherSessionsKeep DEF IInv
  <1> QED BY <1>1 DEF IInv

LEMMA CreateSessionKeeps ==
    ASSUME IInv, NEW s \in Sessions, CreateSession(s)
    PROVE  IInv'
  <1>1. SessionTypeOK /\ StoredOf(s) /\ StageOf(s) /\ ReportOf(s)
    BY DEF IInv
  <1>2. SessionTypeOK'
    <2>1. rows' \in [Sessions -> {"none", "open", "summarised"}]
      BY <1>1 DEF SessionTypeOK, CreateSession
    <2> QED BY <1>1, <2>1 DEF SessionTypeOK, SessionEnded, CreateSession, SessionGoto, Indices, Seconds
  <1>3. \A t \in Sessions \ {s} : SameSession(t)
    BY <1>1 DEF SameSession, SessionTypeOK, CreateSession, SessionGoto
  <1>4. NamesStay /\ FilesStay(s)
    BY <1>1 DEF NamesStay, FilesStay, SessionTypeOK, CreateSession
  <1>5. stage[s] = "create_session" /\ rows[s] = "none" /\ next[s] = 1 /\ hands[s] = {}
        /\ uow[s] = NoWrites
    BY <1>1 DEF CreateSession, StoredOf, StageOf
  <1>6. /\ hands'[s] = hands[s] /\ batches'[s] = batches[s] /\ next'[s] = 1 /\ uow'[s] = NoWrites
        /\ <<stage'[s], rows'[s]>> \in {<<"simulate", "open">>, <<"raised", "none">>}
    BY <1>1, <1>5 DEF CreateSession, SessionGoto, SessionTypeOK
  <1>7. StoredOf(s)' /\ StageOf(s)' /\ ReportOf(s)'
    BY <1>1, <1>5, <1>6 DEF CreateSession, StoredOf, StageOf, ReportOf, Working, BeforeReport, Reporting
  <1> QED BY <1>2, <1>3, <1>4, <1>7, OneCall

LEMMA SimulateKeeps ==
    ASSUME IInv, NEW s \in Sessions, Simulate(s)
    PROVE  IInv'
  <1>1. SessionTypeOK /\ StoredOf(s) /\ StageOf(s) /\ ReportOf(s)
    BY DEF IInv
  <1>2. SessionTypeOK'
    BY <1>1 DEF SessionTypeOK, SessionEnded, Simulate, SessionGoto, Indices, Seconds
  <1>3. \A t \in Sessions \ {s} : SameSession(t)
    BY <1>1 DEF SameSession, SessionTypeOK, Simulate, SessionGoto
  <1>4. NamesStay /\ FilesStay(s)
    BY <1>1 DEF NamesStay, FilesStay, SessionTypeOK, Simulate
  <1>5. stage[s] = "simulate" /\ stage'[s] = "next_hand"
    BY <1>1 DEF Simulate, SessionGoto, SessionTypeOK
  <1>6. StoredOf(s)' /\ StageOf(s)' /\ ReportOf(s)'
    BY <1>1, <1>5 DEF Simulate, StoredOf, StageOf, ReportOf, Working, BeforeReport, Reporting
  <1> QED BY <1>2, <1>3, <1>4, <1>6, OneCall

-----------------------------------------------------------------------------
(* The unit of work of a hand.                                             *)

LEMMA CreateHandKeeps ==
    ASSUME IInv, NEW s \in Sessions, CreateHand(s)
    PROVE  IInv'
  <1>1. SessionTypeOK /\ StoredOf(s) /\ StageOf(s) /\ ReportOf(s)
    BY DEF IInv
  <1>2. stage[s] = "next_hand" /\ next[s] \in Indices /\ uow[s] = NoWrites
    BY <1>1 DEF CreateHand, StageOf
  <1>3. uow' = [uow EXCEPT ![s] = [hands |-> {next[s]}, batches |-> {}]]
    <2>1. [uow[s] EXCEPT !.hands = {next[s]}] = [hands |-> {next[s]}, batches |-> {}]
      BY <1>2 DEF NoWrites
    <2> QED BY <2>1 DEF CreateHand
  <1>4. uow' \in [Sessions -> [hands : SUBSET Indices, batches : SUBSET Indices]]
    BY <1>1, <1>2, <1>3 DEF SessionTypeOK
  <1>5. SessionTypeOK'
    BY <1>1, <1>4 DEF SessionTypeOK, SessionEnded, CreateHand, SessionGoto, Indices, Seconds
  <1>6. \A t \in Sessions \ {s} : SameSession(t)
    BY <1>1, <1>3 DEF SameSession, SessionTypeOK, CreateHand, SessionGoto
  <1>7. NamesStay /\ FilesStay(s)
    BY <1>1 DEF NamesStay, FilesStay, SessionTypeOK, CreateHand
  <1>8. stage'[s] = "append_batch" /\ uow'[s] = [hands |-> {next[s]}, batches |-> {}]
        /\ next' = next /\ rows' = rows /\ hands' = hands /\ batches' = batches
        /\ named' = named /\ files' = files
    BY <1>1, <1>3 DEF CreateHand, SessionGoto, SessionTypeOK
  <1>9. StoredOf(s)' /\ StageOf(s)' /\ ReportOf(s)'
    BY <1>1, <1>2, <1>8 DEF StoredOf, StageOf, ReportOf, Shared, Working, BeforeReport, Reporting
  <1> QED BY <1>5, <1>6, <1>7, <1>9, OneCall

LEMMA AppendHandBatchKeeps ==
    ASSUME IInv, NEW s \in Sessions, AppendHandBatch(s)
    PROVE  IInv'
  <1>1. SessionTypeOK /\ StoredOf(s) /\ StageOf(s) /\ ReportOf(s)
    BY DEF IInv
  <1>2. stage[s] = "append_batch" /\ next[s] \in Indices
        /\ uow[s] = [hands |-> {next[s]}, batches |-> {}]
    BY <1>1 DEF AppendHandBatch, StageOf
  <1>3. uow' = [uow EXCEPT ![s] = [hands |-> {next[s]}, batches |-> {next[s]}]]
    <2>1. [uow[s] EXCEPT !.batches = {next[s]}] = [hands |-> {next[s]}, batches |-> {next[s]}]
      BY <1>2
    <2> QED BY <2>1 DEF AppendHandBatch
  <1>4. uow' \in [Sessions -> [hands : SUBSET Indices, batches : SUBSET Indices]]
    BY <1>1, <1>2, <1>3 DEF SessionTypeOK
  <1>5. SessionTypeOK'
    BY <1>1, <1>4 DEF SessionTypeOK, SessionEnded, AppendHandBatch, SessionGoto, Indices, Seconds
  <1>6. \A t \in Sessions \ {s} : SameSession(t)
    BY <1>1, <1>3 DEF SameSession, SessionTypeOK, AppendHandBatch, SessionGoto
  <1>7. NamesStay /\ FilesStay(s)
    BY <1>1 DEF NamesStay, FilesStay, SessionTypeOK, AppendHandBatch
  <1>8. stage'[s] = "commit" /\ uow'[s] = [hands |-> {next[s]}, batches |-> {next[s]}]
        /\ next' = next /\ rows' = rows /\ hands' = hands /\ batches' = batches
        /\ named' = named /\ files' = files
    BY <1>1, <1>3 DEF AppendHandBatch, SessionGoto, SessionTypeOK
  <1>9. StoredOf(s)' /\ StageOf(s)' /\ ReportOf(s)'
    BY <1>1, <1>2, <1>8 DEF StoredOf, StageOf, ReportOf, Shared, Working, BeforeReport, Reporting
  <1> QED BY <1>5, <1>6, <1>7, <1>9, OneCall

LEMMA CommitKeeps ==
    ASSUME IInv, NEW s \in Sessions, Commit(s)
    PROVE  IInv'
  <1>1. SessionTypeOK /\ StoredOf(s) /\ StageOf(s) /\ ReportOf(s)
    BY DEF IInv
  <1>2. /\ stage[s] = "commit" /\ next[s] \in 1 .. NumHands
        /\ uow[s] = [hands |-> {next[s]}, batches |-> {next[s]}]
        /\ rows[s] = "open" /\ hands[s] = 1 .. next[s] - 1 /\ batches[s] = hands[s]
    BY <1>1 DEF Commit, StoredOf, StageOf, Working, Indices
  <1>3. /\ hands' = [hands EXCEPT ![s] = @ \cup {next[s]}]
        /\ batches' = [batches EXCEPT ![s] = @ \cup {next[s]}]
    BY <1>2 DEF Commit
  <1>4. SessionTypeOK'
    <2>1. hands' \in [Sessions -> SUBSET Indices] /\ batches' \in [Sessions -> SUBSET Indices]
      BY <1>1, <1>2, <1>3 DEF SessionTypeOK, Indices
    <2>2. uow' \in [Sessions -> [hands : SUBSET Indices, batches : SUBSET Indices]]
      BY <1>1 DEF SessionTypeOK, Commit, NoWrites
    <2>3. next' \in [Sessions -> 1 .. NumHands + 1]
      BY <1>1, <1>2, SessionAssumption DEF SessionTypeOK, Commit
    <2> QED BY <1>1, <2>1, <2>2, <2>3 DEF SessionTypeOK, SessionEnded, Commit, SessionGoto, Indices, Seconds
  <1>5. \A t \in Sessions \ {s} : SameSession(t)
    BY <1>1, <1>3 DEF SameSession, SessionTypeOK, Commit, SessionGoto
  <1>6. NamesStay /\ FilesStay(s)
    BY <1>1 DEF NamesStay, FilesStay, SessionTypeOK, Commit
  <1>7. /\ stage'[s] = "next_hand" /\ uow'[s] = NoWrites /\ next'[s] = next[s] + 1
        /\ rows' = rows /\ named' = named /\ files' = files
        /\ hands'[s] = hands[s] \cup {next[s]} /\ batches'[s] = batches[s] \cup {next[s]}
    BY <1>1, <1>3 DEF Commit, SessionGoto, SessionTypeOK
  <1>8. hands'[s] = 1 .. next'[s] - 1
    BY <1>2, <1>7, SessionAssumption
  <1>9. StoredOf(s)' /\ StageOf(s)' /\ ReportOf(s)'
    BY <1>2, <1>7, <1>8 DEF StoredOf, StageOf, ReportOf, Shared, Working, BeforeReport, Reporting
  <1> QED BY <1>4, <1>5, <1>6, <1>9, OneCall

-----------------------------------------------------------------------------
(* The report and the summary.                                             *)

LEMMA StampReportKeeps ==
    ASSUME IInv, NEW s \in Sessions, StampReport(s)
    PROVE  IInv'
  <1>1. SessionTypeOK /\ StoredOf(s) /\ StageOf(s) /\ ReportOf(s)
    BY DEF IInv
  <1>2. stage[s] = "next_hand" /\ next[s] = NumHands + 1 /\ uow[s] = NoWrites /\ rows[s] = "open"
    BY <1>1, SessionAssumption DEF StampReport, StageOf, SessionTypeOK, Working
  <1>3. SessionTypeOK'
    <2>1. named' \in [Sessions -> 0 .. MaxSeconds]
      BY <1>1, SessionAssumption DEF SessionTypeOK, StampReport, Seconds
    <2> QED BY <1>1, <2>1 DEF SessionTypeOK, SessionEnded, StampReport, SessionGoto, Indices, Seconds
  <1>4. \A t \in Sessions \ {s} : SameSession(t)
    BY <1>1 DEF SameSession, SessionTypeOK, StampReport, SessionGoto
  <1>5. named[s] = 0
    BY <1>1, <1>2 DEF ReportOf, BeforeReport
  <1>6. NamesStay /\ FilesStay(s)
    BY <1>1, <1>5 DEF NamesStay, FilesStay, SessionTypeOK, StampReport
  <1>7. /\ stage'[s] = "open_report" /\ named'[s] \in Seconds /\ next' = next /\ rows' = rows
        /\ hands' = hands /\ batches' = batches /\ uow' = uow
    BY <1>1 DEF StampReport, SessionGoto, SessionTypeOK
  <1>8. StoredOf(s)' /\ StageOf(s)'
    BY <1>1, <1>2, <1>7 DEF StoredOf, StageOf, Working, Reporting
  <1>9. ReportOf(s)'
    BY <1>2, <1>7 DEF ReportOf, BeforeReport, Reporting
  <1> QED BY <1>3, <1>4, <1>6, <1>8, <1>9, OneCall

LEMMA OpenReportFileKeeps ==
    ASSUME IInv, NEW s \in Sessions, OpenReportFile(s)
    PROVE  IInv'
  <1>1. SessionTypeOK /\ StoredOf(s) /\ StageOf(s) /\ ReportOf(s)
    BY DEF IInv
  <1>2. /\ stage[s] = "open_report" /\ next[s] = NumHands + 1 /\ named[s] \in Seconds
        /\ uow[s] = NoWrites /\ rows[s] = "open"
    BY <1>1 DEF OpenReportFile, StageOf, ReportOf, Working, Reporting
  <1>3. files' = [files EXCEPT ![named[s]] = Report(s, "part")]
    BY DEF OpenReportFile
  <1>4. SessionTypeOK'
    <2>1. files' \in [Seconds -> [by : Sessions \cup {Nobody},
                                  holds : {"nothing", "part", "mixed", "whole"}]]
      BY <1>1, <1>2, <1>3 DEF SessionTypeOK, Report
    <2> QED BY <1>1, <2>1 DEF SessionTypeOK, SessionEnded, OpenReportFile, SessionGoto, Indices, Seconds
  <1>5. \A t \in Sessions \ {s} : SameSession(t)
    BY <1>1 DEF SameSession, SessionTypeOK, OpenReportFile, SessionGoto
  <1>6. files'[named[s]] = Report(s, "part") /\ named' = named
    BY <1>1, <1>2, <1>3 DEF SessionTypeOK, OpenReportFile
  <1>7. NamesStay /\ FilesStay(s)
    <2>1. Report(s, "part") # NoReport
      BY NobodyAssumption DEF Report, NoReport
    <2> QED BY <1>1, <1>3, <1>6, <2>1 DEF NamesStay, FilesStay, SessionTypeOK
  <1>8. /\ stage'[s] = "write_report" /\ next' = next /\ rows' = rows
        /\ hands' = hands /\ batches' = batches /\ uow' = uow
    BY <1>1 DEF OpenReportFile, SessionGoto, SessionTypeOK
  <1>9. StoredOf(s)' /\ StageOf(s)'
    BY <1>1, <1>2, <1>8 DEF StoredOf, StageOf, Working, Reporting
  <1>10. ReportOf(s)'
    BY <1>2, <1>6, <1>8 DEF ReportOf, BeforeReport, Reporting
  <1> QED BY <1>4, <1>5, <1>7, <1>9, <1>10, OneCall

LEMMA WriteReportKeeps ==
    ASSUME IInv, NEW s \in Sessions, WriteReport(s)
    PROVE  IInv'
  <1>1. SessionTypeOK /\ StoredOf(s) /\ StageOf(s) /\ ReportOf(s)
    BY DEF IInv
  <1>2. /\ stage[s] = "write_report" /\ next[s] = NumHands + 1 /\ named[s] \in Seconds
        /\ uow[s] = NoWrites /\ rows[s] = "open"
        /\ files[named[s]] = Report(s, "part") \/ Shared(s)
    BY <1>1 DEF WriteReport, StageOf, ReportOf, Working, Reporting
  <1>3. PICK outcome \in {"whole", "mixed"} :
          /\ files' = [files EXCEPT ![named[s]] = Report(s, outcome)]
          /\ files[named[s]] = Report(s, "part") => outcome = "whole"
    BY DEF WriteReport
  <1>4. SessionTypeOK'
    <2>1. files' \in [Seconds -> [by : Sessions \cup {Nobody},
                                  holds : {"nothing", "part", "mixed", "whole"}]]
      BY <1>1, <1>2, <1>3 DEF SessionTypeOK, Report
    <2> QED BY <1>1, <2>1 DEF SessionTypeOK, SessionEnded, WriteReport, SessionGoto, Indices, Seconds
  <1>5. \A t \in Sessions \ {s} : SameSession(t)
    BY <1>1 DEF SameSession, SessionTypeOK, WriteReport, SessionGoto
  <1>6. files'[named[s]] = Report(s, outcome) /\ named' = named
    BY <1>1, <1>2, <1>3 DEF SessionTypeOK, WriteReport
  <1>7. Report(s, outcome) # NoReport
    BY NobodyAssumption DEF Report, NoReport
  <1>8. NamesStay /\ FilesStay(s)
    BY <1>1, <1>3, <1>6, <1>7 DEF NamesStay, FilesStay, SessionTypeOK
  <1>9. /\ stage'[s] = "update_summary" /\ next' = next /\ rows' = rows
        /\ hands' = hands /\ batches' = batches /\ uow' = uow
    BY <1>1 DEF WriteReport, SessionGoto, SessionTypeOK
  <1>10. StoredOf(s)' /\ StageOf(s)'
    BY <1>1, <1>2, <1>9 DEF StoredOf, StageOf, Working, Reporting
  <1>11. files'[named'[s]] = Report(s, "whole") \/ Shared(s)'
    <2>1. Shared(s) => Shared(s)'
      BY <1>6 DEF Shared
    <2> QED BY <1>2, <1>3, <1>6, <2>1
  <1>12. ReportOf(s)'
    BY <1>2, <1>6, <1>7, <1>9, <1>11 DEF ReportOf, BeforeReport, Reporting
  <1> QED BY <1>4, <1>5, <1>8, <1>10, <1>12, OneCall

LEMMA UpdateSummaryKeeps ==
    ASSUME IInv, NEW s \in Sessions, UpdateSummary(s)
    PROVE  IInv'
  <1>1. SessionTypeOK /\ StoredOf(s) /\ StageOf(s) /\ ReportOf(s)
    BY DEF IInv
  <1>2. /\ stage[s] = "update_summary" /\ next[s] = NumHands + 1 /\ named[s] \in Seconds
        /\ uow[s] = NoWrites /\ rows[s] = "open" /\ files[named[s]] # NoReport
        /\ files[named[s]] = Report(s, "whole") \/ Shared(s)
    BY <1>1 DEF UpdateSummary, StageOf, ReportOf, Working, Reporting
  <1>3. SessionTypeOK'
    <2>1. rows' \in [Sessions -> {"none", "open", "summarised"}]
      BY <1>1 DEF SessionTypeOK, UpdateSummary
    <2> QED BY <1>1, <2>1 DEF SessionTypeOK, SessionEnded, UpdateSummary, SessionGoto, Indices, Seconds
  <1>4. \A t \in Sessions \ {s} : SameSession(t)
    BY <1>1 DEF SameSession, SessionTypeOK, UpdateSummary, SessionGoto
  <1>5. NamesStay /\ FilesStay(s)
    BY <1>1 DEF NamesStay, FilesStay, SessionTypeOK, UpdateSummary
  <1>6. /\ stage'[s] = "returned" /\ rows'[s] = "summarised" /\ named' = named /\ next' = next
        /\ hands' = hands /\ batches' = batches /\ uow' = uow /\ files' = files
    BY <1>1 DEF UpdateSummary, SessionGoto, SessionTypeOK
  <1>7. StoredOf(s)' /\ StageOf(s)' /\ ReportOf(s)'
    BY <1>1, <1>2, <1>6 DEF StoredOf, StageOf, ReportOf, Shared, Working, BeforeReport, Reporting
  <1> QED BY <1>3, <1>4, <1>5, <1>7, OneCall

-----------------------------------------------------------------------------
(* Errors, the compensation, crashes and time.                             *)

LEMMA RaiseKeeps ==
    ASSUME IInv, NEW s \in Sessions, Raise(s)
    PROVE  IInv'
  <1>1. SessionTypeOK /\ StoredOf(s) /\ StageOf(s) /\ ReportOf(s)
    BY DEF IInv
  <1>2. stage[s] \in Working \ {"delete"}
    BY <1>1 DEF Raise, SessionTypeOK, SessionEnded, Working
  <1>3. rows[s] = "open"
    BY <1>1, <1>2 DEF StageOf
  <1>4. SessionTypeOK'
    <2>1. uow' \in [Sessions -> [hands : SUBSET Indices, batches : SUBSET Indices]]
      BY <1>1 DEF SessionTypeOK, Raise, NoWrites
    <2> QED BY <1>1, <2>1 DEF SessionTypeOK, SessionEnded, Raise, SessionGoto, Indices, Seconds
  <1>5. \A t \in Sessions \ {s} : SameSession(t)
    BY <1>1 DEF SameSession, SessionTypeOK, Raise, SessionGoto
  <1>6. NamesStay /\ FilesStay(s)
    BY <1>1 DEF NamesStay, FilesStay, SessionTypeOK, Raise
  <1>7. /\ stage'[s] = "delete" /\ rows' = rows /\ named' = named /\ next' = next
        /\ hands' = hands /\ batches' = batches /\ uow'[s] = NoWrites /\ files' = files
    BY <1>1 DEF Raise, SessionGoto, SessionTypeOK
  <1>8. StoredOf(s)' /\ StageOf(s)' /\ ReportOf(s)'
    BY <1>1, <1>3, <1>7 DEF StoredOf, StageOf, ReportOf, Shared, Working, BeforeReport, Reporting
  <1> QED BY <1>4, <1>5, <1>6, <1>8, OneCall

LEMMA DeleteSessionDataKeeps ==
    ASSUME IInv, NEW s \in Sessions, DeleteSessionData(s)
    PROVE  IInv'
  <1>1. SessionTypeOK /\ StoredOf(s) /\ StageOf(s) /\ ReportOf(s)
    BY DEF IInv
  <1>2. stage[s] = "delete" /\ uow[s] = NoWrites /\ rows[s] = "open"
    BY <1>1 DEF DeleteSessionData, StageOf, Working
  <1>3. SessionTypeOK'
    <2>1. rows' \in [Sessions -> {"none", "open", "summarised"}]
      BY <1>1 DEF SessionTypeOK, DeleteSessionData
    <2>2. hands' \in [Sessions -> SUBSET Indices] /\ batches' \in [Sessions -> SUBSET Indices]
      BY <1>1 DEF SessionTypeOK, DeleteSessionData
    <2>3. stage' \in [Sessions -> SessionEnded \cup
                     {"create_session", "simulate", "next_hand", "append_batch", "commit",
                      "open_report", "write_report", "update_summary", "delete"}]
      BY <1>1 DEF SessionTypeOK, DeleteSessionData, SessionGoto, SessionEnded
    <2> QED BY <1>1, <2>1, <2>2, <2>3 DEF SessionTypeOK, DeleteSessionData
  <1>4. \A t \in Sessions \ {s} : SameSession(t)
    BY <1>1 DEF SameSession, SessionTypeOK, DeleteSessionData, SessionGoto
  <1>5. NamesStay /\ FilesStay(s)
    BY <1>1 DEF NamesStay, FilesStay, SessionTypeOK, DeleteSessionData
  <1>6. /\ named' = named /\ next' = next /\ uow' = uow /\ files' = files
        /\ \/ /\ stage'[s] = "raised" /\ rows'[s] = "none"
              /\ hands'[s] = {} /\ batches'[s] = {}
           \/ stage'[s] = "leftover" /\ rows' = rows /\ hands' = hands /\ batches' = batches
    BY <1>1 DEF DeleteSessionData, SessionGoto, SessionTypeOK
  <1>7. StoredOf(s)' /\ StageOf(s)' /\ ReportOf(s)'
    BY <1>1, <1>2, <1>6 DEF StoredOf, StageOf, ReportOf, Shared, Working, BeforeReport, Reporting
  <1> QED BY <1>3, <1>4, <1>5, <1>7, OneCall

LEMMA SessionCrashKeeps ==
    ASSUME IInv, SessionCrash
    PROVE  IInv'
  <1>1. SessionTypeOK
    BY DEF IInv
  <1>2. SessionTypeOK'
    <2>1. uow' \in [Sessions -> [hands : SUBSET Indices, batches : SUBSET Indices]]
      BY DEF SessionCrash, NoWrites
    <2>2. stage' \in [Sessions -> SessionEnded \cup
                     {"create_session", "simulate", "next_hand", "append_batch", "commit",
                      "open_report", "write_report", "update_summary", "delete"}]
      BY DEF SessionCrash, SessionEnded
    <2> QED BY <1>1, <2>1, <2>2 DEF SessionTypeOK, SessionCrash
  <1>3. ASSUME NEW s \in Sessions PROVE StoredOf(s)' /\ StageOf(s)' /\ ReportOf(s)'
    <2>1. StoredOf(s) /\ StageOf(s) /\ ReportOf(s)
      BY DEF IInv
    <2>2. /\ uow'[s] = NoWrites
          /\ \/ stage[s] \in SessionEnded /\ stage'[s] = stage[s]
             \/ stage'[s] = "dead"
          /\ rows' = rows /\ hands' = hands /\ batches' = batches /\ next' = next
          /\ named' = named /\ files' = files
      BY DEF SessionCrash
    <2>3. StoredOf(s)' /\ StageOf(s)'
      BY <2>1, <2>2 DEF StoredOf, StageOf, Working, Reporting, SessionEnded
    <2>4. Shared(s) => Shared(s)'
      BY <2>2 DEF Shared
    <2>5. stage'[s] \notin BeforeReport \cup Reporting
      BY <2>2 DEF BeforeReport, Reporting, SessionEnded
    <2>6. ReportOf(s)'
      BY <2>1, <2>2, <2>4, <2>5 DEF ReportOf, Reporting
    <2> QED BY <2>3, <2>6
  <1> QED BY <1>2, <1>3 DEF IInv

LEMMA TickKeeps ==
    ASSUME IInv, Tick
    PROVE  IInv'
  <1>1. SessionTypeOK'
    BY SessionAssumption DEF IInv, SessionTypeOK, Tick, Seconds
  <1>2. ASSUME NEW s \in Sessions PROVE StoredOf(s)' /\ StageOf(s)' /\ ReportOf(s)'
    BY OtherSessionsKeep DEF IInv, SameSession, NamesStay, Tick
  <1> QED BY <1>1, <1>2 DEF IInv

LEMMA NextIInv == IInv /\ [SessionNext]_sessionVars => IInv'
  <1> SUFFICES ASSUME IInv, [SessionNext]_sessionVars PROVE IInv'
    OBVIOUS
  <1>1. CASE SessionCrash
    BY <1>1, SessionCrashKeeps
  <1>2. CASE Tick
    BY <1>2, TickKeeps
  <1>3. ASSUME NEW s \in Sessions, SessionStep(s) PROVE IInv'
    BY <1>3, CreateSessionKeeps, SimulateKeeps, CreateHandKeeps, AppendHandBatchKeeps, CommitKeeps,
       StampReportKeeps, OpenReportFileKeeps, WriteReportKeeps, UpdateSummaryKeeps, DeleteSessionDataKeeps DEF SessionStep
  <1>4. ASSUME NEW s \in Sessions, Raise(s) PROVE IInv'
    BY <1>4, RaiseKeeps
  <1>5. CASE UNCHANGED sessionVars
    <2>1. SessionTypeOK'
      BY <1>5 DEF IInv, SessionTypeOK, sessionVars
    <2>2. ASSUME NEW s \in Sessions PROVE StoredOf(s)' /\ StageOf(s)' /\ ReportOf(s)'
      BY <1>5, OtherSessionsKeep DEF IInv, SameSession, NamesStay, sessionVars
    <2> QED BY <2>1, <2>2 DEF IInv
  <1> QED BY <1>1, <1>2, <1>3, <1>4, <1>5 DEF SessionNext

-----------------------------------------------------------------------------
(* What follows from it.                                                   *)

LEMMA IInvReaders == IInv => ReadersSeeWhole
  <1> SUFFICES ASSUME IInv, NEW s \in Sessions
      PROVE /\ hands[s] = batches[s]
            /\ hands[s] = 1 .. Cardinality(hands[s])
            /\ rows[s] = "none" => hands[s] = {}
            /\ rows[s] = "summarised" =>
                  /\ hands[s] = Indices
                  /\ files[named[s]] # NoReport
                  /\ files[named[s]] = Report(s, "whole") \/ Shared(s)
    BY DEF ReadersSeeWhole, Shared
  <1>1. StoredOf(s) /\ StageOf(s) /\ ReportOf(s) /\ next[s] \in 1 .. NumHands + 1
    BY DEF IInv, SessionTypeOK
  <1>2. hands[s] = 1 .. Cardinality(hands[s])
    <2>1. PICK n \in Nat : hands[s] = 1 .. n
      <3>1. CASE rows[s] = "none"
        <4>1. hands[s] = 1 .. 0
          BY <1>1, <3>1 DEF StoredOf
        <4> QED BY <4>1
      <3>2. CASE rows[s] # "none"
        <4>1. next[s] - 1 \in Nat
          BY <1>1, SessionAssumption
        <4> QED BY <1>1, <3>2, <4>1 DEF StoredOf
      <3> QED BY <3>1, <3>2
    <2>2. Cardinality(1 .. n) = IF 1 > n THEN 0 ELSE n - 1 + 1
      BY <2>1, FS_Interval
    <2>3. Cardinality(1 .. n) = n
      BY <2>1, <2>2
    <2> QED BY <2>1, <2>3
  <1>3. rows[s] = "summarised" => hands[s] = Indices
    <2> SUFFICES ASSUME rows[s] = "summarised" PROVE hands[s] = Indices
      OBVIOUS
    <2>1. hands[s] = 1 .. next[s] - 1 /\ next[s] = NumHands + 1
      BY <1>1 DEF StoredOf, StageOf
    <2> QED BY <2>1, SessionAssumption DEF Indices
  <1> QED BY <1>1, <1>2, <1>3 DEF StoredOf, ReportOf

(* The tables, the transactions and the report files keep their shape, and *)
(* the stage of a call tells what they hold.                               *)
THEOREM Consistent == SessionSpec => []IInv
  BY InitIInv, NextIInv, PTL DEF SessionSpec

(* Whatever fails and whenever the process dies, a reader of the tables    *)
(* sees whole hands, the first of the session, and a summary only over all *)
(* of them; and the file it names holds that session's report, whole,      *)
(* unless another session took the same second for its own report.  It     *)
(* rests on the file being emptied and then written before the summary     *)
(* names it, and on a name being given once.                               *)
THEOREM ReadersAlwaysSeeWhole == SessionSpec => []ReadersSeeWhole
  BY Consistent, IInvReaders, PTL

(* A call of run_h2h that raises has left no row in any table.             *)
THEOREM FailuresCleanUp == SessionSpec => []FailureLeavesNoRows
  <1>1. IInv => FailureLeavesNoRows
    BY DEF IInv, StoredOf, StageOf, FailureLeavesNoRows
  <1> QED BY Consistent, <1>1, PTL

-----------------------------------------------------------------------------
(***************************************************************************)
(* The release, and the workflows together.                                *)
(***************************************************************************)

(* The inductive invariant.                                                *)

Statuses == {"new", "load", "not_found", "error", "report", "reporting", "evaluated",
             "card", "carding", "blocked", "candidate"}
RequestRecords ==
    [asks : Asks, at : Statuses, all : BOOLEAN, after : BOOLEAN, blocked : BOOLEAN,
     evaluation : {"none", "report_all", "report_train"}]

ReleaseTypeOK ==
    /\ file \in [Files -> {"absent", "part", "whole"}]
    /\ listed \subseteq {"dataset", "model"}
    /\ accurate \in BOOLEAN
    /\ request \in [Requests -> RequestRecords]
    /\ reported \in [{"report_all", "report_train"} -> BOOLEAN]

(* The export has written whole what it has behind it, and has not begun   *)
(* what comes after the file it is at; the manifest is shown once whole.   *)
ExportOf ==
    /\ \/ export = <<"rows", "manifest", "train">> /\ file["manifest"] = "absent"
       \/ export = <<"manifest", "train">> /\ file["rows"] = "whole"
       \/ export = <<"train">> /\ file["rows"] = "whole" /\ file["manifest"] = "whole"
       \/ export = <<>> /\ \A f \in {"rows", "manifest", "train"} : file[f] = "whole"
    /\ "dataset" \in listed => file["manifest"] = "whole"

(* A request begins when its dataset has been listed, so it finds whole    *)
(* what it may rely on; past its report an alpha request has a report on   *)
(* all rows and, unless it is blocked, an accurate model.                  *)
RequestOf(q) ==
    /\ q.at # "new" => "dataset" \in listed
    /\ q.after => export = <<>>
    /\ q.asks # "evaluate_train" \/ q.after =>
           /\ q.at # "not_found"
           /\ q.at \notin {"new", "load", "error"} => q.all
    /\ q.at \in {"card", "carding", "blocked", "candidate"} =>
           /\ q.asks = "alpha"
           /\ file["report_all"] # "absent" /\ reported["report_all"]
           /\ ~q.blocked => accurate
    /\ q.at \in {"carding", "candidate"} => file["card"] # "absent" /\ q.evaluation # "none"
    /\ q.at = "candidate" => ~q.blocked /\ packaged = Assets

ReleaseIInv == ReleaseTypeOK /\ ExportOf /\ \A r \in Requests : RequestOf(request[r])

-----------------------------------------------------------------------------
(* What the steps do to what the requests rely on.                         *)

(* Files do not vanish, what was listed or reported stays so, and the      *)
(* model and its packaging are what they were.                             *)
WorldGrows ==
    /\ \A f \in Files : file[f] # "absent" => file'[f] # "absent"
    /\ listed \subseteq listed'
    /\ export = <<>> => export' = <<>>
    /\ accurate' = accurate /\ packaged' = packaged
    /\ reported["report_all"] => reported'["report_all"]

LEMMA RequestStays ==
    ASSUME NEW q, RequestOf(q), WorldGrows
    PROVE  RequestOf(q)'
  BY DEF RequestOf, WorldGrows, Files

LEMMA RequestsStay ==
    ASSUME \A r \in Requests : RequestOf(request[r]), request' = request, WorldGrows
    PROVE  \A r \in Requests : RequestOf(request[r])'
  <1> TAKE r \in Requests
  <1>1. PICK q : q = request[r]
    OBVIOUS
  <1>2. RequestOf(q)'
    BY <1>1, RequestStays
  <1> QED BY <1>1, <1>2

(* Writing a report or a card leaves the files of the export alone.        *)
LEMMA ReportsApart ==
    ASSUME ReleaseTypeOK, ExportOf, NEW f \in {"report_all", "report_train", "card"},
           NEW how \in {"part", "whole"}, file' = [file EXCEPT ![f] = how],
           export' = export, listed' = listed
    PROVE  /\ file' \in [Files -> {"absent", "part", "whole"}]
           /\ ExportOf'
           /\ \A g \in Files : file[g] # "absent" => file'[g] # "absent"
           /\ file'[f] = how
  <1>1. /\ file \in [Files -> {"absent", "part", "whole"}] /\ f \in Files
        /\ {"rows", "manifest", "train"} \subseteq Files
    BY DEF ReleaseTypeOK, Files
  <1>2. /\ file' \in [Files -> {"absent", "part", "whole"}] /\ file'[f] = how
        /\ \A g \in Files \ {f} : file'[g] = file[g]
    BY <1>1
  <1>3. \A g \in {"rows", "manifest", "train"} : file'[g] = file[g]
    BY <1>1, <1>2
  <1>4. ExportOf'
    BY <1>3 DEF ExportOf
  <1> QED BY <1>2, <1>4

(* A step of one request leaves the others alone.                          *)
LEMMA OneRequest ==
    ASSUME ReleaseIInv, NEW r \in Requests, NEW q \in RequestRecords,
           request' = [request EXCEPT ![r] = q], WorldGrows, RequestOf(q)',
           file' \in [Files -> {"absent", "part", "whole"}], ExportOf', listed' = listed,
           reported' \in [{"report_all", "report_train"} -> BOOLEAN]
    PROVE  ReleaseIInv'
  <1>1. ReleaseTypeOK /\ \A o \in Requests : RequestOf(request[o])
    BY DEF ReleaseIInv
  <1>2. request \in [Requests -> RequestRecords]
    BY <1>1 DEF ReleaseTypeOK
  <1>3. request' \in [Requests -> RequestRecords]
    BY <1>2
  <1>4. ReleaseTypeOK'
    BY <1>1, <1>3 DEF ReleaseTypeOK, WorldGrows
  <1>5. ASSUME NEW o \in Requests PROVE RequestOf(request[o])'
    <2>1. CASE o = r
      BY <1>2, <2>1
    <2>2. CASE o # r
      <3>1. PICK p : p = request[o]
        OBVIOUS
      <3>2. RequestOf(p)'
        BY <1>1, <3>1, RequestStays
      <3> QED BY <1>2, <2>2, <3>1, <3>2
    <2> QED BY <2>1, <2>2
  <1> QED BY <1>4, <1>5 DEF ReleaseIInv

-----------------------------------------------------------------------------
(* Every step keeps the invariant.                                         *)

LEMMA ReleaseStarts == ReleaseInit => ReleaseIInv
  <1> SUFFICES ASSUME ReleaseInit PROVE ReleaseIInv
    OBVIOUS
  <1>1. PICK asks \in [Requests -> Asks] :
           request = [r \in Requests |->
                         [asks |-> asks[r], at |-> "new", all |-> FALSE, after |-> FALSE,
                          blocked |-> FALSE, evaluation |-> "none"]]
    BY DEF ReleaseInit
  <1>2. request \in [Requests -> RequestRecords]
    BY <1>1 DEF RequestRecords, Statuses
  <1>3. ReleaseTypeOK
    BY <1>2 DEF ReleaseInit, ReleaseTypeOK
  <1>4. ExportOf
    BY DEF ReleaseInit, ExportOf, ExportOrder, Files
  <1>5. \A r \in Requests : RequestOf(request[r])
    BY <1>1 DEF RequestOf
  <1> QED BY <1>3, <1>4, <1>5 DEF ReleaseIInv

LEMMA ExportKeeps == ASSUME ReleaseIInv, Export PROVE ReleaseIInv'
  <1>1. ReleaseTypeOK /\ ExportOf /\ \A r \in Requests : RequestOf(request[r])
    BY DEF ReleaseIInv
  <1>2. /\ listed' = listed /\ packaged' = packaged /\ accurate' = accurate
        /\ request' = request /\ reported' = reported
    BY DEF Export
  <1> DEFINE f == Head(export)
  <1>3. /\ export # <<>>
        /\ \/ file[f] = "absent" /\ file' = [file EXCEPT ![f] = "part"] /\ export' = export
           \/ file[f] = "part" /\ file' = [file EXCEPT ![f] = "whole"] /\ export' = Tail(export)
    BY DEF Export, Truncate, WriteOut
  <1>4. file \in [Files -> {"absent", "part", "whole"}] /\ {"rows", "manifest", "train"} \subseteq Files
    BY <1>1 DEF ReleaseTypeOK, Files
  <1>5. \/ /\ export = <<"rows", "manifest", "train">> /\ file["manifest"] = "absent"
           /\ f = "rows" /\ Tail(export) = <<"manifest", "train">>
        \/ /\ export = <<"manifest", "train">> /\ file["rows"] = "whole"
           /\ f = "manifest" /\ Tail(export) = <<"train">>
        \/ /\ export = <<"train">> /\ file["rows"] = "whole" /\ file["manifest"] = "whole"
           /\ f = "train" /\ Tail(export) = <<>>
    <2>1. /\ Head(<<"rows", "manifest", "train">>) = "rows"
          /\ Tail(<<"rows", "manifest", "train">>) = <<"manifest", "train">>
      OBVIOUS
    <2>2. Head(<<"manifest", "train">>) = "manifest" /\ Tail(<<"manifest", "train">>) = <<"train">>
      OBVIOUS
    <2>3. Head(<<"train">>) = "train" /\ Tail(<<"train">>) = <<>>
      OBVIOUS
    <2>4. \/ export = <<"rows", "manifest", "train">> /\ file["manifest"] = "absent"
          \/ export = <<"manifest", "train">> /\ file["rows"] = "whole"
          \/ export = <<"train">> /\ file["rows"] = "whole" /\ file["manifest"] = "whole"
      BY <1>1, <1>3 DEF ExportOf
    <2> QED BY <2>1, <2>2, <2>3, <2>4
  <1>6. /\ file' \in [Files -> {"absent", "part", "whole"}]
        /\ \A g \in Files \ {f} : file'[g] = file[g]
        /\ \/ file[f] = "absent" /\ file'[f] = "part" /\ export' = export
           \/ file[f] = "part" /\ file'[f] = "whole" /\ export' = Tail(export)
    BY <1>3, <1>4, <1>5
  <1> HIDE DEF f
  <1>7. ExportOf'
    <2>1. CASE file[f] = "absent" /\ export' = export
      BY <1>1, <1>2, <1>4, <1>5, <1>6, <2>1 DEF ExportOf
    <2>2. CASE file[f] = "part" /\ file'[f] = "whole" /\ export' = Tail(export)
      <3>1. CASE f = "rows" /\ Tail(export) = <<"manifest", "train">>
        BY <1>1, <1>2, <1>4, <1>5, <1>6, <2>2, <3>1 DEF ExportOf
      <3>2. CASE f = "manifest" /\ Tail(export) = <<"train">> /\ file["rows"] = "whole"
        BY <1>1, <1>2, <1>4, <1>6, <2>2, <3>2 DEF ExportOf
      <3>3. CASE /\ f = "train" /\ Tail(export) = <<>>
                 /\ file["rows"] = "whole" /\ file["manifest"] = "whole"
        BY <1>1, <1>2, <1>4, <1>6, <2>2, <3>3 DEF ExportOf
      <3> QED BY <1>5, <3>1, <3>2, <3>3
    <2> QED BY <1>6, <2>1, <2>2
  <1>8. WorldGrows
    BY <1>2, <1>3, <1>6 DEF WorldGrows
  <1>9. ReleaseTypeOK'
    BY <1>1, <1>2, <1>6 DEF ReleaseTypeOK
  <1> QED BY <1>1, <1>2, <1>7, <1>8, <1>9, RequestsStay DEF ReleaseIInv

LEMMA SaveModelKeeps == ASSUME ReleaseIInv, SaveModel PROVE ReleaseIInv'
  <1>1. ReleaseTypeOK /\ ExportOf /\ \A r \in Requests : RequestOf(request[r])
    BY DEF ReleaseIInv
  <1>2. /\ export' = export /\ listed' = listed /\ packaged' = packaged /\ accurate' = accurate
        /\ request' = request /\ reported' = reported
        /\ \E how \in {"part", "whole"} : file' = [file EXCEPT !["model"] = how]
    BY DEF SaveModel, Truncate, WriteOut
  <1>3. /\ file' \in [Files -> {"absent", "part", "whole"}] /\ file'["model"] # "absent"
        /\ \A g \in Files \ {"model"} : file'[g] = file[g]
    BY <1>1, <1>2 DEF ReleaseTypeOK, Files
  <1>4. \A g \in {"rows", "manifest", "train"} : file'[g] = file[g]
    BY <1>3 DEF Files
  <1>5. ExportOf'
    BY <1>1, <1>2, <1>4 DEF ExportOf
  <1>6. WorldGrows
    BY <1>2, <1>3 DEF WorldGrows
  <1>7. ReleaseTypeOK'
    BY <1>1, <1>2, <1>3 DEF ReleaseTypeOK
  <1> QED BY <1>1, <1>2, <1>5, <1>6, <1>7, RequestsStay DEF ReleaseIInv

LEMMA ListThemKeeps == ASSUME ReleaseIInv, ListThem PROVE ReleaseIInv'
  <1>1. ReleaseTypeOK /\ ExportOf /\ \A r \in Requests : RequestOf(request[r])
    BY DEF ReleaseIInv
  <1>2. /\ file' = file /\ export' = export /\ packaged' = packaged /\ accurate' = accurate
        /\ request' = request /\ reported' = reported
        /\ \/ file["manifest"] = "whole" /\ listed' = listed \cup {"dataset"}
           \/ listed' = listed \cup {"model"}
    BY DEF ListThem
  <1>3. ExportOf'
    BY <1>1, <1>2 DEF ExportOf
  <1>4. WorldGrows
    BY <1>2 DEF WorldGrows
  <1>5. ReleaseTypeOK'
    BY <1>1, <1>2 DEF ReleaseTypeOK
  <1> QED BY <1>1, <1>2, <1>3, <1>4, <1>5, RequestsStay DEF ReleaseIInv

LEMMA AskKeeps == ASSUME ReleaseIInv, NEW r \in Requests, Ask(r) PROVE ReleaseIInv'
  <1>1. ReleaseTypeOK /\ ExportOf /\ \A o \in Requests : RequestOf(request[o])
    BY DEF ReleaseIInv
  <1>2. PICK p \in RequestRecords : p = request[r]
    BY <1>1 DEF ReleaseTypeOK
  <1>3. PICK missing \in BOOLEAN : missing = (Alpha(r) /\ AssetsMissing)
    BY DEF Alpha
  <1>4. PICK over \in BOOLEAN : over = (export = <<>>)
    OBVIOUS
  <1>5. PICK q : q = [p EXCEPT !.at = "load", !.after = over, !.blocked = missing]
    OBVIOUS
  <1>6. /\ file' = file /\ export' = export /\ packaged' = packaged /\ accurate' = accurate
        /\ listed' = listed /\ reported' = reported /\ listed = {"dataset", "model"}
        /\ request' = [request EXCEPT ![r] = q]
    BY <1>1, <1>2, <1>3, <1>4, <1>5 DEF Ask, ReleaseTypeOK
  <1>7. /\ q \in RequestRecords /\ q.at = "load" /\ q.after = over
    BY <1>5 DEF RequestRecords, Statuses
  <1>8. WorldGrows /\ ExportOf'
    BY <1>1, <1>6 DEF WorldGrows, ExportOf
  <1>9. RequestOf(q)'
    BY <1>4, <1>6, <1>7 DEF RequestOf
  <1> QED BY <1>1, <1>6, <1>7, <1>8, <1>9, OneRequest DEF ReleaseTypeOK

LEMMA LoadKeeps == ASSUME ReleaseIInv, NEW r \in Requests, Load(r) PROVE ReleaseIInv'
  <1>1. ReleaseTypeOK /\ ExportOf /\ \A o \in Requests : RequestOf(request[o])
    BY DEF ReleaseIInv
  <1>2. PICK p \in RequestRecords : p = request[r]
    BY <1>1 DEF ReleaseTypeOK
  <1>3. PICK dataset \in Files : dataset = IF p.asks = "evaluate_train" THEN "train" ELSE "rows"
    BY DEF Files
  <1>4. /\ file' = file /\ export' = export /\ packaged' = packaged /\ accurate' = accurate
        /\ listed' = listed /\ reported' = reported /\ p.at = "load"
        /\ \/ file[dataset] = "absent" /\ request' = [request EXCEPT ![r].at = "not_found"]
           \/ file[dataset] = "part" /\ request' = [request EXCEPT ![r].at = "error"]
           \/ request' = [request EXCEPT ![r].at = "report", ![r].all = (file[dataset] = "whole")]
    BY <1>2, <1>3 DEF Load, At, Answer, RowsFile
  <1>5. WorldGrows /\ ExportOf'
    BY <1>1, <1>4 DEF WorldGrows, ExportOf
  <1>6. RequestOf(p)
    BY <1>1, <1>2
  <1>7. p.asks # "evaluate_train" \/ p.after => file[dataset] = "whole"
    BY <1>1, <1>3, <1>4, <1>6 DEF RequestOf, ExportOf
  <1>8. ASSUME NEW status \in {"not_found", "error"},
               status = "not_found" => file[dataset] = "absent",
               request' = [request EXCEPT ![r].at = status]
        PROVE  ReleaseIInv'
    <2>1. PICK q : q = [p EXCEPT !.at = status]
      OBVIOUS
    <2>2. /\ q \in RequestRecords /\ q.at = status /\ q.asks = p.asks /\ q.all = p.all
          /\ q.after = p.after
      BY <2>1 DEF RequestRecords, Statuses
    <2>3. request' = [request EXCEPT ![r] = q]
      BY <1>2, <1>8, <2>1
    <2>4. status = "not_found" => ~(p.asks # "evaluate_train" \/ p.after)
      BY <1>7, <1>8
    <2>5. RequestOf(q)'
      BY <1>4, <1>6, <2>2, <2>4 DEF RequestOf
    <2> QED BY <1>1, <1>4, <1>5, <2>2, <2>3, <2>5, OneRequest DEF ReleaseTypeOK
  <1>9. CASE request' = [request EXCEPT ![r].at = "report", ![r].all = (file[dataset] = "whole")]
    <2>1. PICK whole \in BOOLEAN : whole = (file[dataset] = "whole")
      OBVIOUS
    <2>2. PICK q : q = [p EXCEPT !.at = "report", !.all = whole]
      OBVIOUS
    <2>3. /\ q \in RequestRecords /\ q.at = "report" /\ q.asks = p.asks /\ q.all = whole
          /\ q.after = p.after
      BY <2>2 DEF RequestRecords, Statuses
    <2>4. request' = [request EXCEPT ![r] = q]
      BY <1>1, <1>2, <1>9, <2>1, <2>2 DEF ReleaseTypeOK
    <2>5. RequestOf(q)'
      BY <1>4, <1>6, <1>7, <2>1, <2>3 DEF RequestOf
    <2> QED BY <1>1, <1>4, <1>5, <2>3, <2>4, <2>5, OneRequest DEF ReleaseTypeOK
  <1> QED BY <1>4, <1>8, <1>9

LEMMA OpenReportKeeps == ASSUME ReleaseIInv, NEW r \in Requests, OpenReport(r) PROVE ReleaseIInv'
  <1>1. ReleaseTypeOK /\ ExportOf /\ \A o \in Requests : RequestOf(request[o])
    BY DEF ReleaseIInv
  <1>2. PICK p \in RequestRecords : p = request[r]
    BY <1>1 DEF ReleaseTypeOK
  <1>3. PICK q : q = [p EXCEPT !.at = "reporting"]
    OBVIOUS
  <1>4. /\ export' = export /\ packaged' = packaged /\ accurate' = accurate
        /\ listed' = listed /\ reported' = reported /\ p.at = "report"
        /\ request' = [request EXCEPT ![r] = q]
        /\ \E f \in {"report_all", "report_train", "card"} : file' = [file EXCEPT ![f] = "part"]
    BY <1>2, <1>3 DEF OpenReport, At, Answer, Truncate, ReportFile
  <1>5. /\ q \in RequestRecords /\ q.at = "reporting" /\ q.asks = p.asks /\ q.all = p.all
        /\ q.after = p.after
    BY <1>3 DEF RequestRecords, Statuses
  <1>6. /\ file' \in [Files -> {"absent", "part", "whole"}] /\ ExportOf'
        /\ \A g \in Files : file[g] # "absent" => file'[g] # "absent"
    BY <1>1, <1>4, ReportsApart
  <1>7. WorldGrows
    BY <1>4, <1>6 DEF WorldGrows
  <1>8. RequestOf(p)
    BY <1>1, <1>2
  <1>9. RequestOf(q)'
    BY <1>4, <1>5, <1>8 DEF RequestOf
  <1> QED BY <1>1, <1>4, <1>5, <1>6, <1>7, <1>9, OneRequest DEF ReleaseTypeOK

LEMMA WriteEvaluationKeeps ==
    ASSUME ReleaseIInv, NEW r \in Requests, WriteEvaluation(r) PROVE ReleaseIInv'
  <1>1. ReleaseTypeOK /\ ExportOf /\ \A o \in Requests : RequestOf(request[o])
    BY DEF ReleaseIInv
  <1>2. PICK p \in RequestRecords : p = request[r]
    BY <1>1 DEF ReleaseTypeOK
  <1>3. PICK report \in {"report_all", "report_train"} :
            report = IF p.asks = "evaluate_train" THEN "report_train" ELSE "report_all"
    OBVIOUS
  <1>4. PICK alpha \in BOOLEAN : alpha = (p.asks = "alpha")
    OBVIOUS
  <1>5. p.at = "reporting" /\ p.all \in BOOLEAN /\ p.blocked \in BOOLEAN
    BY <1>2 DEF WriteEvaluation, At, RequestRecords
  <1>6. PICK passes \in BOOLEAN :
            /\ p.all => passes = accurate
            /\ request' = [request EXCEPT ![r].at = IF Alpha(r) THEN "card" ELSE "evaluated",
                                          ![r].blocked = (@ \/ (Alpha(r) /\ ~passes))]
    <2>1. PICK passes \in IF request[r].all THEN {accurate} ELSE BOOLEAN :
             request' = [request EXCEPT ![r].at = IF Alpha(r) THEN "card" ELSE "evaluated",
                                        ![r].blocked = (@ \/ (Alpha(r) /\ ~passes))]
      BY DEF WriteEvaluation
    <2> QED BY <1>1, <1>2, <2>1 DEF ReleaseTypeOK
  <1>7. PICK blocked \in BOOLEAN : blocked = (p.blocked \/ (alpha /\ ~passes))
    OBVIOUS
  <1>8. PICK q : q = [p EXCEPT !.at = IF alpha THEN "card" ELSE "evaluated", !.blocked = blocked]
    OBVIOUS
  <1>9. /\ export' = export /\ packaged' = packaged /\ accurate' = accurate /\ listed' = listed
        /\ reported' = [reported EXCEPT ![report] = p.all]
        /\ file' = [file EXCEPT ![report] = "whole"]
    BY <1>2, <1>3 DEF WriteEvaluation, WriteOut, ReportFile
  <1>10. request' = [request EXCEPT ![r] = q]
    <2>1. Alpha(r) = alpha
      BY <1>2, <1>4 DEF Alpha
    <2> QED BY <1>2, <1>6, <1>7, <1>8, <2>1
  <1>11. /\ q \in RequestRecords /\ q.at = (IF alpha THEN "card" ELSE "evaluated")
         /\ q.asks = p.asks /\ q.all = p.all /\ q.after = p.after /\ q.blocked = blocked
    BY <1>8 DEF RequestRecords, Statuses
  <1>12. /\ file' \in [Files -> {"absent", "part", "whole"}] /\ ExportOf'
         /\ \A g \in Files : file[g] # "absent" => file'[g] # "absent"
         /\ file'[report] = "whole"
    BY <1>1, <1>9, ReportsApart
  <1>13. RequestOf(p)
    BY <1>1, <1>2
  <1>14. p.asks # "evaluate_train" => p.all
    BY <1>5, <1>13 DEF RequestOf
  <1>15. /\ reported' \in [{"report_all", "report_train"} -> BOOLEAN]
         /\ reported["report_all"] => reported'["report_all"]
         /\ report = "report_all" => reported'["report_all"]
    <2>1. reported \in [{"report_all", "report_train"} -> BOOLEAN]
      BY <1>1 DEF ReleaseTypeOK
    <2>2. report = "report_all" => p.all
      BY <1>3, <1>14
    <2> QED BY <1>5, <1>9, <2>1, <2>2
  <1>16. WorldGrows
    BY <1>9, <1>12, <1>15 DEF WorldGrows
  <1>17. alpha => report = "report_all" /\ p.all /\ (~blocked => accurate)
    BY <1>3, <1>4, <1>6, <1>7, <1>14
  <1>18. RequestOf(q)'
    BY <1>4, <1>5, <1>9, <1>11, <1>12, <1>13, <1>15, <1>17 DEF RequestOf
  <1> QED BY <1>1, <1>9, <1>10, <1>11, <1>12, <1>15, <1>16, <1>18, OneRequest

LEMMA OpenCardKeeps == ASSUME ReleaseIInv, NEW r \in Requests, OpenCard(r) PROVE ReleaseIInv'
  <1>1. ReleaseTypeOK /\ ExportOf /\ \A o \in Requests : RequestOf(request[o])
    BY DEF ReleaseIInv
  <1>2. PICK p \in RequestRecords : p = request[r]
    BY <1>1 DEF ReleaseTypeOK
  <1>3. RequestOf(p)
    BY <1>1, <1>2
  <1>4. /\ export' = export /\ packaged' = packaged /\ accurate' = accurate /\ listed' = listed
        /\ reported' = reported /\ p.at = "card"
    BY <1>2 DEF OpenCard, At
  <1>5. CASE request' = [request EXCEPT ![r].at = "error"] /\ file' = file
    <2>1. PICK q : q = [p EXCEPT !.at = "error"]
      OBVIOUS
    <2>2. /\ q \in RequestRecords /\ q.at = "error" /\ q.asks = p.asks /\ q.after = p.after
      BY <2>1 DEF RequestRecords, Statuses
    <2>3. request' = [request EXCEPT ![r] = q]
      BY <1>2, <1>5, <2>1
    <2>4. WorldGrows /\ ExportOf'
      BY <1>1, <1>4, <1>5 DEF WorldGrows, ExportOf
    <2>5. RequestOf(q)'
      BY <1>3, <1>4, <2>2 DEF RequestOf
    <2> QED BY <1>1, <1>4, <1>5, <2>2, <2>3, <2>4, <2>5, OneRequest DEF ReleaseTypeOK
  <1>6. CASE /\ file' = [file EXCEPT !["card"] = "part"]
             /\ request' = [request EXCEPT ![r].at = "carding", ![r].evaluation = LastReport]
    <2>1. PICK last \in {"report_all", "report_train"} : last = LastReport
      BY DEF LastReport
    <2>2. PICK q : q = [p EXCEPT !.at = "carding", !.evaluation = last]
      OBVIOUS
    <2>3. /\ q \in RequestRecords /\ q.at = "carding" /\ q.asks = p.asks /\ q.all = p.all
          /\ q.after = p.after /\ q.blocked = p.blocked /\ q.evaluation # "none"
      BY <2>2 DEF RequestRecords, Statuses
    <2>4. request' = [request EXCEPT ![r] = q]
      BY <1>2, <1>6, <2>1, <2>2
    <2>5. /\ file' \in [Files -> {"absent", "part", "whole"}] /\ ExportOf'
          /\ \A g \in Files : file[g] # "absent" => file'[g] # "absent"
          /\ file'["card"] = "part"
      BY <1>1, <1>4, <1>6, ReportsApart
    <2>6. WorldGrows
      BY <1>4, <2>5 DEF WorldGrows
    <2>7. RequestOf(q)'
      BY <1>3, <1>4, <2>3, <2>5 DEF RequestOf, Files
    <2> QED BY <1>1, <1>4, <2>3, <2>4, <2>5, <2>6, <2>7, OneRequest DEF ReleaseTypeOK
  <1> QED BY <1>5, <1>6 DEF OpenCard, Answer, Truncate

LEMMA WriteCardKeeps == ASSUME ReleaseIInv, NEW r \in Requests, WriteCard(r) PROVE ReleaseIInv'
  <1>1. ReleaseTypeOK /\ ExportOf /\ \A o \in Requests : RequestOf(request[o])
    BY DEF ReleaseIInv
  <1>2. PICK p \in RequestRecords : p = request[r]
    BY <1>1 DEF ReleaseTypeOK
  <1>3. RequestOf(p)
    BY <1>1, <1>2
  <1>4. PICK status \in {"blocked", "candidate"} :
            status = IF p.blocked \/ packaged # Assets THEN "blocked" ELSE "candidate"
    OBVIOUS
  <1>5. PICK q : q = [p EXCEPT !.at = status]
    OBVIOUS
  <1>6. /\ q \in RequestRecords /\ q.at = status /\ q.asks = p.asks /\ q.all = p.all
        /\ q.after = p.after /\ q.blocked = p.blocked /\ q.evaluation = p.evaluation
    BY <1>5 DEF RequestRecords, Statuses
  <1>7. /\ export' = export /\ packaged' = packaged /\ accurate' = accurate /\ listed' = listed
        /\ reported' = reported /\ p.at = "carding" /\ file' = [file EXCEPT !["card"] = "whole"]
        /\ request' = [request EXCEPT ![r] = q]
    BY <1>2, <1>4, <1>5 DEF WriteCard, WriteOut, At, Answer
  <1>8. /\ file' \in [Files -> {"absent", "part", "whole"}] /\ ExportOf'
        /\ \A g \in Files : file[g] # "absent" => file'[g] # "absent"
        /\ file'["card"] = "whole"
    BY <1>1, <1>7, ReportsApart
  <1>9. WorldGrows
    BY <1>7, <1>8 DEF WorldGrows
  <1>10. status = "candidate" => ~p.blocked /\ packaged = Assets
    BY <1>4
  <1>11. RequestOf(q)'
    BY <1>3, <1>6, <1>7, <1>8, <1>10 DEF RequestOf, Files
  <1> QED BY <1>1, <1>6, <1>7, <1>8, <1>9, <1>11, OneRequest DEF ReleaseTypeOK

-----------------------------------------------------------------------------
(* The theorem.                                                            *)

LEMMA ReleaseInvariant == ReleaseSpec => []ReleaseIInv
  <1>1. ReleaseInit => ReleaseIInv
    BY ReleaseStarts
  <1>2. ReleaseIInv /\ [ReleaseNext]_releaseVars => ReleaseIInv'
    <2> SUFFICES ASSUME ReleaseIInv, [ReleaseNext]_releaseVars PROVE ReleaseIInv'
      OBVIOUS
    <2>1. CASE Export \/ SaveModel \/ ListThem
      BY <2>1, ExportKeeps, SaveModelKeeps, ListThemKeeps
    <2>2. ASSUME NEW r \in Requests, RequestStep(r) PROVE ReleaseIInv'
      BY <2>2, AskKeeps, LoadKeeps, OpenReportKeeps, WriteEvaluationKeeps, OpenCardKeeps,
         WriteCardKeeps DEF RequestStep
    <2>3. CASE UNCHANGED releaseVars
      <3>1. /\ file' = file /\ export' = export /\ listed' = listed /\ packaged' = packaged
            /\ accurate' = accurate /\ request' = request /\ reported' = reported
        BY <2>3 DEF releaseVars
      <3>2. WorldGrows
        BY <3>1 DEF WorldGrows
      <3>3. \A r \in Requests : RequestOf(request[r])'
        BY <3>1, <3>2, RequestsStay DEF ReleaseIInv
      <3> QED BY <3>1, <3>3 DEF ReleaseIInv, ReleaseTypeOK, ExportOf
    <2> QED BY <2>1, <2>2, <2>3 DEF ReleaseNext
  <1> QED BY <1>1, <1>2, PTL DEF ReleaseSpec

(* A release candidate has been evaluated on every row of its dataset, is  *)
(* accurate, packaged, and has a report and a card to show, although       *)
(* export, save, evaluate_model and build_model_card truncate their files  *)
(* before they write them, for any number of requests at once.             *)
THEOREM CandidatesBacked == ReleaseSpec => []CandidateIsBacked
  <1>1. ReleaseIInv => CandidateIsBacked
    <2> SUFFICES ASSUME ReleaseIInv, NEW r \in Requests
                 PROVE  /\ request[r].asks # "evaluate_train" \/ request[r].after =>
                               /\ request[r].at # "not_found"
                               /\ request[r].at \in {"reporting", "card", "carding", "evaluated",
                                                     "blocked", "candidate"} => request[r].all
                        /\ request[r].at = "candidate" =>
                               /\ accurate /\ packaged = Assets
                               /\ file["report_all"] # "absent" /\ reported["report_all"]
                               /\ file["card"] # "absent" /\ request[r].evaluation # "none"
      BY DEF CandidateIsBacked
    <2>1. RequestOf(request[r])
      BY DEF ReleaseIInv
    <2> QED BY <2>1 DEF RequestOf
  <1> QED BY <1>1, ReleaseInvariant, PTL


-----------------------------------------------------------------------------
(* Sagas, sessions, releases and solvers in one run.                       *)

(* The run over the workflows is a behaviour of each of the three that     *)
(* keep files and rows: what is proved of one holds in it.                 *)
THEOREM WorkflowsAreTheirParts == Spec => SagaSpec /\ SessionSpec /\ ReleaseSpec
  <1>1. Init => SagaInit /\ SessionInit /\ ReleaseInit
    BY DEF Init
  <1>2. [Next]_vars => [SagaNext]_sagaVars /\ [SessionNext]_sessionVars /\ [ReleaseNext]_releaseVars
    <2> SUFFICES ASSUME [Next]_vars
                 PROVE  /\ [SagaNext]_sagaVars /\ [SessionNext]_sessionVars
                        /\ [ReleaseNext]_releaseVars
      OBVIOUS
    <2>1. CASE RunSaga
      BY <2>1 DEF RunSaga
    <2>2. CASE RunSession
      BY <2>2 DEF RunSession
    <2>3. CASE RunRelease
      BY <2>3 DEF RunRelease
    <2>4. CASE RunSolver
      BY <2>4 DEF RunSolver
    <2>5. CASE UNCHANGED vars
      BY <2>5 DEF vars
    <2> QED BY <2>1, <2>2, <2>3, <2>4, <2>5 DEF Next
  <1> QED BY <1>1, <1>2, PTL DEF Spec, SagaSpec, SessionSpec, ReleaseSpec

(* The rows, the effects and the places in the code of run and run_h2h are *)
(* what they can be, for any number of callers, steps, retries, sessions   *)
(* and hands.                                                              *)
THEOREM WorkflowsTypesCorrect == Spec => []WorkflowsTypeOK
  <1>1. IInv => SessionTypeOK
    BY DEF IInv
  <1> QED BY <1>1, WorkflowsAreTheirParts, SagaTypeCorrect, Consistent, PTL DEF WorkflowsTypeOK
===============================================================================
