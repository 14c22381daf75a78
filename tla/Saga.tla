-------------------------------- MODULE Saga --------------------------------
(***************************************************************************)
(* InProcessSaga.run of services/cqrs/saga.py with the SagaStore of        *)
(* services/cqrs/saga_store.py: callers that run the same steps under one  *)
(* idempotency key, in one process or in one after the other.              *)
(*                                                                         *)
(* A step of the saga succeeds, raises, or answers too late: its action    *)
(* has then taken effect although _execute_step raises TimeoutError and    *)
(* tries again.  Every method of the store commits by itself, and a caller *)
(* can be overtaken, or its process can die, between any two of them.      *)
(***************************************************************************)
EXTENDS Naturals

CONSTANTS
    Callers,      \* calls of run
    NumSteps,     \* len(steps)
    MaxRetries,   \* SagaStep.max_retries, the same for every step
    Compensable,  \* the steps that have a compensate callback
    SagaFaults,       \* what may go wrong: a subset of SagaFaultKinds
    NoRow         \* the idempotency key has no row

SagaFaultKinds == {"raise", "late", "compensate", "store", "crash"}

ASSUME SagaAssumption ==
    /\ NumSteps \in Nat /\ MaxRetries \in Nat
    /\ Compensable \subseteq 1 .. NumSteps
    /\ SagaFaults \subseteq SagaFaultKinds
ASSUME NoRowAssumption ==
    NoRow \notin [owner : Callers, current_step : 0 .. NumSteps,
                  status : {"running", "completed", "failed", "compensating"}]

VARIABLES
    keyed,    \* the calls made with a store and the key; CommandBus has neither
    row,      \* the row of saga_state with the idempotency key
    at,       \* at[c]: where run is
    step,     \* step[c]: the step that is executed, or compensated
    tries,    \* tries[c]: failed attempts at that step
    effect,   \* effect[c][s]: how often what step s does for caller c is in place
    spoilt    \* history: the faults of SagaFaultKinds that happened

sagaVars == <<keyed, row, at, step, tries, effect, spoilt>>

Steps == 1 .. NumSteps
SagaEnded == {"returned", "reused", "refused", "raised", "dead"}

SagaGoto(c, label) == at' = [at EXCEPT ![c] = label]
Suffer(kind) == kind \in SagaFaults /\ spoilt' = spoilt \cup {kind}

Do(c, s) == effect' = [effect EXCEPT ![c][s] = @ + 1]
Undo(c, s) == effect' = [effect EXCEPT ![c][s] = @ - 1]

SagaInit ==
    /\ keyed \in SUBSET Callers
    /\ row = NoRow
    /\ at = [c \in Callers |-> "start"]
    /\ step = [c \in Callers |-> 1]
    /\ tries = [c \in Callers |-> 0]
    /\ effect = [c \in Callers |-> [s \in Steps |-> 0]]
    /\ spoilt = {}

-----------------------------------------------------------------------------
(* get_by_idempotency_key: only a completed saga answers for a later one.  *)
Lookup(c) ==
    /\ at[c] = "start"
    /\ SagaGoto(c, IF c \notin keyed THEN "execute"
               ELSE IF row # NoRow /\ row.status = "completed" THEN "reused"
               ELSE "create")
    /\ UNCHANGED <<row, step, tries, effect, spoilt>>

(* Mutants: a taken key is waited for; INSERT OR REPLACE.                  *)
CreateWaits(c) ==
    /\ at[c] = "create" /\ row = NoRow
    /\ row' = [owner |-> c, status |-> "running", current_step |-> 0]
    /\ SagaGoto(c, "execute")
    /\ UNCHANGED <<step, tries, effect, spoilt>>
CreateOrReplace(c) ==
    /\ at[c] = "create"
    /\ row' = [owner |-> c, status |-> "running", current_step |-> 0]
    /\ SagaGoto(c, "execute")
    /\ UNCHANGED <<step, tries, effect, spoilt>>

(* create: the UNIQUE key refuses a second row, and run raises.            *)
Create(c) ==
    /\ at[c] = "create"
    /\ IF row = NoRow
       THEN /\ row' = [owner |-> c, status |-> "running", current_step |-> 0]
            /\ SagaGoto(c, "execute")
       ELSE SagaGoto(c, "refused") /\ UNCHANGED row
    /\ UNCHANGED <<step, tries, effect, spoilt>>

(* One attempt of _execute_step that returns in time.                      *)
Succeed(c) ==
    /\ at[c] = "execute" /\ step[c] \in Steps
    /\ Do(c, step[c])
    /\ tries' = [tries EXCEPT ![c] = 0]
    /\ IF c \in keyed
       THEN SagaGoto(c, "advance") /\ UNCHANGED step
       ELSE step' = [step EXCEPT ![c] = @ + 1] /\ UNCHANGED at
    /\ UNCHANGED <<row, spoilt>>

(* Mutant: one retry too many.                                             *)
OneAttemptMore(c) ==
    /\ at[c] = "execute" /\ step[c] \in Steps
    /\ Suffer("raise") /\ tries[c] <= MaxRetries
    /\ tries' = [tries EXCEPT ![c] = @ + 1]
    /\ UNCHANGED <<row, at, step, effect>>

(* An attempt that raises, or that raises TimeoutError after its effect.   *)
FailedAttempt(c) ==
    /\ at[c] = "execute" /\ step[c] \in Steps
    /\ \/ Suffer("raise") /\ UNCHANGED effect
       \/ Suffer("late") /\ Do(c, step[c])
    /\ IF tries[c] < MaxRetries
       THEN tries' = [tries EXCEPT ![c] = @ + 1] /\ UNCHANGED <<at, step>>
       ELSE /\ SagaGoto(c, IF c \in keyed THEN "fail" ELSE "compensate")
            /\ step' = [step EXCEPT ![c] = @ - 1]
            /\ UNCHANGED tries
    /\ UNCHANGED row

(* Mutant: the index of the next step is stored for the number of steps.   *)
AdvanceTooFar(c) ==
    /\ at[c] = "advance"
    /\ row' = [row EXCEPT !.current_step = step[c] + 1]
    /\ step' = [step EXCEPT ![c] = @ + 1]
    /\ SagaGoto(c, "execute")
    /\ UNCHANGED <<tries, effect, spoilt>>

Advance(c) ==
    /\ at[c] = "advance"
    /\ row' = [row EXCEPT !.current_step = step[c]]
    /\ step' = [step EXCEPT ![c] = @ + 1]
    /\ SagaGoto(c, "execute")
    /\ UNCHANGED <<tries, effect, spoilt>>

Complete(c) ==
    /\ at[c] = "execute" /\ step[c] > NumSteps
    /\ row' = IF c \in keyed THEN [row EXCEPT !.status = "completed"] ELSE row
    /\ SagaGoto(c, "returned")
    /\ UNCHANGED <<step, tries, effect, spoilt>>

(* Mutant: a step counts as completed only after advance.                  *)
StoreRaisesTooEarly(c) ==
    /\ c \in keyed /\ Suffer("store")
    /\ at[c] = "advance"
    /\ step' = [step EXCEPT ![c] = @ - 1]
    /\ SagaGoto(c, "fail")
    /\ UNCHANGED <<row, tries, effect>>

(* The store raises in advance or in complete: the steps done so far are   *)
(* compensated, the last one included.                                     *)
StoreRaises(c) ==
    /\ c \in keyed /\ Suffer("store")
    /\ \/ at[c] = "advance" /\ UNCHANGED step
       \/ /\ at[c] = "execute" /\ step[c] > NumSteps
          /\ step' = [step EXCEPT ![c] = NumSteps]
    /\ SagaGoto(c, "fail")
    /\ UNCHANGED <<row, tries, effect>>

-----------------------------------------------------------------------------
(* The except branch: fail, compensating, and the completed steps in       *)
(* reverse.  When the store raises here the compensations are skipped.     *)
Fail(c) ==
    /\ at[c] = "fail"
    /\ \/ /\ row' = [row EXCEPT !.status = "failed"]
          /\ SagaGoto(c, "compensating")
          /\ UNCHANGED spoilt
       \/ Suffer("store") /\ SagaGoto(c, "raised") /\ UNCHANGED row
    /\ UNCHANGED <<step, tries, effect>>

Compensating(c) ==
    /\ at[c] = "compensating"
    /\ \/ /\ row' = [row EXCEPT !.status = "compensating"]
          /\ SagaGoto(c, "compensate")
          /\ UNCHANGED spoilt
       \/ Suffer("store") /\ SagaGoto(c, "raised") /\ UNCHANGED row
    /\ UNCHANGED <<step, tries, effect>>

(* Mutant: the loop stops at a step that cannot be undone.                 *)
CompensateUntilNone(c) ==
    /\ at[c] = "compensate" /\ step[c] > 0
    /\ IF step[c] \in Compensable
       THEN Undo(c, step[c]) /\ step' = [step EXCEPT ![c] = @ - 1]
       ELSE step' = [step EXCEPT ![c] = 0] /\ UNCHANGED effect
    /\ UNCHANGED <<row, at, tries, spoilt>>

(* A compensation that raises is logged and the loop goes on.              *)
Compensate(c) ==
    /\ at[c] = "compensate" /\ step[c] > 0
    /\ step' = [step EXCEPT ![c] = @ - 1]
    /\ IF step[c] \in Compensable
       THEN \/ Undo(c, step[c]) /\ UNCHANGED spoilt
            \/ Suffer("compensate") /\ UNCHANGED effect
       ELSE UNCHANGED <<effect, spoilt>>
    /\ UNCHANGED <<row, at, tries>>

Reraise(c) ==
    /\ at[c] = "compensate" /\ step[c] = 0
    /\ SagaGoto(c, "raised")
    /\ UNCHANGED <<row, step, tries, effect, spoilt>>

(* The process dies with the sagas it runs; the row stays.  Calls that     *)
(* have not begun are made by the process that comes after.                *)
SagaCrash ==
    /\ Suffer("crash") /\ "crash" \notin spoilt
    /\ at' = [c \in Callers |-> IF at[c] \in SagaEnded \cup {"start"} THEN at[c] ELSE "dead"]
    /\ UNCHANGED <<keyed, row, step, tries, effect>>

Run(c) ==
    /\ \/ Lookup(c) \/ Create(c) \/ Succeed(c) \/ FailedAttempt(c) \/ Advance(c) \/ Complete(c)
       \/ StoreRaises(c) \/ Fail(c) \/ Compensating(c) \/ Compensate(c) \/ Reraise(c)
    /\ UNCHANGED keyed

SagaNext == SagaCrash \/ \E c \in Callers : Run(c)

SagaSpec == SagaInit /\ [][SagaNext]_sagaVars

(* run is a plain loop over callbacks that return: a caller that is not    *)
(* dead goes on.                                                           *)
SagaFairSpec == SagaSpec /\ \A c \in Callers : WF_sagaVars(Run(c))

-----------------------------------------------------------------------------
(* Properties.                                                             *)

SagaTypeOK ==
    /\ keyed \subseteq Callers
    /\ row \in {NoRow} \cup [owner : keyed, current_step : 0 .. NumSteps,
                             status : {"running", "completed", "failed", "compensating"}]
    /\ at \in [Callers -> SagaEnded \cup {"start", "create", "execute", "advance", "fail",
                                      "compensating", "compensate"}]
    /\ step \in [Callers -> 0 .. NumSteps + 1]
    /\ tries \in [Callers -> 0 .. MaxRetries]
    /\ effect \in [Callers -> [Steps -> Nat]]
    /\ spoilt \subseteq SagaFaults

(* The callers of the key whose effect of step s is in place.              *)
InPlace(s) == {c \in keyed : effect[c][s] > 0}

(* ADR-003, "Idempotency keys for exactly-once semantics": whoever calls   *)
(* run with the key, and however often, the effect of a step is never in   *)
(* place twice, provided that no step answered late.                       *)
NeverTwice ==
    "late" \notin spoilt =>
        \A s \in Steps : \A c, d \in InPlace(s) : c = d /\ effect[c][s] = 1

(* ADR-003, "reverse-order compensation": a step is undone only when no    *)
(* later step of the same call is in place, so that what is in place is at *)
(* every moment what a prefix of the saga did, unless a late step or a     *)
(* failed compensation left something behind.                              *)
UndoneInReverse ==
    spoilt \cap {"late", "compensate"} = {} =>
        \A c \in Callers : \A s, t \in Compensable :
            s < t /\ effect[c][t] > 0 => effect[c][s] > 0

(* ADR-003, "Automatic cleanup on failure": when run has raised, nothing   *)
(* that can be undone is left of the steps it did, unless a step was late, *)
(* a compensation failed or the store did.                                 *)
Cleanup ==
    spoilt \cap {"late", "compensate", "store"} = {} =>
        \A c \in Callers : at[c] = "raised" => \A s \in Compensable : effect[c][s] = 0

(* Both: what is undone is undone in order, and in the end all of it is.   *)
EffectsUndone == UndoneInReverse /\ Cleanup

(* A caller is answered with results only when each step has been done and *)
(* none undone, also when the answer is taken from an earlier saga; and a  *)
(* row that says completed says so of a saga whose effects are in place.   *)
AnsweredIsDone ==
    /\ row # NoRow /\ row.status = "completed" => \A s \in Steps : effect[row.owner][s] > 0
    /\ \A c \in Callers :
          /\ at[c] = "returned" => \A s \in Steps : effect[c][s] > 0
          /\ at[c] = "reused" => \A s \in Steps : InPlace(s) # {}

(* The row of a saga under way, or cut off by a crash, tells how far it    *)
(* came: its first current_step steps are in place, the one after them     *)
(* may be, and no other.                                                   *)
RowTellsProgress ==
    row # NoRow /\ row.status = "running" =>
        \A s \in Steps : /\ s <= row.current_step => effect[row.owner][s] > 0
                         /\ s > row.current_step + 1 => effect[row.owner][s] = 0

(* Both together: rows, answers and effects never contradict each other.   *)
RowAndAnswersTrue == AnsweredIsDone /\ RowTellsProgress

(* Retries, compensations and refusals are bounded: run always ends.       *)
SagaEnds == \A c \in Callers : <>(at[c] \in SagaEnded)
=============================================================================
