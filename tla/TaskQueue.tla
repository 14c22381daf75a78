------------------------------ MODULE TaskQueue -------------------------------
(***************************************************************************)
(* Background tasks: TaskQueue of packages/task_queue/worker.py and the    *)
(* readers of apps/api/routers/tasks.py.                                   *)
(*                                                                         *)
(* A TaskInfo is changed under the lock, one field after the other.        *)
(* get_task takes the lock only to find the TaskInfo; the handler then     *)
(* copies its fields without it, so that copying is one step per field and *)
(* falls between the assignments of a worker.  Of a field other than the   *)
(* status it matters whether it is set.                                    *)
(***************************************************************************)
EXTENDS Integers, Sequences, SequencesExt, FiniteSets

CONSTANTS
    Tasks,      \* the tasks somebody may submit
    Workers,    \* the threads of the executor
    Readers,    \* concurrent requests for a task
    Nothing     \* Python's None

ASSUME NothingAssumption == Nothing \notin Tasks \cup Workers

VARIABLES
    tasks,      \* _tasks: from known ids to TaskInfo
    pending,    \* the executor's queue
    lock,       \* the worker that holds _lock, or Nothing
    job,        \* job[w]: the task worker w runs, or Nothing
    todo,       \* todo[w]: the fields w has still to assign before it releases the lock
    registered, \* tasks whose submit has returned from the locked block
    answer,     \* answer[r]: the copy reader r makes, [task, fields]
    broken      \* history: tasks whose function raised a BaseException

taskVars == <<tasks, pending, lock, job, todo, registered, answer, broken>>

Fields == <<"status", "started_at", "completed_at", "result", "error", "progress">>

NewTask == [status |-> "pending", started_at |-> FALSE, completed_at |-> FALSE,
            result |-> FALSE, error |-> FALSE, progress |-> FALSE]

Set(field) == [field |-> field, value |-> TRUE]
SetStatus(status) == [field |-> "status", value |-> status]

(* Mutant: progress is set whatever became of the task.                    *)
FailedAtFull == <<SetStatus("failed"), Set("error"), Set("completed_at"), Set("progress")>>

Started == <<SetStatus("running"), Set("started_at")>>
Completed == <<SetStatus("completed"), Set("result"), Set("completed_at"), Set("progress")>>
Failed == <<SetStatus("failed"), Set("error"), Set("completed_at")>>

-----------------------------------------------------------------------------
(* submit: the task becomes known under the lock, and is queued after it.  *)

(* Mutant: the task is queued without being known.                         *)
RegisterLate(t) ==
    /\ t \notin DOMAIN tasks \cup registered
    /\ registered' = registered \cup {t}
    /\ UNCHANGED <<tasks, pending, lock, job, todo, answer, broken>>

Register(t) ==
    /\ t \notin DOMAIN tasks /\ lock = Nothing
    /\ tasks' = [u \in DOMAIN tasks \cup {t} |-> IF u = t THEN NewTask ELSE tasks[u]]
    /\ registered' = registered \cup {t}
    /\ UNCHANGED <<pending, lock, job, todo, answer, broken>>

Enqueue(t) ==
    /\ t \in registered
    /\ pending' = Append(pending, t)
    /\ registered' = registered \ {t}
    /\ UNCHANGED <<tasks, lock, job, todo, answer, broken>>

-----------------------------------------------------------------------------
(* _run_task                                                               *)

(* A worker takes the first task; a task it does not know raises KeyError, *)
(* which ends up in a future nobody looks at.                              *)
Take(w) ==
    /\ job[w] = Nothing /\ lock = Nothing /\ pending # <<>>
    /\ pending' = Tail(pending)
    /\ IF Head(pending) \in DOMAIN tasks
       THEN /\ lock' = w
            /\ job' = [job EXCEPT ![w] = Head(pending)]
            /\ todo' = [todo EXCEPT ![w] = Started]
       ELSE UNCHANGED <<lock, job, todo>>
    /\ UNCHANGED <<tasks, registered, answer, broken>>

(* The next assignment; after the last the lock is released, and after the *)
(* last of a finished task the worker is free.                             *)
Assign(w) ==
    /\ lock = w
    /\ LET next == Head(todo[w])
           last == Len(todo[w]) = 1
       IN  /\ tasks' = [tasks EXCEPT ![job[w]][next.field] = next.value]
           /\ todo' = [todo EXCEPT ![w] = Tail(@)]
           /\ lock' = IF last THEN Nothing ELSE w
           /\ job' = IF last /\ next.field # "started_at" THEN [job EXCEPT ![w] = Nothing]
                     ELSE job
    /\ UNCHANGED <<pending, registered, answer, broken>>

Runs(w) == job[w] # Nothing /\ todo[w] = <<>>

Return(w) ==
    /\ Runs(w) /\ lock = Nothing
    /\ lock' = w
    /\ todo' = [todo EXCEPT ![w] = Completed]
    /\ UNCHANGED <<tasks, pending, job, registered, answer, broken>>

RaiseException(w) ==
    /\ Runs(w) /\ lock = Nothing
    /\ lock' = w
    /\ todo' = [todo EXCEPT ![w] = Failed]
    /\ UNCHANGED <<tasks, pending, job, registered, answer, broken>>

(* except Exception does not catch it: the worker goes on with the next    *)
(* task and this one keeps the status it has.                              *)
RaiseBaseException(w) ==
    /\ Runs(w)
    /\ broken' = broken \cup {job[w]}
    /\ job' = [job EXCEPT ![w] = Nothing]
    /\ UNCHANGED <<tasks, pending, lock, todo, registered, answer>>

-----------------------------------------------------------------------------
(* GET /v1/tasks/{task_id}                                                 *)

GetTask(r, t) ==
    /\ lock = Nothing /\ t \in DOMAIN tasks
    /\ answer[r].task = Nothing \/ Len(answer[r].fields) = Len(Fields)
    /\ answer' = [answer EXCEPT ![r] = [task |-> t, fields |-> <<>>]]
    /\ UNCHANGED <<tasks, pending, lock, job, todo, registered, broken>>

CopyField(r) ==
    /\ answer[r].task # Nothing /\ Len(answer[r].fields) < Len(Fields)
    /\ LET next == Fields[Len(answer[r].fields) + 1]
       IN  answer' = [answer EXCEPT ![r].fields = Append(@, tasks[answer[r].task][next])]
    /\ UNCHANGED <<tasks, pending, lock, job, todo, registered, broken>>

-----------------------------------------------------------------------------
TaskInit ==
    /\ tasks = [t \in {} |-> NewTask]
    /\ pending = <<>> /\ lock = Nothing /\ registered = {} /\ broken = {}
    /\ job = [w \in Workers |-> Nothing]
    /\ todo = [w \in Workers |-> <<>>]
    /\ answer = [r \in Readers |-> [task |-> Nothing, fields |-> <<>>]]

Work(w) == Take(w) \/ Assign(w) \/ Return(w) \/ RaiseException(w) \/ RaiseBaseException(w)

TaskNext ==
    \/ \E t \in Tasks : Register(t) \/ Enqueue(t)
    \/ \E w \in Workers : Work(w)
    \/ \E r \in Readers : CopyField(r) \/ \E t \in Tasks : GetTask(r, t)

TaskSpec == TaskInit /\ [][TaskNext]_taskVars

(* A caller of submit gets to its end, the threads of the executor go on   *)
(* working, and the functions they run return or raise.                    *)
TaskFairness ==
    /\ \A t \in Tasks : WF_taskVars(Enqueue(t))
    /\ \A w \in Workers : WF_taskVars(Work(w))

-----------------------------------------------------------------------------
(* Properties.                                                             *)

(* The workers and what they hold fit together: one task is run by one     *)
(* worker, the lock is with a worker that has something left to assign,    *)
(* and a task waits, runs or has settled, and only one of these.           *)
TasksTypeOK ==
    /\ \A w \in Workers : lock = w <=> todo[w] # <<>>
    /\ \A v, w \in Workers : v # w /\ job[v] # Nothing => job[v] # job[w]
    /\ \A i, j \in DOMAIN pending : i # j => pending[i] # pending[j]
    /\ \A w \in Workers, i \in DOMAIN pending : job[w] # pending[i]
    /\ \A t \in DOMAIN tasks :
          tasks[t].status = "pending" =>
              t \in registered \cup ToSet(pending) \cup {job[w] : w \in Workers}

Answered(r) == Len(answer[r].fields) = Len(Fields)
Field(r, i) == answer[r].fields[i]

(* No answer mixes two outcomes, although its fields are copied while a    *)
(* worker assigns them.  The time at which the task ended is assigned      *)
(* after the outcome and copied before it, so that an answer that gives    *)
(* the one gives the other; a task that is said to have failed has no      *)
(* result, and one that is said to have completed was started and has no   *)
(* error.                                                                  *)
OneOutcome ==
    \A r \in Readers : Answered(r) =>
        /\ Field(r, 3) => Field(r, 4) # Field(r, 5)
        /\ Field(r, 1) = "failed" => ~Field(r, 4) /\ ~Field(r, 6)
        /\ Field(r, 1) = "completed" => Field(r, 2) /\ ~Field(r, 5)

(* Every task that was submitted settles, also when others fail or break   *)
(* in its worker, unless its own function raises what is no Exception.     *)
TasksSettle ==
    \A t \in Tasks :
        t \in registered ~> \/ t \in broken
                            \/ t \in DOMAIN tasks /\ tasks[t].status \in {"completed", "failed"}
=============================================================================
