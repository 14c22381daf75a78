--------------------------- MODULE SessionRunner ----------------------------
(***************************************************************************)
(* SessionRunner.run_h2h of services/session_service/service.py over the   *)
(* session tables of packages/persistence/sqlite_store.py: sessions that   *)
(* run at the same time in the threads of the API, each of which persists  *)
(* its simulated hands one transaction at a time, writes a report file,    *)
(* stores its summary, and deletes what it stored when anything fails.     *)
(*                                                                         *)
(* Failures: a simulated hand or any statement may raise, the compensation *)
(* included, and the process may die.  The clock gives report files their  *)
(* names, to the second, so that sessions of one second share a file; and  *)
(* write_text empties the file before it writes.                           *)
(***************************************************************************)
EXTENDS Naturals, FiniteSets

CONSTANTS
    Sessions,    \* calls of run_h2h, each with its own session_id
    NumHands,    \* SessionConfig.num_hands
    MaxSeconds,  \* bound on the clock
    SessionFaults,      \* what may go wrong: a subset of SessionFaultKinds
    Nobody       \* no session has opened the file

SessionFaultKinds == {"raise", "delete", "crash"}

ASSUME SessionAssumption ==
    NumHands \in Nat /\ MaxSeconds \in Nat \ {0} /\ SessionFaults \subseteq SessionFaultKinds
ASSUME NobodyAssumption == Nobody \notin Sessions

VARIABLES
    rows,      \* rows[s]: the row in sessions: "none", "open" or "summarised"
    hands,     \* hands[s]: the session's rows in hands, by index
    batches,   \* batches[s]: the hands whose actions and terminal snapshot are stored
    uow,       \* uow[s]: what its open transaction has written, not yet visible
    stage,        \* stage[s]: where run_h2h is
    next,      \* next[s]: the hand persisted next
    named,     \* named[s]: the second that names its report, 0 before it has one
    files,     \* files[t]: who opened session_<t>.json last, and what is in it
    clock      \* seconds

sessionVars == <<rows, hands, batches, uow, stage, next, named, files, clock>>

Indices == 1 .. NumHands
Seconds == 1 .. MaxSeconds
SessionEnded == {"returned", "raised", "leftover", "dead"}
NoWrites == [hands |-> {}, batches |-> {}]

NoReport == [by |-> Nobody, holds |-> "nothing"]
Report(s, part) == [by |-> s, holds |-> part]

SessionGoto(s, label) == stage' = [stage EXCEPT ![s] = label]

SessionInit ==
    /\ rows = [s \in Sessions |-> "none"]
    /\ hands = [s \in Sessions |-> {}]
    /\ batches = [s \in Sessions |-> {}]
    /\ uow = [s \in Sessions |-> NoWrites]
    /\ stage = [s \in Sessions |-> "create_session"]
    /\ next = [s \in Sessions |-> 1]
    /\ named = [s \in Sessions |-> 0]
    /\ files = [t \in Seconds |-> NoReport]
    /\ clock = 1

-----------------------------------------------------------------------------
(* create_session is outside the try: when it raises nothing was stored.   *)
CreateSession(s) ==
    /\ stage[s] = "create_session"
    /\ \/ /\ rows' = [rows EXCEPT ![s] = "open"]
          /\ SessionGoto(s, "simulate")
       \/ "raise" \in SessionFaults /\ SessionGoto(s, "raised") /\ UNCHANGED rows
    /\ UNCHANGED <<hands, batches, uow, next, named, files, clock>>

(* All hands are simulated, here or in a pool of processes, before the     *)
(* first is stored.                                                        *)
Simulate(s) ==
    /\ stage[s] = "simulate"
    /\ SessionGoto(s, "next_hand")
    /\ UNCHANGED <<rows, hands, batches, uow, next, named, files, clock>>

(* Mutant: a hand is stored outside its transaction.                       *)
CreateHandAtOnce(s) ==
    /\ stage[s] = "next_hand" /\ next[s] \in Indices
    /\ hands' = [hands EXCEPT ![s] = @ \cup {next[s]}]
    /\ SessionGoto(s, "append_batch")
    /\ UNCHANGED <<rows, uow, batches, next, named, files, clock>>

(* The unit of work of one hand: create_hand, append_hand_batch, commit.   *)
CreateHand(s) ==
    /\ stage[s] = "next_hand" /\ next[s] \in Indices
    /\ uow' = [uow EXCEPT ![s].hands = {next[s]}]
    /\ SessionGoto(s, "append_batch")
    /\ UNCHANGED <<rows, hands, batches, next, named, files, clock>>

AppendHandBatch(s) ==
    /\ stage[s] = "append_batch"
    /\ uow' = [uow EXCEPT ![s].batches = {next[s]}]
    /\ SessionGoto(s, "commit")
    /\ UNCHANGED <<rows, hands, batches, next, named, files, clock>>

Commit(s) ==
    /\ stage[s] = "commit"
    /\ hands' = [hands EXCEPT ![s] = @ \cup uow[s].hands]
    /\ batches' = [batches EXCEPT ![s] = @ \cup uow[s].batches]
    /\ uow' = [uow EXCEPT ![s] = NoWrites]
    /\ next' = [next EXCEPT ![s] = @ + 1]
    /\ SessionGoto(s, "next_hand")
    /\ UNCHANGED <<rows, named, files, clock>>

(* The name of the report is the current second.                           *)
StampReport(s) ==
    /\ stage[s] = "next_hand" /\ next[s] > NumHands
    /\ named' = [named EXCEPT ![s] = clock]
    /\ SessionGoto(s, "open_report")
    /\ UNCHANGED <<rows, hands, batches, uow, next, files, clock>>

(* write_text: the file of that name is created or emptied, and then       *)
(* written; if another session opened it meanwhile, the two write over     *)
(* each other, and the shorter text leaves an end of the longer one.       *)
OpenReportFile(s) ==
    /\ stage[s] = "open_report"
    /\ files' = [files EXCEPT ![named[s]] = Report(s, "part")]
    /\ SessionGoto(s, "write_report")
    /\ UNCHANGED <<rows, hands, batches, uow, next, named, clock>>

WriteReport(s) ==
    /\ stage[s] = "write_report"
    /\ \E outcome \in IF files[named[s]] = Report(s, "part") THEN {"whole"} ELSE {"whole", "mixed"} :
          files' = [files EXCEPT ![named[s]] = Report(s, outcome)]
    /\ SessionGoto(s, "update_summary")
    /\ UNCHANGED <<rows, hands, batches, uow, next, named, clock>>

UpdateSummary(s) ==
    /\ stage[s] = "update_summary"
    /\ rows' = [rows EXCEPT ![s] = "summarised"]
    /\ SessionGoto(s, "returned")
    /\ UNCHANGED <<hands, batches, uow, next, named, files, clock>>

-----------------------------------------------------------------------------
(* Any statement of the try raises: an open unit of work is rolled back,   *)
(* and the except branch compensates.                                      *)
Raise(s) ==
    /\ "raise" \in SessionFaults
    /\ stage[s] \notin SessionEnded \cup {"create_session", "delete"}
    /\ uow' = [uow EXCEPT ![s] = NoWrites]
    /\ SessionGoto(s, "delete")
    /\ UNCHANGED <<rows, hands, batches, next, named, files, clock>>

(* Mutant: the action log is not deleted.                                  *)
DeleteWithoutLog(s) ==
    /\ stage[s] = "delete"
    /\ rows' = [rows EXCEPT ![s] = "none"]
    /\ hands' = [hands EXCEPT ![s] = {}]
    /\ SessionGoto(s, "raised")
    /\ UNCHANGED <<batches, uow, next, named, files, clock>>

(* delete_session_data is one transaction; when it raises the rows stay.   *)
DeleteSessionData(s) ==
    /\ stage[s] = "delete"
    /\ \/ /\ rows' = [rows EXCEPT ![s] = "none"]
          /\ hands' = [hands EXCEPT ![s] = {}]
          /\ batches' = [batches EXCEPT ![s] = {}]
          /\ SessionGoto(s, "raised")
       \/ /\ "delete" \in SessionFaults /\ SessionGoto(s, "leftover")
          /\ UNCHANGED <<rows, hands, batches>>
    /\ UNCHANGED <<uow, next, named, files, clock>>

(* The process dies: open transactions vanish, what is committed stays.    *)
SessionCrash ==
    /\ "crash" \in SessionFaults
    /\ stage' = [s \in Sessions |-> IF stage[s] \in SessionEnded THEN stage[s] ELSE "dead"]
    /\ uow' = [s \in Sessions |-> NoWrites]
    /\ UNCHANGED <<rows, hands, batches, next, named, files, clock>>

Tick ==
    /\ clock < MaxSeconds
    /\ clock' = clock + 1
    /\ UNCHANGED <<rows, hands, batches, uow, stage, next, named, files>>

SessionStep(s) ==
    \/ CreateSession(s) \/ Simulate(s) \/ CreateHand(s) \/ AppendHandBatch(s) \/ Commit(s)
    \/ StampReport(s) \/ OpenReportFile(s) \/ WriteReport(s) \/ UpdateSummary(s) \/ DeleteSessionData(s)

SessionNext == SessionCrash \/ Tick \/ \E s \in Sessions : SessionStep(s) \/ Raise(s)

SessionSpec == SessionInit /\ [][SessionNext]_sessionVars

(* A request's thread goes on until run_h2h returns or raises.             *)
SessionFairSpec == SessionSpec /\ \A s \in Sessions : WF_sessionVars(SessionStep(s))

-----------------------------------------------------------------------------
(* Properties.                                                             *)

SessionTypeOK ==
    /\ rows \in [Sessions -> {"none", "open", "summarised"}]
    /\ hands \in [Sessions -> SUBSET Indices] /\ batches \in [Sessions -> SUBSET Indices]
    /\ uow \in [Sessions -> [hands : SUBSET Indices, batches : SUBSET Indices]]
    /\ stage \in [Sessions -> SessionEnded \cup
                     {"create_session", "simulate", "next_hand", "append_batch", "commit",
                      "open_report", "write_report", "update_summary", "delete"}]
    /\ next \in [Sessions -> 1 .. NumHands + 1]
    /\ named \in [Sessions -> 0 .. MaxSeconds]
    /\ files \in [Seconds -> [by : Sessions \cup {Nobody},
                          holds : {"nothing", "part", "mixed", "whole"}]]
    /\ clock \in Seconds

(* What a reader of the tables may rely on while sessions run, fail and    *)
(* die: no hand without its actions and snapshots, the hands are the first *)
(* ones of the session, and a summary stands for all of them.  The file it *)
(* names is there, and is the session's own and whole unless another       *)
(* session took its name in the same second: then it may be the other's,   *)
(* cut short, or a mixture.                                                *)
ReadersSeeWhole ==
    \A s \in Sessions :
        /\ hands[s] = batches[s]
        /\ hands[s] = 1 .. Cardinality(hands[s])
        /\ rows[s] = "none" => hands[s] = {}
        /\ rows[s] = "summarised" =>
              /\ hands[s] = Indices
              /\ files[named[s]] # NoReport
              /\ \/ files[named[s]] = Report(s, "whole")
                 \/ \E t \in Sessions \ {s} : named[t] = named[s]

(* The comment of the except branch: a session that failed has no row left *)
(* in any table, wherever it failed; only a failed compensation or a crash *)
(* leaves some.                                                            *)
FailureLeavesNoRows ==
    \A s \in Sessions : stage[s] = "raised" => rows[s] = "none" /\ hands[s] = {} /\ batches[s] = {}

(* service.py, "remove partial session artifacts on failure": a session    *)
(* that failed has left no report behind either, whole or not.             *)
FailureLeavesNothing ==
    \A s \in Sessions : stage[s] = "raised" => \A t \in Seconds : files[t].by # s

(* Every call of run_h2h ends, and ends with the whole session or with an  *)
(* error.                                                                  *)
SessionSettles == \A s \in Sessions : <>(stage[s] \in SessionEnded)
=============================================================================
