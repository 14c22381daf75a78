------------------------------- MODULE Release --------------------------------
(***************************************************************************)
(* Files that requests of the API write and read without a lock, on the    *)
(* way to a release: the export of a dataset (DatasetBuilder.export), the  *)
(* policy registry, the reports of EvaluationService, the model cards of   *)
(* GovernanceService, and AlphaCandidateService, which asks them all.      *)
(*                                                                         *)
(* There is one dataset and one model.  write_text truncates a file and    *)
(* then writes it, and a reader in between sees a part: JSON that is       *)
(* refused, or fewer rows.                                                 *)
(***************************************************************************)
EXTENDS Naturals, Sequences

CONSTANT Requests    \* the requests that evaluate or assess the model on the dataset

Files == {"rows", "manifest", "train", "model", "report_all", "report_train", "card"}

VARIABLES
    file,      \* file[f]: absent, part or whole
    export,    \* the files that export has still to write, in order
    listed,    \* whether GET /v1/datasets and GET /v1/models have shown them
    packaged,  \* which packaging assets are there
    accurate,  \* whether the model passes the thresholds on all rows
    request,   \* request[r]: what it asks for, where it is, and what it has seen
    reported   \* reported[f]: whether the report in f is about all its rows

releaseVars == <<file, export, listed, packaged, accurate, request, reported>>

(* Mutant: the manifest is written before the rows it announces.           *)
ManifestFirst == <<"manifest", "rows", "train">>

ExportOrder == <<"rows", "manifest", "train">>

Assets == {"Dockerfile", "docker-compose.yml"}

(* The requests ask for the model on all rows or on a split, or whether    *)
(* it is an alpha candidate.                                               *)
Asks == {"evaluate_all", "evaluate_train", "alpha"}

ReleaseInit ==
    /\ file = [f \in Files |-> "absent"]
    /\ export = ExportOrder
    /\ listed = {}
    /\ packaged \in SUBSET Assets /\ accurate \in BOOLEAN
    /\ \E asks \in [Requests -> Asks] :
          request = [r \in Requests |->
                        [asks |-> asks[r], at |-> "new", all |-> FALSE, after |-> FALSE,
                         blocked |-> FALSE, evaluation |-> "none"]]
    /\ reported = [f \in {"report_all", "report_train"} |-> FALSE]

(* The two halves of write_text.                                           *)
Truncate(f) == file' = [file EXCEPT ![f] = "part"]
WriteOut(f) == file' = [file EXCEPT ![f] = "whole"]

-----------------------------------------------------------------------------
(* DatasetBuilder.export: the rows, the manifest, and a file for a split.  *)
Export ==
    /\ export # <<>>
    /\ \/ file[Head(export)] = "absent" /\ Truncate(Head(export)) /\ UNCHANGED export
       \/ file[Head(export)] = "part" /\ WriteOut(Head(export)) /\ export' = Tail(export)
    /\ UNCHANGED <<listed, packaged, accurate, request, reported>>

(* PolicyRegistry.save.                                                    *)
SaveModel ==
    /\ \/ file["model"] = "absent" /\ Truncate("model")
       \/ file["model"] = "part" /\ WriteOut("model")
    /\ UNCHANGED <<export, listed, packaged, accurate, request, reported>>

(* list_exports and list_models parse every file they find; what they      *)
(* answer tells a client the ids it then asks about.                       *)
ListThem ==
    /\ \/ file["manifest"] = "whole" /\ listed' = listed \cup {"dataset"}
       \/ file["model"] = "whole" /\ listed' = listed \cup {"model"}
    /\ UNCHANGED <<file, export, packaged, accurate, request, reported>>

-----------------------------------------------------------------------------
Alpha(r) == request[r].asks = "alpha"
RowsFile(r) == IF request[r].asks = "evaluate_train" THEN "train" ELSE "rows"
ReportFile(r) == IF request[r].asks = "evaluate_train" THEN "report_train" ELSE "report_all"

At(r, label) == request[r].at = label
Answer(r, status) == request' = [request EXCEPT ![r].at = status]

(* ReadinessService.snapshot blocks what has no manifest, no model file,   *)
(* whole or not, or no Dockerfile.                                         *)
AssetsMissing ==
    file["manifest"] = "absent" \/ file["model"] = "absent" \/ "Dockerfile" \notin packaged

Ask(r) ==
    /\ At(r, "new") /\ listed = {"dataset", "model"}
    /\ request' = [request EXCEPT ![r].at = "load", ![r].after = (export = <<>>),
                                  ![r].blocked = (Alpha(r) /\ AssetsMissing)]
    /\ UNCHANGED <<file, export, listed, packaged, accurate, reported>>

(* _load_rows: 404 for a file that is not there; of one that is cut short  *)
(* the last row is refused, or the rows before the cut are all it sees.    *)
(* The model has been listed, and is whole.                                *)
Load(r) ==
    /\ At(r, "load")
    /\ \/ file[RowsFile(r)] = "absent" /\ Answer(r, "not_found")
       \/ file[RowsFile(r)] = "part" /\ Answer(r, "error")
       \/ /\ file[RowsFile(r)] # "absent"
          /\ request' = [request EXCEPT ![r].at = "report",
                                        ![r].all = (file[RowsFile(r)] = "whole")]
    /\ UNCHANGED <<file, export, listed, packaged, accurate, reported>>

(* evaluate_model writes its report.                                       *)
OpenReport(r) ==
    /\ At(r, "report")
    /\ Truncate(ReportFile(r)) /\ Answer(r, "reporting")
    /\ UNCHANGED <<export, listed, packaged, accurate, reported>>

(* Of evaluate_candidate: rows and accuracy below the thresholds block.    *)
WriteEvaluation(r) ==
    /\ At(r, "reporting")
    /\ WriteOut(ReportFile(r))
    /\ reported' = [reported EXCEPT ![ReportFile(r)] = request[r].all]
    /\ \E passes \in IF request[r].all THEN {accurate} ELSE BOOLEAN :
          request' = [request EXCEPT ![r].at = IF Alpha(r) THEN "card" ELSE "evaluated",
                                     ![r].blocked = (@ \/ (Alpha(r) /\ ~passes))]
    /\ UNCHANGED <<export, listed, packaged, accurate>>

(* _latest_evaluations reads the reports in the order of their names, and  *)
(* the last one of a model counts: that of a split before that of all.     *)
LastReport == IF file["report_train"] = "absent" THEN "report_all" ELSE "report_train"

(* build_model_card: a report cut short is an error.                       *)
OpenCard(r) ==
    /\ At(r, "card")
    /\ IF "part" \in {file["report_all"], file["report_train"]}
       THEN Answer(r, "error") /\ UNCHANGED file
       ELSE /\ Truncate("card")
            /\ request' = [request EXCEPT ![r].at = "carding", ![r].evaluation = LastReport]
    /\ UNCHANGED <<export, listed, packaged, accurate, reported>>

(* The answer of AlphaCandidateService.snapshot, with DeployService's      *)
(* manifest of the packaging assets.                                       *)
WriteCard(r) ==
    /\ At(r, "carding")
    /\ WriteOut("card")
    /\ Answer(r, IF request[r].blocked \/ packaged # Assets THEN "blocked" ELSE "candidate")
    /\ UNCHANGED <<export, listed, packaged, accurate, reported>>

RequestStep(r) ==
    Ask(r) \/ Load(r) \/ OpenReport(r) \/ WriteEvaluation(r) \/ OpenCard(r) \/ WriteCard(r)

ReleaseNext == Export \/ SaveModel \/ ListThem \/ \E r \in Requests : RequestStep(r)

ReleaseSpec == ReleaseInit /\ [][ReleaseNext]_releaseVars

-----------------------------------------------------------------------------
(* Properties.                                                             *)

Answered(r) == request[r].at \in {"not_found", "error", "evaluated", "blocked", "candidate"}

(* What the lists have shown can be relied on: a request for all rows, or  *)
(* for a split once the export is over, is never told that the model or    *)
(* the dataset does not exist and is evaluated on every row, so a          *)
(* candidate passed the thresholds on the whole dataset, with its          *)
(* packaging in place and with a report and a model card to show for it.   *)
CandidateIsBacked ==
    \A r \in Requests :
        /\ request[r].asks # "evaluate_train" \/ request[r].after =>
               /\ request[r].at # "not_found"
               /\ request[r].at \in {"reporting", "card", "carding", "evaluated",
                                     "blocked", "candidate"} => request[r].all
        /\ request[r].at = "candidate" =>
               /\ accurate /\ packaged = Assets
               /\ file["report_all"] # "absent" /\ reported["report_all"]
               /\ file["card"] # "absent" /\ request[r].evaluation # "none"
=============================================================================
