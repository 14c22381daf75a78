----------------------------- MODULE MCWorkflows ------------------------------
(***************************************************************************)
(* What takes several steps, each by itself: sagas under one idempotency   *)
(* key, sessions, the files on the way to a release, and the solvers of    *)
(* subgames.  `workflow` says which of them runs, and the others stay as   *)
(* they begin.  The step in the middle of the saga has no compensation.    *)
(***************************************************************************)
EXTENDS Saga, SessionRunner, Release, Subgames

VARIABLE workflow

FirstAndLast == {1, NumSteps}
OnlyRaises == {"raise"}

(* A game of guessing, where the second player does not see what the first *)
(* did, and one where the first player chooses again at the end.           *)
Guess ==
    [turn |-> (<<>> :> 0) @@ (<<"a">> :> 1) @@ (<<"b">> :> 1),
     info |-> (<<>> :> "first") @@ (<<"a">> :> "second") @@ (<<"b">> :> "second"),
     acts |-> (<<>> :> <<"a", "b", "c">>) @@ (<<"a">> :> <<"c", "d">>) @@ (<<"b">> :> <<"c", "d">>),
     worth |-> (<<"a", "c">> :> 2) @@ (<<"a", "d">> :> -1) @@ (<<"b", "c">> :> -1)
               @@ (<<"b", "d">> :> 1) @@ (<<"c">> :> 0)]
Again ==
    [turn |-> (<<>> :> 0) @@ (<<"a">> :> 1) @@ (<<"a", "c">> :> 0),
     info |-> (<<>> :> "first") @@ (<<"a">> :> "second") @@ (<<"a", "c">> :> "third"),
     acts |-> (<<>> :> <<"a", "b">>) @@ (<<"a">> :> <<"c", "d">>) @@ (<<"a", "c">> :> <<"a", "b">>),
     worth |-> (<<"b">> :> 1) @@ (<<"a", "d">> :> 0)
               @@ (<<"a", "c", "a">> :> 3) @@ (<<"a", "c", "b">> :> 0)]
SomeTrees == {Guess, Again}
SomeTrembles == {Zero, Ratio(1, 4)}

(* A trunk without sets, one whose set has no actions, and one of three.   *)
Set(info, first, share, second) ==
    [info |-> info, dist |-> <<<<first, share>>, <<second, Minus(Unit, share)>>>>]
SomeTrunks ==
    {<<>>, <<[info |-> "x", dist |-> <<>>]>>,
     <<Set("x", "check", Ratio(1, 2), "bet"), Set("y", "fold", Ratio(1, 4), "call"),
       Set("z", "check", Ratio(1, 2), "bet")>>}
SomeTrunkValues == {-1, 0, 2}

vars == <<workflow, sagaVars, sessionVars, releaseVars, subgameVars>>

Init ==
    /\ workflow \in {"saga", "session", "release", "solver"}
    /\ SagaInit /\ SessionInit /\ ReleaseInit /\ SubgamesInit
    /\ workflow # "saga" => keyed = {}
    /\ workflow # "release" =>
           packaged = {} /\ ~accurate /\ \A r \in Requests : request[r].asks = "alpha"
    /\ workflow # "solver" => trunk = <<>> /\ tree = Gadget(trunk, 0)

RunSaga ==
    workflow = "saga" /\ SagaNext /\ UNCHANGED <<workflow, sessionVars, releaseVars, subgameVars>>
RunSession ==
    workflow = "session" /\ SessionNext /\ UNCHANGED <<workflow, sagaVars, releaseVars, subgameVars>>
RunRelease ==
    workflow = "release" /\ ReleaseNext /\ UNCHANGED <<workflow, sagaVars, sessionVars, subgameVars>>
RunSolver ==
    workflow = "solver" /\ Walk /\ UNCHANGED <<workflow, sagaVars, sessionVars, releaseVars>>

Next == RunSaga \/ RunSession \/ RunRelease \/ RunSolver

Spec == Init /\ [][Next]_vars

(* Each call of run and of run_h2h, once it runs, goes on by itself.       *)
FairSpec ==
    /\ Spec
    /\ \A c \in Callers :
          WF_vars(/\ workflow = "saga" /\ Run(c)
                  /\ UNCHANGED <<workflow, sessionVars, releaseVars, subgameVars>>)
    /\ \A s \in Sessions :
          WF_vars(/\ workflow = "session" /\ SessionStep(s)
                  /\ UNCHANGED <<workflow, sagaVars, releaseVars, subgameVars>>)

(* The rows, the effects and the places in the code are what they can be.  *)
WorkflowsTypeOK == SagaTypeOK /\ SessionTypeOK

(* Every saga and every session that was called comes to an end, with      *)
(* results or an error: retries, compensations, refusals and failures are  *)
(* bounded.                                                                *)
WorkflowsEnd == /\ workflow = "saga" => SagaEnds
                /\ workflow = "session" => SessionSettles

(* The solvers keep the bounds of their regrets, every action they must,   *)
(* and the information sets and actions of the trunk.                      *)
SolversHold == workflow = "solver" => SubgamesSolved
=============================================================================
