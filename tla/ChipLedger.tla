----------------------------- MODULE ChipLedger -----------------------------
(***************************************************************************)
(* What a hand promises the players about their chips, whatever its rules: *)
(* a player's chips leave its stack only into its own stake, the stakes    *)
(* are paid out once, in full, to players who have not given up, and       *)
(* nobody is paid twice.                                                   *)
(***************************************************************************)
EXTENDS Table

CONSTANT StackVectors   \* the stacks a hand may start with

VARIABLES
    chips,    \* chips[s]: what seat s has behind
    staked,   \* staked[s]: what seat s has put into the pot
    out,      \* the seats that gave up
    open      \* the stakes are not paid out yet

ledger == <<chips, staked, out, open>>

Stake(s, n) == /\ chips' = [chips EXCEPT ![s] = @ - n]
               /\ staked' = [staked EXCEPT ![s] = @ + n]

(* The stakes, with n more chips from seat s, go back to seats that are    *)
(* still in; a stake nobody called may go back to its owner.               *)
PayOut(s, n) ==
    LET before == [chips EXCEPT ![s] = @ - n]
    IN  /\ SeatSum(chips') = SeatSum(chips) + SeatSum(staked)
        /\ \A t \in Seats : chips'[t] >= before[t]
        /\ \A t \in out' : chips'[t] = before[t]
        /\ staked' = [t \in Seats |-> 0]

Init ==
    /\ chips \in [Seats -> Nat] /\ staked \in [Seats -> Nat]
    /\ [s \in Seats |-> chips[s] + staked[s]] \in StackVectors
    /\ out = {}
    /\ open = TRUE

GiveUp(s) ==
    /\ open /\ s \notin out
    /\ out' = out \cup {s}
    /\ \/ open' /\ UNCHANGED <<chips, staked>>
       \/ ~open' /\ PayOut(s, 0)

PutUp(s) ==
    /\ open /\ s \notin out
    /\ \E n \in 0 .. chips[s] :
          \/ open' /\ Stake(s, n)
          \/ ~open' /\ PayOut(s, n)
    /\ UNCHANGED out

Next == \E s \in Seats : GiveUp(s) \/ PutUp(s)

Spec == Init /\ [][Next]_ledger
=============================================================================
