---------------------------- MODULE MCAutonomous ----------------------------
(***************************************************************************)
(* A loop of three cycles that may err twice in a row, and one without a   *)
(* cap; verdicts of every kind, with trades to both sides.                 *)
(***************************************************************************)
EXTENDS Autonomous

Verdict(action, approved, shares) ==
    [action |-> action, approved |-> approved, shares |-> shares]

MCVerdicts ==
    {Verdict("observe_blocked", FALSE, 0),
     Verdict("hold_inside_effective_band", TRUE, 0)}
        \cup {Verdict("paper_rebalance_preview", TRUE, n) : n \in {-2, 0, 3}}
=============================================================================
