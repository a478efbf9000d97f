-------------------------- MODULE MCDecisionHistory --------------------------
(***************************************************************************)
(* Five decisions of two symbols at three times, two of them fighting for  *)
(* one identifier and two made at the same time.                           *)
(***************************************************************************)
EXTENDS DecisionHistory

CONSTANTS d1, d2, d3, d4, spy, qqq

Payload(id, created, symbol) ==
    [decision_id |-> id, created_at |-> created, symbol |-> symbol]

MCDecision ==
    {Payload(d1, 1, spy), Payload(d1, 2, qqq), Payload(d2, 2, spy),
     Payload(d3, 2, qqq), Payload(d4, 3, qqq)}
=============================================================================
