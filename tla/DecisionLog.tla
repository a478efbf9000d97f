----------------------------- MODULE DecisionLog -----------------------------
(***************************************************************************)
(* What the audit trail promises, whatever records it (HLR-060, and step 6 *)
(* of ARCHITECTURE's decision lifecycle): a log of decisions that only     *)
(* grows, one decision to an identifier, and no decision handed to anybody *)
(* before it is in the log.  Nothing is said of when, or in which order.   *)
(***************************************************************************)

VARIABLES
    log,       \* the decisions recorded
    released   \* the decisions some caller was given

logVars == <<log, released>>

LogInit == log = {} /\ released = {}

Record(d) ==
    /\ \A e \in log : e.decision_id # d.decision_id
    /\ log' = log \cup {d}
    /\ UNCHANGED released

Release(d) ==
    /\ d \in log
    /\ released' = released \cup {d}
    /\ UNCHANGED log

LogNext ==
    \/ \E d \in log' \ log : Record(d)
    \/ \E d \in released' \ released : Release(d)

LogSpec == LogInit /\ [][LogNext]_logVars
=============================================================================
