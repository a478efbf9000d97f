----------------------------- MODULE GateSession -----------------------------
(***************************************************************************)
(* One set of market inputs put through the policy gate again and again:   *)
(* at other times (a polling loop, the backtester) and with another        *)
(* adviser's answer (a model, its fallback).  What must not change between *)
(* two such evaluations is what the gate promises about its inputs.        *)
(***************************************************************************)
EXTENDS PolicyGate

CONSTANTS
    Books,        \* exchange quotes: bp and ap (zero when absent), and t
    Closes,       \* last bar closes
    Qualities,    \* data qualities
    Supplied,     \* sets of evidence identifiers the snapshot may carry
    Hedges,       \* answers of the core
    Assessments,  \* answers of the adviser
    Times         \* clock readings

ASSUME SessionAssumption ==
    /\ Books \subseteq [bp : Int, ap : Int, t : Int \cup {Unparseable}]
    /\ Closes \subseteq Int
    /\ Qualities \subseteq Nat
    /\ Supplied \subseteq SUBSET EvidenceId
    /\ Hedges \subseteq HedgeType
    /\ Assessments \subseteq AssessmentType
    /\ Times \subseteq Int

VARIABLES
    book,      \* the exchange's quote the inputs were built from
    in,        \* the gate's inputs
    now,       \* the clock reading it is given
    decision   \* what it decided

vars == <<book, in, now, decision>>

TypeOK ==
    /\ book \in Books
    /\ in \in InputType
    /\ now \in Times
    /\ decision \in DecisionType

Init ==
    /\ book \in Books
    /\ now \in Times
    /\ \E close \in Closes, state \in {"open", "closed"}, quality \in Qualities,
          ids \in Supplied, hedge \in Hedges, assessment \in Assessments :
          in = [quote        |-> build_quote(book, close, state),
                data_quality |-> quality,
                evidence_ids |-> ids,
                hedge        |-> hedge,
                assessment   |-> assessment]
    /\ decision = evaluate_policy(in, now)

(* The same inputs and assessment, at another time.                        *)
EvaluateAt(t) ==
    /\ now' = t
    /\ decision' = evaluate_policy(in, t)
    /\ UNCHANGED <<book, in>>

(* The same inputs at the same time, with another assessment.              *)
EvaluateWith(assessment) ==
    /\ in' = [in EXCEPT !.assessment = assessment]
    /\ decision' = evaluate_policy(in', now)
    /\ UNCHANGED <<book, now>>

Next ==
    \/ \E t \in Times : EvaluateAt(t)
    \/ \E assessment \in Assessments : EvaluateWith(assessment)

Spec == Init /\ [][Next]_vars

-----------------------------------------------------------------------------
Approved(d) == d.paper_preview_approved

(* HLR-050, limits: an approved preview respects the share and the notional *)
(* limit as it stands after rounding to whole shares.                       *)
LimitsHoldAfterRounding ==
    Approved(decision) =>
        /\ Abs(decision.preview_shares) <= Config.max_abs_trade_shares
        /\ Abs(decision.preview_shares) * Midpoint2(in.quote)
               <= Config.max_preview_notional

(* A rebalance preview ends at the core's target, give or take the half    *)
(* share that rounding may cost: neither the adviser nor the band can make *)
(* it stop short or overshoot.                                             *)
RebalanceReachesTarget ==
    decision.action = "paper_rebalance_preview" =>
        LET left == in.hedge.target - (in.hedge.current + decision.preview_shares)
        IN  IF Config.allow_fractional_shares THEN left = 0 ELSE 2 * Abs(left) <= Lot

(* Once an approved preview has been carried out, the same target asks for *)
(* no further trade: the gate does not oscillate around a target.          *)
RebalanceSettles ==
    Approved(decision) /\ decision.action = "paper_rebalance_preview" =>
        LET held == in.hedge.current + decision.preview_shares
            next == [in EXCEPT !.hedge.current = held]
        IN  evaluate_policy(next, now).preview_shares = 0

(* Both: a rebalance goes all the way in one step, and stays there.        *)
RebalanceIsFinal == RebalanceReachesTarget /\ RebalanceSettles

IsHeard(i) == i.assessment.confidence >= Config.min_model_confidence_for_band_change
CitesUnknown(i) == ~(i.assessment.evidence_ids \subseteq i.evidence_ids)

(* HLR-080: an adviser decides whether the band is left, never how much is *)
(* traded: two previews of the same inputs that trade, trade the same.  One *)
(* below the confidence floor does not even decide that: whatever multiple *)
(* it asks for, the decision is the one any other such adviser would get,  *)
(* but for what it cites.                                                  *)
AdviserCannotSizeTrade ==
    [][ now' = now /\ in'.hedge = in.hedge =>
            /\ \/ decision.preview_shares = 0
               \/ decision'.preview_shares = 0
               \/ decision'.preview_shares = decision.preview_shares
            /\ ~IsHeard(in) /\ ~IsHeard(in') /\ (CitesUnknown(in) <=> CitesUnknown(in')) =>
                  decision' = decision ]_vars

(* What the gate finds wrong with the market data, whoever the adviser is. *)
DataBlockers ==
    {"LIVE_MODE_FORBIDDEN", "INVALID_QUOTE", "STALE_QUOTE", "SPREAD_TOO_WIDE",
     "DATA_QUALITY_TOO_LOW", "NONFINITE_CORE_VALUE"}

(* ARCHITECTURE, trust hierarchy: no answer of the adviser lifts a block   *)
(* that the market data or the configuration put up, or approves anyway.   *)
AdviserCannotLiftDataBlock ==
    [][ now' = now =>
            /\ decision'.blocking_reasons \cap DataBlockers
                   = decision.blocking_reasons \cap DataBlockers
            /\ decision.blocking_reasons \cap DataBlockers # {}
                   => decision'.action = "observe_blocked" ]_vars

(* HLR-050, staleness: waiting cannot turn a blocked decision into an      *)
(* approved one while the inputs stay the same.                            *)
WaitingNeverUnblocks ==
    [][ in' = in /\ now' >= now /\ Approved(decision') => Approved(decision) ]_vars

(* THREAT_MODEL, protected properties: an illiquid quote fails closed.  A  *)
(* book with neither a bid nor an ask has no liquidity at all.             *)
EmptyBookIsBlocked ==
    book.bp = 0 /\ book.ap = 0 => decision.action = "observe_blocked"
=============================================================================
