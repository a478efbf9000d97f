------------------------------ MODULE PolicyGate ------------------------------
(***************************************************************************)
(* evaluate_policy: the gate every recommendation passes, independent of   *)
(* the model adviser.                                                      *)
(*                                                                         *)
(* Shares are counted in quarters of a share (Lot of them make one), the   *)
(* coarsest grid on which rounding to a whole share goes down, up and to   *)
(* even.  A band multiplier and a confidence are counted in tenths         *)
(* (Tenths).  The share limit is in quarters of a share, the notional      *)
(* limit in quarters of a share times half a tick.  Products are exact     *)
(* integers, where the code uses f64.  Warnings, which nothing reads, are  *)
(* left out.                                                               *)
(***************************************************************************)
EXTENDS MarketQuote, FiniteSets

CONSTANTS
    Config,      \* the policy section of the configuration, and mode
    EvidenceId,  \* identifiers of evidence items
    NonFinite    \* a core answer whose target, trade or band is not finite

Lot == 4
Tenths == 10

ConfigType ==
    [mode : {"paper", "live"}, paper_only : BOOLEAN,
     max_quote_age_seconds : Nat, max_spread_bps : Nat, min_data_quality : Nat,
     min_model_confidence_for_band_change : Nat,
     min_band_multiplier : Nat, max_band_multiplier : Nat,
     allow_fractional_shares : BOOLEAN,
     max_abs_trade_shares : Nat, max_preview_notional : Nat,
     require_market_open_for_preview : BOOLEAN]

ASSUME ConfigAssumption == Config \in ConfigType
ASSUME EvidenceAssumption == NonFinite \notin [target : Int, current : Int, band : Int]
ASSUME UnparseableAssumption == Unparseable \notin Int

(* What the C++ core says of the hedge: shares to hold, shares held, and   *)
(* the no-trade band before the adviser scales it.  A hedge that is not    *)
(* finite is blocked as such; which other reasons its infinities or NaNs   *)
(* would add is not told apart.                                            *)
HedgeType == [target : Int, current : Int, band : Int] \cup {NonFinite}

(* The adviser's answer, the part the gate reads.                           *)
AssessmentType ==
    [confidence : Nat, band_multiplier : Int, evidence_ids : SUBSET EvidenceId]

(* Everything evaluate_policy is given besides the clock.                   *)
InputType ==
    [quote : QuoteType, data_quality : Nat, evidence_ids : SUBSET EvidenceId,
     hedge : HedgeType, assessment : AssessmentType]

Blockers ==
    {"LIVE_MODE_FORBIDDEN", "INVALID_QUOTE", "STALE_QUOTE", "SPREAD_TOO_WIDE",
     "DATA_QUALITY_TOO_LOW", "MODEL_CITED_UNKNOWN_EVIDENCE",
     "NONFINITE_CORE_VALUE", "TRADE_SHARE_LIMIT", "PREVIEW_NOTIONAL_LIMIT",
     "MARKET_NOT_OPEN"}

Actions ==
    {"observe_blocked", "hold_inside_effective_band", "paper_rebalance_preview"}

DecisionType ==
    [action : Actions, paper_preview_approved : BOOLEAN,
     preview_shares : Int, preview_notional2 : Int,
     blocking_reasons : SUBSET Blockers]

-----------------------------------------------------------------------------
Abs(x) == IF x >= 0 THEN x ELSE -x

(* x.max(lo).min(hi): the upper limit wins when the two are out of order.   *)
clamp_like_python(x, lo, hi) ==
    LET raised == IF x >= lo THEN x ELSE lo
    IN  IF raised <= hi THEN raised ELSE hi

Mut_RoundAwayFromZero(x) ==
    IF x >= 0 THEN ((x + Lot - 1) \div Lot) * Lot ELSE (x \div Lot) * Lot

(* round_half_to_even, on quarters of a share.                              *)
round_half_to_even(x) ==
    LET floor == x \div Lot
        diff  == x % Lot
        up    == 2 * diff > Lot \/ (2 * diff = Lot /\ floor % 2 = 1)
    IN  (IF up THEN floor + 1 ELSE floor) * Lot

(* The multiplier that scales the band: clamped when the adviser is        *)
(* confident enough, one otherwise.                                        *)
AppliedMultiplier(assessment) ==
    IF assessment.confidence >= Config.min_model_confidence_for_band_change
    THEN clamp_like_python(assessment.band_multiplier,
                           Config.min_band_multiplier, Config.max_band_multiplier)
    ELSE Tenths

IsFinite(hedge) == hedge # NonFinite

RawTrade(hedge) == hedge.target - hedge.current

(* effective_band, times Tenths: max(0, base_band * multiplier).            *)
EffectiveBand(hedge, assessment) ==
    LET band == hedge.band * AppliedMultiplier(assessment)
    IN  IF band >= 0 THEN band ELSE 0

InsideBand(hedge, assessment) ==
    /\ IsFinite(hedge)
    /\ Abs(RawTrade(hedge)) * Tenths <= EffectiveBand(hedge, assessment)

Mut_TradeToBandEdge(hedge, assessment) ==
    LET slack == EffectiveBand(hedge, assessment) \div Tenths
    IN  IF ~IsFinite(hedge) \/ InsideBand(hedge, assessment) THEN 0
        ELSE IF RawTrade(hedge) > 0 THEN RawTrade(hedge) - slack
        ELSE RawTrade(hedge) + slack

(* The trade the gate looks at before its limits: nothing inside the band, *)
(* else the whole gap, in whole shares when fractions are not allowed.     *)
PreviewTrade(hedge, assessment) ==
    IF ~IsFinite(hedge) \/ InsideBand(hedge, assessment) THEN 0
    ELSE IF Config.allow_fractional_shares THEN RawTrade(hedge)
    ELSE round_half_to_even(RawTrade(hedge))

Mut_LimitOnRawTrade(in) ==
    /\ IsFinite(in.hedge) /\ ~InsideBand(in.hedge, in.assessment)
    /\ Abs(RawTrade(in.hedge)) > Config.max_abs_trade_shares

OverShareLimit(in) ==
    Abs(PreviewTrade(in.hedge, in.assessment)) > Config.max_abs_trade_shares

(* |preview| * midpoint, in quarters of a share times half a tick.          *)
Notional2(in) == Abs(PreviewTrade(in.hedge, in.assessment)) * Midpoint2(in.quote)

BlockingReasons(in, now) ==
    LET q == in.quote
        When(condition, reason) == IF condition THEN {reason} ELSE {}
    IN  UNION
        { When(~Config.paper_only \/ Config.mode # "paper", "LIVE_MODE_FORBIDDEN"),
          When(Midpoint2(q) <= 0, "INVALID_QUOTE"),
          When(IsStale(q, now, Config.max_quote_age_seconds), "STALE_QUOTE"),
          When(SpreadExceeds(q, Config.max_spread_bps), "SPREAD_TOO_WIDE"),
          When(in.data_quality < Config.min_data_quality, "DATA_QUALITY_TOO_LOW"),
          When(~(in.assessment.evidence_ids \subseteq in.evidence_ids),
               "MODEL_CITED_UNKNOWN_EVIDENCE"),
          When(~IsFinite(in.hedge), "NONFINITE_CORE_VALUE"),
          When(OverShareLimit(in), "TRADE_SHARE_LIMIT"),
          When(Notional2(in) > Config.max_preview_notional, "PREVIEW_NOTIONAL_LIMIT"),
          When(/\ Config.require_market_open_for_preview
               /\ q.market_state # "open"
               /\ ~InsideBand(in.hedge, in.assessment), "MARKET_NOT_OPEN") }

Mut_HoldBeforeBlock(in, now) ==
    LET approved == BlockingReasons(in, now) = {}
    IN  [action |-> IF InsideBand(in.hedge, in.assessment)
                    THEN "hold_inside_effective_band"
                    ELSE IF ~approved THEN "observe_blocked"
                         ELSE "paper_rebalance_preview",
         paper_preview_approved |-> approved,
         preview_shares    |-> IF approved THEN PreviewTrade(in.hedge, in.assessment) ELSE 0,
         preview_notional2 |-> IF approved THEN Notional2(in) ELSE 0,
         blocking_reasons  |-> BlockingReasons(in, now)]

evaluate_policy(in, now) ==
    LET blockers == BlockingReasons(in, now)
        approved == blockers = {}
    IN  [action |-> IF ~approved THEN "observe_blocked"
                    ELSE IF InsideBand(in.hedge, in.assessment)
                         THEN "hold_inside_effective_band"
                         ELSE "paper_rebalance_preview",
         paper_preview_approved |-> approved,
         preview_shares    |-> IF approved THEN PreviewTrade(in.hedge, in.assessment) ELSE 0,
         preview_notional2 |-> IF approved THEN Notional2(in) ELSE 0,
         blocking_reasons  |-> blockers]
=============================================================================
