--------------------------- MODULE PolicyGateProofs ---------------------------
(***************************************************************************)
(* Lemmas about the policy gate as a function, for every configuration.    *)
(***************************************************************************)
EXTENDS PolicyGate, TLAPS

(* Rounding a count of quarters gives a whole number of shares no further  *)
(* than half a share away (rounding.rs).                                   *)
LEMMA RoundingCost ==
    ASSUME NEW x \in Int
    PROVE  /\ round_half_to_even(x) \in Int
           /\ 2 * Abs(x - round_half_to_even(x)) <= Lot
  BY DEF round_half_to_even, Lot, Abs

(* The applied multiplier is a number whatever the adviser said.           *)
LEMMA MultiplierType ==
    ASSUME NEW assessment \in AssessmentType
    PROVE  AppliedMultiplier(assessment) \in Int
  BY ConfigAssumption
     DEF AppliedMultiplier, clamp_like_python, ConfigType, AssessmentType, Tenths

(* The trade that closes the whole gap, which no adviser has a say in.     *)
WholeTrade(hedge) ==
    IF Config.allow_fractional_shares THEN RawTrade(hedge)
    ELSE round_half_to_even(RawTrade(hedge))

(* The preview before its limits is nothing, or that trade.                *)
LEMMA PreviewIsNothingOrWholeTrade ==
    ASSUME NEW hedge \in HedgeType, NEW assessment \in AssessmentType
    PROVE  /\ PreviewTrade(hedge, assessment) \in Int
           /\ PreviewTrade(hedge, assessment) \in {0, WholeTrade(hedge)}
           /\ IsFinite(hedge) /\ ~InsideBand(hedge, assessment)
                => PreviewTrade(hedge, assessment) = WholeTrade(hedge)
<1>1. CASE ~IsFinite(hedge) \/ InsideBand(hedge, assessment)
  BY <1>1 DEF PreviewTrade
<1>2. CASE IsFinite(hedge) /\ ~InsideBand(hedge, assessment)
  <2>1. hedge.target \in Int /\ hedge.current \in Int
    BY <1>2 DEF HedgeType, IsFinite
  <2>2. RawTrade(hedge) \in Int
    BY <2>1 DEF RawTrade
  <2>3. round_half_to_even(RawTrade(hedge)) \in Int
    BY <2>2, RoundingCost
  <2>4. PreviewTrade(hedge, assessment) = WholeTrade(hedge)
    BY <1>2 DEF PreviewTrade, WholeTrade
  <2> QED BY <2>2, <2>3, <2>4 DEF WholeTrade
<1> QED BY <1>1, <1>2

(* The midpoint of a quote is a number, however the book looks.            *)
LEMMA MidpointType ==
    ASSUME NEW q \in QuoteType
    PROVE  Midpoint2(q) \in Int
  BY DEF Midpoint2, QuoteType

(* Whatever the gate is given, it returns a decision.                      *)
LEMMA DecisionIsTyped ==
    ASSUME NEW i \in InputType, NEW t \in Int
    PROVE  evaluate_policy(i, t) \in DecisionType
<1>1. BlockingReasons(i, t) \in SUBSET Blockers
  BY DEF BlockingReasons, Blockers
<1>2. PreviewTrade(i.hedge, i.assessment) \in Int
  BY PreviewIsNothingOrWholeTrade DEF InputType
<1>3. Notional2(i) \in Int
  BY <1>2, MidpointType DEF Notional2, InputType, Abs
<1> QED
  BY <1>1, <1>2, <1>3 DEF evaluate_policy, DecisionType, Actions
=============================================================================
