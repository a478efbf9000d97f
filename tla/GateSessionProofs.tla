-------------------------- MODULE GateSessionProofs --------------------------
(***************************************************************************)
(* What the policy gate promises, proved for every configuration, every    *)
(* set of quotes, core answers and adviser answers, and every clock.       *)
(***************************************************************************)
EXTENDS GateSession, PolicyGateProofs

(* Inputs are built from quotes, and stay inputs.                          *)
LEMMA QuoteIsBuilt ==
    ASSUME NEW b \in Books, NEW close \in Closes, NEW state \in {"open", "closed"}
    PROVE  build_quote(b, close, state) \in QuoteType
  BY SessionAssumption DEF build_quote, SideOr, QuoteType

(* The type invariant of the gate's inputs and of its decision.            *)
THEOREM TypeCorrect == Spec => []TypeOK
<1>1. Init => TypeOK
  <2> SUFFICES ASSUME Init PROVE TypeOK
    OBVIOUS
  <2>1. in \in InputType
    BY QuoteIsBuilt, SessionAssumption DEF Init, InputType
  <2>2. decision \in DecisionType
    BY <2>1, DecisionIsTyped, SessionAssumption DEF Init
  <2> QED BY <2>1, <2>2 DEF Init, TypeOK
<1>2. TypeOK /\ [Next]_vars => TypeOK'
  <2> SUFFICES ASSUME TypeOK, [Next]_vars PROVE TypeOK'
    OBVIOUS
  <2>1. ASSUME NEW t \in Times, EvaluateAt(t) PROVE TypeOK'
    BY <2>1, DecisionIsTyped, SessionAssumption DEF EvaluateAt, TypeOK
  <2>2. ASSUME NEW a \in Assessments, EvaluateWith(a) PROVE TypeOK'
    <3>1. in' \in InputType
      BY <2>2, SessionAssumption DEF EvaluateWith, TypeOK, InputType
    <3>2. decision' \in DecisionType
      BY <2>2, <3>1, DecisionIsTyped, SessionAssumption DEF EvaluateWith, TypeOK
    <3> QED BY <2>2, <3>1, <3>2 DEF EvaluateWith, TypeOK
  <2>3. CASE UNCHANGED vars
    BY <2>3 DEF vars, TypeOK
  <2> QED BY <2>1, <2>2, <2>3 DEF Next
<1> QED BY <1>1, <1>2, PTL DEF Spec

(* The inductive fact the safety theorems rest on.                         *)
Evaluated == decision = evaluate_policy(in, now)

(* The decision is always the verdict on the inputs it stands beside.      *)
LEMMA AlwaysEvaluated == Spec => []Evaluated
<1>1. Init => Evaluated
  BY DEF Init, Evaluated
<1>2. Evaluated /\ [Next]_vars => Evaluated'
  BY DEF Evaluated, Next, EvaluateAt, EvaluateWith, vars
<1> QED BY <1>1, <1>2, PTL DEF Spec

(* HLR-050: an approved preview is within the share and notional limits    *)
(* after rounding.                                                         *)
THEOREM LimitsHold == Spec => []LimitsHoldAfterRounding
<1>1. TypeOK /\ Evaluated => LimitsHoldAfterRounding
  <2> SUFFICES ASSUME TypeOK, Evaluated, Approved(decision)
               PROVE  /\ Abs(decision.preview_shares) <= Config.max_abs_trade_shares
                      /\ Abs(decision.preview_shares) * Midpoint2(in.quote)
                             <= Config.max_preview_notional
    BY DEF LimitsHoldAfterRounding
  <2>1. BlockingReasons(in, now) = {}
    BY DEF Approved, Evaluated, evaluate_policy
  <2>2. ~OverShareLimit(in) /\ ~(Notional2(in) > Config.max_preview_notional)
    BY <2>1 DEF BlockingReasons
  <2>3. decision.preview_shares = PreviewTrade(in.hedge, in.assessment)
    BY <2>1 DEF Evaluated, evaluate_policy
  <2>4. PreviewTrade(in.hedge, in.assessment) \in Int
    BY PreviewIsNothingOrWholeTrade DEF TypeOK, InputType
  <2>5. Notional2(in) \in Int
    BY <2>4, MidpointType DEF Notional2, TypeOK, InputType, Abs
  <2> QED BY <2>2, <2>3, <2>4, <2>5, ConfigAssumption
          DEF OverShareLimit, Notional2, ConfigType, Abs
<1> QED BY <1>1, TypeCorrect, AlwaysEvaluated, PTL

(* A rebalance preview ends within half a share of the core's target.      *)
THEOREM ReachesTarget == Spec => []RebalanceReachesTarget
<1>1. TypeOK /\ Evaluated => RebalanceReachesTarget
  <2> SUFFICES ASSUME TypeOK, Evaluated, decision.action = "paper_rebalance_preview"
               PROVE  LET left == in.hedge.target - (in.hedge.current + decision.preview_shares)
                      IN  IF Config.allow_fractional_shares THEN left = 0
                          ELSE 2 * Abs(left) <= Lot
    BY DEF RebalanceReachesTarget
  <2>1. BlockingReasons(in, now) = {} /\ ~InsideBand(in.hedge, in.assessment)
    BY DEF Evaluated, evaluate_policy
  <2>2. IsFinite(in.hedge)
    BY <2>1 DEF BlockingReasons
  <2>3. in.hedge.target \in Int /\ in.hedge.current \in Int
    BY <2>2 DEF TypeOK, InputType, HedgeType, IsFinite
  <2>4. decision.preview_shares = WholeTrade(in.hedge)
    BY <2>1, <2>2, PreviewIsNothingOrWholeTrade
       DEF Evaluated, evaluate_policy, TypeOK, InputType
  <2>5. RawTrade(in.hedge) \in Int
    BY <2>3 DEF RawTrade
  <2>6. CASE Config.allow_fractional_shares
    BY <2>3, <2>4, <2>6 DEF WholeTrade, RawTrade
  <2>7. CASE ~Config.allow_fractional_shares
    <3>1. decision.preview_shares = round_half_to_even(RawTrade(in.hedge))
      BY <2>4, <2>7 DEF WholeTrade
    <3>2. 2 * Abs(RawTrade(in.hedge) - decision.preview_shares) <= Lot
      BY <3>1, <2>5, RoundingCost
    <3>3. decision.preview_shares \in Int
      BY <3>1, <2>5, RoundingCost
    <3> QED BY <2>3, <2>7, <3>2, <3>3 DEF RawTrade, Abs, Lot
  <2> QED BY <2>6, <2>7
<1> QED BY <1>1, TypeCorrect, AlwaysEvaluated, PTL

(* An adviser that is not heard leaves the band as it is.                   *)
LEMMA NotHeardNotFelt ==
    ASSUME NEW i, NEW assessment, NEW t,
           ~IsHeard(i), ~IsHeard([i EXCEPT !.assessment = assessment]),
           i \in InputType, assessment \in AssessmentType,
           CitesUnknown(i) <=> CitesUnknown([i EXCEPT !.assessment = assessment])
    PROVE  evaluate_policy([i EXCEPT !.assessment = assessment], t) = evaluate_policy(i, t)
<1> DEFINE j == [i EXCEPT !.assessment = assessment]
<1>1. /\ j.quote = i.quote /\ j.data_quality = i.data_quality /\ j.hedge = i.hedge
      /\ j.evidence_ids = i.evidence_ids /\ j.assessment = assessment
  BY DEF InputType
<1>2. AppliedMultiplier(j.assessment) = Tenths /\ AppliedMultiplier(i.assessment) = Tenths
  BY DEF IsHeard, AppliedMultiplier
<1>3. ~IsHeard(j) /\ (CitesUnknown(i) <=> CitesUnknown(j))
  OBVIOUS
<1> HIDE DEF j
<1>4. InsideBand(j.hedge, j.assessment) <=> InsideBand(i.hedge, i.assessment)
  BY <1>1, <1>2 DEF InsideBand, EffectiveBand
<1>5. PreviewTrade(j.hedge, j.assessment) = PreviewTrade(i.hedge, i.assessment)
  BY <1>1, <1>4 DEF PreviewTrade
<1>6. Notional2(j) = Notional2(i) /\ (OverShareLimit(j) <=> OverShareLimit(i))
  BY <1>1, <1>5 DEF Notional2, OverShareLimit
<1>7. BlockingReasons(j, t) = BlockingReasons(i, t)
  BY <1>1, <1>3, <1>4, <1>6 DEF BlockingReasons, CitesUnknown
<1>8. evaluate_policy(j, t) = evaluate_policy(i, t)
  BY <1>1, <1>4, <1>5, <1>6, <1>7 DEF evaluate_policy
<1> QED BY <1>8 DEF j

(* HLR-080: for the same hedge, two adviser answers never give two         *)
(* different trades, and two that are not heard give one decision, for all *)
(* configurations and answers.                                             *)
THEOREM CannotSizeTrade == Spec => AdviserCannotSizeTrade
<1> DEFINE SameTrade == \/ decision.preview_shares = 0
                        \/ decision'.preview_shares = 0
                        \/ decision'.preview_shares = decision.preview_shares
           SameDecision == ~IsHeard(in) /\ ~IsHeard(in') /\ (CitesUnknown(in) <=> CitesUnknown(in'))
                              => decision' = decision
<1>1. TypeOK /\ TypeOK' /\ Evaluated /\ Evaluated' /\ in'.hedge = in.hedge => SameTrade
  <2> SUFFICES ASSUME TypeOK, TypeOK', Evaluated, Evaluated', in'.hedge = in.hedge
               PROVE  SameTrade
    OBVIOUS
  <2>1. decision.preview_shares \in {0, PreviewTrade(in.hedge, in.assessment)}
    BY DEF Evaluated, evaluate_policy
  <2>2. decision'.preview_shares \in {0, PreviewTrade(in'.hedge, in'.assessment)}
    BY DEF Evaluated, evaluate_policy
  <2>3. in.hedge \in HedgeType /\ in.assessment \in AssessmentType
    BY DEF TypeOK, InputType
  <2>4. in'.hedge \in HedgeType /\ in'.assessment \in AssessmentType
    BY DEF TypeOK, InputType
  <2>5. PreviewTrade(in.hedge, in.assessment) \in {0, WholeTrade(in.hedge)}
    BY <2>3, PreviewIsNothingOrWholeTrade
  <2>6. PreviewTrade(in'.hedge, in'.assessment) \in {0, WholeTrade(in.hedge)}
    BY <2>4, PreviewIsNothingOrWholeTrade
  <2> QED BY <2>1, <2>2, <2>5, <2>6
<1>2. TypeOK /\ Evaluated /\ Evaluated' /\ [Next]_vars /\ now' = now => SameDecision
  <2> SUFFICES ASSUME TypeOK, Evaluated, Evaluated', [Next]_vars, now' = now
               PROVE  SameDecision
    OBVIOUS
  <2>1. decision = evaluate_policy(in, now) /\ decision' = evaluate_policy(in', now)
    BY DEF Evaluated
  <2>2. CASE UNCHANGED in
    BY <2>1, <2>2
  <2>3. CASE \E a \in Assessments : EvaluateWith(a)
    <3>1. PICK a \in Assessments : in' = [in EXCEPT !.assessment = a]
      BY <2>3 DEF EvaluateWith
    <3>2. in \in InputType /\ a \in AssessmentType
      BY SessionAssumption DEF TypeOK
    <3>3. SameDecision
      BY <2>1, <3>1, <3>2, NotHeardNotFelt
    <3> QED BY <3>3
  <2> QED BY <2>2, <2>3 DEF Next, EvaluateAt, vars
<1> QED BY <1>1, <1>2, TypeCorrect, AlwaysEvaluated, PTL DEF Spec, AdviserCannotSizeTrade

(* What is left of a gap of whole and quarter shares after a rounded trade *)
(* rounds to no trade: a tie that was rounded to even is not rounded again.*)
LEMMA RoundingIsDone ==
    ASSUME NEW x \in Int
    PROVE  round_half_to_even(x - round_half_to_even(x)) = 0
  BY DEF round_half_to_even, Lot

(* The trade that a decision proposes, once carried out, leaves no gap that *)
(* the gate would trade.                                                   *)
LEMMA NothingIsLeftToTrade ==
    ASSUME NEW target \in Int, NEW current \in Int, NEW band \in Int,
           NEW next \in InputType,
           next.hedge = [target |-> target, band |-> band, current |->
               current + WholeTrade([target |-> target, current |-> current, band |-> band])]
    PROVE  PreviewTrade(next.hedge, next.assessment) = 0
<1> DEFINE gap == target - current
<1>1. gap \in Int
  OBVIOUS
<1>2. WholeTrade([target |-> target, current |-> current, band |-> band])
        = IF Config.allow_fractional_shares THEN gap ELSE round_half_to_even(gap)
  BY DEF WholeTrade, RawTrade
<1>3. CASE Config.allow_fractional_shares
  <2>1. RawTrade(next.hedge) = 0
    BY <1>2, <1>3 DEF RawTrade
  <2> QED BY <1>3, <2>1 DEF PreviewTrade
<1>4. CASE ~Config.allow_fractional_shares
  <2>1. round_half_to_even(gap) \in Int
    BY <1>1, RoundingCost
  <2>2. RawTrade(next.hedge) = gap - round_half_to_even(gap)
    BY <1>2, <1>4, <2>1 DEF RawTrade
  <2>3. round_half_to_even(RawTrade(next.hedge)) = 0
    BY <1>1, <2>2, RoundingIsDone
  <2> QED BY <1>4, <2>3 DEF PreviewTrade
<1> QED BY <1>3, <1>4

(* Carrying out an approved rebalance settles it: at the same target the   *)
(* gate asks for no further trade, for every configuration and gap.        *)
THEOREM Settles == Spec => []RebalanceSettles
<1>1. TypeOK /\ Evaluated => RebalanceSettles
  <2> DEFINE held == in.hedge.current + decision.preview_shares
             next == [in EXCEPT !.hedge.current = held]
  <2> SUFFICES ASSUME TypeOK, Evaluated, decision.action = "paper_rebalance_preview"
               PROVE  evaluate_policy(next, now).preview_shares = 0
    BY DEF RebalanceSettles
  <2>1. BlockingReasons(in, now) = {} /\ ~InsideBand(in.hedge, in.assessment)
    BY DEF Evaluated, evaluate_policy
  <2>2. IsFinite(in.hedge)
    BY <2>1 DEF BlockingReasons
  <2>3. in.hedge \in [target : Int, current : Int, band : Int]
    BY <2>2 DEF TypeOK, InputType, HedgeType, IsFinite
  <2>4. decision.preview_shares = WholeTrade(in.hedge)
    BY <2>1, <2>2, PreviewIsNothingOrWholeTrade
       DEF Evaluated, evaluate_policy, TypeOK, InputType
  <2>5. WholeTrade(in.hedge) \in Int
    BY <2>3, RoundingCost DEF WholeTrade, RawTrade
  <2>6. PICK target \in Int, current \in Int, band \in Int :
          in.hedge = [target |-> target, current |-> current, band |-> band]
    BY <2>3
  <2>7. next.hedge = [target |-> target, band |-> band,
                      current |-> current + WholeTrade(in.hedge)]
    BY <2>4, <2>6 DEF TypeOK, InputType
  <2>8. next \in InputType
    BY <2>3, <2>4, <2>5, <2>6 DEF TypeOK, InputType, HedgeType
  <2> HIDE DEF next
  <2>9. PreviewTrade(next.hedge, next.assessment) = 0
    BY <2>6, <2>7, <2>8, NothingIsLeftToTrade
  <2> QED BY <2>9 DEF evaluate_policy
<1> QED BY <1>1, TypeCorrect, AlwaysEvaluated, PTL

(* Which of the data's blocks are up does not depend on the assessment.    *)
LEMMA DataBlocksIgnoreAdviser ==
    ASSUME NEW i, NEW j, NEW t,
           j.quote = i.quote, j.data_quality = i.data_quality, j.hedge = i.hedge
    PROVE  BlockingReasons(i, t) \cap DataBlockers = BlockingReasons(j, t) \cap DataBlockers
  BY DEF BlockingReasons, DataBlockers

(* One trade is enough: it ends at the target, and none follows it.        *)
THEOREM RebalancesAreFinal == Spec => []RebalanceIsFinal
<1>1. RebalanceReachesTarget /\ RebalanceSettles => RebalanceIsFinal
  BY DEF RebalanceIsFinal
<1> QED BY <1>1, ReachesTarget, Settles, PTL

(* Trust hierarchy: no answer of the adviser lifts or sets up a block that *)
(* the data or the configuration are responsible for.                      *)
THEOREM CannotLiftDataBlock == Spec => AdviserCannotLiftDataBlock
<1> DEFINE Kept == /\ decision'.blocking_reasons \cap DataBlockers
                          = decision.blocking_reasons \cap DataBlockers
                   /\ decision.blocking_reasons \cap DataBlockers # {}
                          => decision'.action = "observe_blocked"
<1>1. TypeOK /\ Evaluated /\ Evaluated' /\ [Next]_vars /\ now' = now => Kept
  <2> SUFFICES ASSUME TypeOK, Evaluated, Evaluated', [Next]_vars, now' = now
               PROVE  Kept
    OBVIOUS
  <2>1. decision.blocking_reasons = BlockingReasons(in, now)
    BY DEF Evaluated, evaluate_policy
  <2>2. decision'.blocking_reasons = BlockingReasons(in', now)
    BY DEF Evaluated, evaluate_policy
  <2>3. /\ in'.quote = in.quote
        /\ in'.data_quality = in.data_quality
        /\ in'.hedge = in.hedge
    BY DEF Next, EvaluateAt, EvaluateWith, vars, TypeOK, InputType
  <2>4. BlockingReasons(in, now) \cap DataBlockers
          = BlockingReasons(in', now) \cap DataBlockers
    BY <2>3, DataBlocksIgnoreAdviser
  <2>5. decision'.blocking_reasons # {} => decision'.action = "observe_blocked"
    BY <2>2 DEF Evaluated, evaluate_policy
  <2> QED BY <2>1, <2>2, <2>4, <2>5
<1> QED BY <1>1, TypeCorrect, AlwaysEvaluated, PTL
        DEF Spec, AdviserCannotLiftDataBlock

(* A quote that is fresh now was fresh at any earlier time.                *)
LEMMA StalenessGrows ==
    ASSUME NEW q \in QuoteType, NEW t \in Int, NEW later \in Int, later >= t,
           IsStale(q, t, Config.max_quote_age_seconds)
    PROVE  IsStale(q, later, Config.max_quote_age_seconds)
  BY ConfigAssumption DEF IsStale, QuoteAge, QuoteType, ConfigType

(* Staleness: waiting never turns a blocked decision into an approved one. *)
THEOREM WaitingBlocks == Spec => WaitingNeverUnblocks
<1>1. /\ TypeOK /\ TypeOK' /\ Evaluated /\ Evaluated'
      /\ in' = in /\ now' >= now /\ Approved(decision')
      => Approved(decision)
  <2> SUFFICES ASSUME TypeOK, TypeOK', Evaluated, Evaluated', in' = in, now' >= now,
                      Approved(decision')
               PROVE  Approved(decision)
    OBVIOUS
  <2>1. BlockingReasons(in, now') = {}
    BY DEF Approved, Evaluated, evaluate_policy
  <2>2. in.quote \in QuoteType /\ now \in Int /\ now' \in Int
    BY SessionAssumption DEF TypeOK, InputType
  <2>3. ~IsStale(in.quote, now, Config.max_quote_age_seconds)
    BY <2>1, <2>2, StalenessGrows DEF BlockingReasons
  <2>4. BlockingReasons(in, now) = {}
    BY <2>1, <2>3 DEF BlockingReasons
  <2> QED BY <2>4 DEF Approved, Evaluated, evaluate_policy
<1> QED BY <1>1, TypeCorrect, AlwaysEvaluated, PTL DEF WaitingNeverUnblocks
=============================================================================
