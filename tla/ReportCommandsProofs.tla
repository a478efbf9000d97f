-------------------------- MODULE ReportCommandsProofs --------------------------
(***************************************************************************)
(* A backtest carries its shares and ends its days hedged, and a portfolio *)
(* is priced at one time: for every configuration, book, core and opinion, *)
(* and for runs of any length.                                             *)
(***************************************************************************)
EXTENDS ReportCommands, PolicyGateProofs

PlainHedge == [target : Int, current : Int, band : Int]

-----------------------------------------------------------------------------
(* What the functions of a day return.                                     *)

(* A contract that resolves keeps its size and its position, and those of  *)
(* the call where the call overrides them.                                 *)
LEMMA ResolvedContract ==
    ASSUME NEW symbol \in DOMAIN Contracts, NEW overrides, NEW midpoint2, NEW now,
           NEW contract,
           contract = resolve_contract(Contracts, symbol, overrides, midpoint2, now),
           ~Failed(contract)
    PROVE  /\ contract.current_shares =
                  Else(overrides.current_shares, Contracts[symbol].current_shares)
           /\ contract.base_no_trade_band_shares = Contracts[symbol].base_no_trade_band_shares
           /\ contract.contracts = Else(overrides.contracts, Contracts[symbol].contracts)
           /\ contract.option_type \in {"call", "put"}
           /\ contract.days_to_expiry
                  = DaysToExpiry(Overridden(Contracts[symbol], overrides), now)
<1> DEFINE raw == Overridden(Contracts[symbol], overrides)
<1>1. Contracts[symbol] \in ContractType
  BY CoreAssumption
<1>2. /\ raw.current_shares = Else(overrides.current_shares, Contracts[symbol].current_shares)
      /\ raw.base_no_trade_band_shares = Contracts[symbol].base_no_trade_band_shares
      /\ raw.contracts = Else(overrides.contracts, Contracts[symbol].contracts)
      /\ DOMAIN raw = {"strike", "expiry", "option_type", "exercise_style", "implied_volatility",
                       "days_to_expiry", "contracts", "current_shares",
                       "base_no_trade_band_shares"}
  BY <1>1 DEF Overridden, ContractType
<1>3. \A why : Failed(Fail(why))
  BY DEF Failed, Fail
<1>4. /\ raw.option_type \in {"call", "put"}
      /\ \E strike : contract = [raw EXCEPT !.strike = Some(strike), !.expiry = None,
                                            !.days_to_expiry = DaysToExpiry(raw, now)]
  BY <1>3 DEF resolve_contract
<1> QED BY <1>2, <1>4

(* The core answers with a hedge of the contract it was given, from a      *)
(* band that is no debt.                                                   *)
LEMMA AnswerIsHedge ==
    ASSUME NEW contract, contract.contracts \in Int, contract.current_shares \in Int,
           contract.base_no_trade_band_shares \in Int,
           NEW midpoint2 \in Int,
           NEW answer \in Answers(contract, Multiplier, midpoint2), ~Failed(answer)
    PROVE  /\ answer.target \in Int
           /\ answer.current = contract.current_shares
           /\ answer.band = contract.base_no_trade_band_shares
           /\ answer.band >= 0
<1>1. validate(contract, midpoint2)
  BY DEF Answers, Failed, Fail
<1>2. PICK delta \in Deltas(contract, midpoint2) :
          answer = calculate(contract, Multiplier, midpoint2, delta)
  BY DEF Answers, Failed, Fail
<1>3. delta \in Int
  BY DEF Deltas, ExpiryDelta
<1>4. Multiplier \in Int
  BY CoreAssumption
<1>5. contract.contracts * Multiplier * delta \in Int
  BY <1>3, <1>4
<1> QED BY <1>1, <1>2, <1>5 DEF calculate, validate

-----------------------------------------------------------------------------
(* What the gate makes of a hedge: the action tells how much is traded,    *)
(* and where that leaves the position.                                     *)
Widest == IF Config.max_band_multiplier > Tenths THEN Config.max_band_multiplier ELSE Tenths

(* No opinion widens the band beyond the configured maximum.               *)
LEMMA MultiplierIsBounded ==
    ASSUME NEW assessment \in AssessmentType
    PROVE  AppliedMultiplier(assessment) <= Widest
  BY ConfigAssumption
     DEF AppliedMultiplier, clamp_like_python, ConfigType, AssessmentType, Widest, Tenths

(* A product grows with its factor.                                        *)
LEMMA Monotone ==
    ASSUME NEW a \in Nat, NEW b \in Int, NEW c \in Int, b <= c
    PROVE  a * b <= a * c
<1>1. a * (c - b) >= 0
  OBVIOUS
<1>2. a * (c - b) = a * c - a * b
  OBVIOUS
<1> QED BY <1>1, <1>2

(* The verdict on a finite hedge (evaluate.rs 104-187): approved trades    *)
(* reach the target, held days were inside the widest band, and nothing    *)
(* else is traded.                                                         *)
LEMMA VerdictIsRight ==
    ASSUME NEW in, NEW now, in.hedge \in PlainHedge, in.assessment \in AssessmentType,
           in.hedge.band >= 0,
           NEW verdict, verdict = evaluate_policy(in, now)
    PROVE  /\ verdict.preview_shares \in Int
           /\ verdict.action \in Actions
           /\ verdict.action = "paper_rebalance_preview" =>
                 2 * Abs(RawTrade(in.hedge) - verdict.preview_shares) <= Lot
           /\ verdict.action = "hold_inside_effective_band" =>
                 /\ verdict.preview_shares = 0
                 /\ Abs(RawTrade(in.hedge)) * Tenths <= in.hedge.band * Widest
           /\ verdict.action = "observe_blocked" => verdict.preview_shares = 0
<1> DEFINE raw == RawTrade(in.hedge)
           preview == PreviewTrade(in.hedge, in.assessment)
           inside == InsideBand(in.hedge, in.assessment)
<1>1. in.hedge \in HedgeType /\ IsFinite(in.hedge)
  BY EvidenceAssumption DEF PlainHedge, HedgeType, IsFinite
<1>2. raw \in Int
  BY DEF RawTrade, PlainHedge
<1>3. preview \in Int
  BY <1>1, PreviewIsNothingOrWholeTrade
<1>4. ~inside => 2 * Abs(raw - preview) <= Lot
  <2>1. raw - raw = 0
    BY <1>2
  <2> QED BY <1>1, <1>2, <2>1, RoundingCost DEF PreviewTrade, Abs, Lot
<1>5. inside => preview = 0
  BY DEF PreviewTrade
<1>6. inside => Abs(raw) * Tenths <= in.hedge.band * Widest
  <2>1. in.hedge.band \in Nat
    BY DEF PlainHedge
  <2>2. AppliedMultiplier(in.assessment) \in Int /\ Widest \in Int
    BY MultiplierType, ConfigAssumption DEF Widest, ConfigType, Tenths
  <2>3. in.hedge.band * AppliedMultiplier(in.assessment) <= in.hedge.band * Widest
    BY <2>1, <2>2, MultiplierIsBounded, Monotone
  <2>4. in.hedge.band * Widest \in Nat
    BY <2>1, ConfigAssumption DEF Widest, ConfigType, Tenths
  <2>5. EffectiveBand(in.hedge, in.assessment) <= in.hedge.band * Widest
    BY <2>3, <2>4 DEF EffectiveBand
  <2>6. EffectiveBand(in.hedge, in.assessment) \in Int
    BY <2>1, <2>2 DEF EffectiveBand
  <2>7. Abs(raw) * Tenths \in Int
    BY <1>2 DEF Abs, Tenths
  <2>8. in.hedge.band * Widest \in Int
    BY <2>4
  <2>9. inside => Abs(raw) * Tenths <= EffectiveBand(in.hedge, in.assessment)
    BY DEF InsideBand
  <2> HIDE DEF inside, raw
  <2> QED BY <2>5, <2>6, <2>7, <2>8, <2>9
<1>7. verdict.action \in Actions
  BY DEF evaluate_policy, Actions
<1>8. /\ verdict.preview_shares \in {0, preview}
      /\ verdict.action = "observe_blocked" => verdict.preview_shares = 0
      /\ verdict.action = "hold_inside_effective_band" => inside
      /\ verdict.action = "paper_rebalance_preview" =>
            ~inside /\ verdict.preview_shares = preview
  BY DEF evaluate_policy
<1> HIDE DEF preview, inside, raw
<1>9. verdict.action = "hold_inside_effective_band" => verdict.preview_shares = 0
  BY <1>5, <1>8
<1> USE DEF raw
<1> QED BY <1>3, <1>4, <1>6, <1>7, <1>8, <1>9

-----------------------------------------------------------------------------
(* The invariant: what a day has in hand at each step.                     *)
DayType ==
    [day_index : Int, days_to_expiry : Int, before : Int, target : Int, trade : Int,
     after : Int, action : Actions]

Shape ==
    /\ "step" \in DOMAIN test
    /\ test.step \in {"none", "snapshot", "core", "decide", "ended"}
    /\ test.step # "none" => {"symbol", "start", "day"} \subseteq DOMAIN test
    /\ test.step \in {"snapshot", "core", "decide"} => test.start \in Nat /\ test.day \in Nat
    /\ days \in Seq(DayType)
    /\ held \in Int

Configured ==
    test.step \in {"core", "decide"} \/ days # <<>> =>
        test.step # "none" /\ test.symbol \in DOMAIN Contracts

Starting ==
    days = <<>> /\ test.step # "none" /\ test.symbol \in DOMAIN Contracts =>
        held = Contracts[test.symbol].current_shares

Band == Contracts[test.symbol].base_no_trade_band_shares

InHand ==
    /\ test.step = "core" =>
          LET contract == test.market.contract
          IN  /\ contract.current_shares = held
              /\ contract.base_no_trade_band_shares = Band
              /\ contract.contracts \in Int
              /\ Midpoint2(test.market.quote) \in Int
    /\ test.step = "decide" =>
          /\ test.hedge \in PlainHedge
          /\ test.hedge.current = held
          /\ test.hedge.band = Band /\ Band >= 0

TestInv ==
    /\ Shape /\ Configured /\ Starting /\ InHand
    /\ SharesAreCarried
    /\ DaysEndHedged

LEMMA InitTest == Init => TestInv
<1> SUFFICES ASSUME Init PROVE TestInv
  OBVIOUS
<1>1. CASE cmd_portfolio
  BY <1>1 DEF cmd_portfolio, TestInv, Shape, Configured, Starting, InHand,
              SharesAreCarried, DaysEndHedged, Day
<1>2. CASE cmd_backtest
  <2>1. PICK symbol \in Tested : BacktestInit(symbol)
    BY <1>2 DEF cmd_backtest
  <2>2. PICK start \in Starts :
            test = [symbol |-> symbol, start |-> start, day |-> 0, step |-> "snapshot"]
    BY <2>1 DEF BacktestInit
  <2>3. held \in Int
    BY <2>1, CoreAssumption DEF BacktestInit, ContractType
  <2>4. days = <<>>
    BY <2>1 DEF BacktestInit
  <2>5. Shape
    BY <2>2, <2>3, <2>4, BacktestAssumption DEF Shape
  <2>6. Configured /\ Starting /\ InHand
    BY <2>1, <2>2, <2>4 DEF BacktestInit, Configured, Starting, InHand
  <2>7. SharesAreCarried /\ DaysEndHedged
    BY <2>2, <2>4 DEF SharesAreCarried, DaysEndHedged, Day
  <2> QED BY <2>5, <2>6, <2>7 DEF TestInv
<1> QED BY <1>1, <1>2 DEF Init

(* A run that ends keeps everything but its step.                          *)
LEMMA EndKeeps ==
    ASSUME TestInv, test.step # "none", NEW result, Ends(result)
    PROVE  TestInv'
<1>1. /\ test' = [test EXCEPT !.step = "ended"]
      /\ UNCHANGED <<held, days>>
  BY DEF Ends
<1>2. /\ DOMAIN test' = DOMAIN test /\ test'.step = "ended"
      /\ test'.symbol = test.symbol
  BY <1>1 DEF TestInv, Shape
<1> QED
  BY <1>1, <1>2 DEF TestInv, Shape, Configured, Starting, InHand, SharesAreCarried,
                    DaysEndHedged, Day

(* So does one that goes on to another step of the same day.               *)
LEMMA DaysKept ==
    ASSUME TestInv, test.step # "none", UNCHANGED <<held, days>>,
           test'.symbol = test.symbol, test'.step \notin {"none", "decide"}
    PROVE  Starting' /\ SharesAreCarried' /\ DaysEndHedged'
  BY DEF TestInv, Starting, SharesAreCarried, DaysEndHedged, Day

LEMMA SnapshotKeeps == TestInv /\ Snapshot => TestInv'
<1> SUFFICES ASSUME TestInv, Snapshot PROVE TestInv'
  OBVIOUS
<1>0. test.step = "snapshot"
  BY DEF Snapshot, Running
<1>1. CASE test.symbol \notin DOMAIN Contracts
  BY <1>0, <1>1, EndKeeps DEF Snapshot
<1>2. CASE test.symbol \in DOMAIN Contracts
  <2>1. PICK book \in Books :
            IF Failed(Today(book).contract) THEN Ends(Today(book).contract)
            ELSE Goes([step |-> "core", symbol |-> test.symbol, start |-> test.start,
                       day |-> test.day, market |-> Today(book)])
    BY <1>2 DEF Snapshot
  <2>2. CASE Failed(Today(book).contract)
    BY <1>0, <2>1, <2>2, EndKeeps
  <2>3. CASE ~Failed(Today(book).contract)
    <3> DEFINE contract == Today(book).contract
    <3>1. /\ test' = [step |-> "core", symbol |-> test.symbol, start |-> test.start,
                      day |-> test.day, market |-> Today(book)]
          /\ UNCHANGED <<held, days>>
      BY <2>1, <2>3 DEF Goes
    <3>2. /\ contract.current_shares = held
          /\ contract.base_no_trade_band_shares = Contracts[test.symbol].base_no_trade_band_shares
          /\ contract.contracts = Contracts[test.symbol].contracts
      <4> DEFINE overrides == [NoOverrides EXCEPT !.days = Some(RemainingDays),
                                                  !.current_shares = Some(held)]
      <4>1. contract = resolve_contract(Contracts, test.symbol, overrides,
                           Midpoint2(Quote(book)), test.start + test.day)
        BY DEF Today
      <4>2. Else(overrides.current_shares, Contracts[test.symbol].current_shares) = held
        BY DEF NoOverrides, Else, Given, Value, Some, None
      <4>3. Else(overrides.contracts, Contracts[test.symbol].contracts)
                = Contracts[test.symbol].contracts
        BY DEF NoOverrides, Else, Given, Value, None
      <4> HIDE DEF contract, overrides
      <4> QED BY <1>2, <2>3, <4>1, <4>2, <4>3, ResolvedContract DEF contract
    <3>3. Midpoint2(Today(book).quote) \in Int
      BY BacktestAssumption DEF Today, Quote, Midpoint2
    <3>4. contract.contracts \in Int
      BY <1>2, <3>2, CoreAssumption DEF ContractType
    <3>5. InHand' /\ Configured' /\ Shape'
      BY <1>0, <1>2, <3>1, <3>2, <3>3, <3>4 DEF InHand, Band, Configured, Shape, TestInv
    <3>6. Starting' /\ SharesAreCarried' /\ DaysEndHedged'
      BY <1>0, <3>1, DaysKept
    <3> QED BY <3>5, <3>6 DEF TestInv
  <2> QED BY <2>2, <2>3
<1> QED BY <1>1, <1>2

LEMMA PriceKeeps == TestInv /\ Price => TestInv'
<1> SUFFICES ASSUME TestInv, Price PROVE TestInv'
  OBVIOUS
<1>0. test.step = "core"
  BY DEF Price, Running
<1>1. CASE Ends(Fail("CoreError"))
  BY <1>0, <1>1, EndKeeps
<1>2. ASSUME NEW answer \in Answers(test.market.contract, Multiplier,
                                    Midpoint2(test.market.quote)),
             IF Failed(answer) THEN Ends(answer)
             ELSE Goes([step |-> "decide", symbol |-> test.symbol, start |-> test.start,
                        day |-> test.day, market |-> test.market,
                        hedge |-> [target |-> answer.target, current |-> answer.current,
                                   band |-> answer.band]])
      PROVE  TestInv'
  <2>1. CASE Failed(answer)
    BY <1>0, <1>2, <2>1, EndKeeps
  <2>2. CASE ~Failed(answer)
    <3> DEFINE contract == test.market.contract
               hedge == [target |-> answer.target, current |-> answer.current,
                         band |-> answer.band]
    <3>1. /\ test' = [step |-> "decide", symbol |-> test.symbol, start |-> test.start,
                      day |-> test.day, market |-> test.market, hedge |-> hedge]
          /\ UNCHANGED <<held, days>>
      BY <1>2, <2>2 DEF Goes
    <3>2. /\ contract.current_shares = held /\ held \in Int
          /\ contract.base_no_trade_band_shares = Band /\ Band \in Int
          /\ contract.contracts \in Int
          /\ Midpoint2(test.market.quote) \in Int
          /\ test.symbol \in DOMAIN Contracts
      BY <1>0, CoreAssumption DEF TestInv, InHand, Shape, Configured, Band, ContractType
    <3>3. /\ answer.target \in Int /\ answer.current = held
          /\ answer.band = Band /\ Band >= 0
      <4> HIDE DEF contract, Band
      <4>1. contract.current_shares \in Int /\ contract.base_no_trade_band_shares \in Int
        BY <3>2
      <4>2. answer \in Answers(contract, Multiplier, Midpoint2(test.market.quote))
        BY <1>2 DEF contract
      <4> QED BY <2>2, <3>2, <4>1, <4>2, AnswerIsHedge
    <3>4. Shape' /\ Configured'
      BY <1>0, <3>1, <3>2 DEF Shape, Configured, TestInv
    <3>5. /\ hedge \in PlainHedge /\ hedge.current = held /\ hedge.band = Band
      BY <3>2, <3>3 DEF PlainHedge
    <3>6. test'.hedge = hedge /\ Band' = Band /\ test'.step = "decide" /\ held' = held
          /\ test'.symbol = test.symbol
      BY <3>1 DEF Band
    <3>7. InHand'
      BY <3>3, <3>5, <3>6 DEF InHand
    <3>8. SharesAreCarried'
      BY <1>0, <3>1, <3>5, <3>6 DEF TestInv, SharesAreCarried, Day
    <3>9. Starting' /\ DaysEndHedged'
      BY <1>0, <3>1, <3>6 DEF TestInv, Starting, DaysEndHedged, Day
    <3> QED BY <3>4, <3>7, <3>8, <3>9 DEF TestInv
  <2> QED BY <2>1, <2>2
<1> QED BY <1>1, <1>2 DEF Price

(* The day that is appended follows from the verdict on what was in hand.  *)
LEMMA DecideKeeps == TestInv /\ Decide => TestInv'
<1> SUFFICES ASSUME TestInv, Decide PROVE TestInv'
  OBVIOUS
<1>0. test.step = "decide"
  BY DEF Decide, Running
<1>1. PICK opinion \in Opinions :
          LET verdict == Verdict(opinion)
          IN  /\ held' = held + verdict.preview_shares
              /\ days' = Append(days, DailyResult(verdict))
  BY DEF Decide
<1>2. test' = [step |-> "snapshot", symbol |-> test.symbol, start |-> test.start,
               day |-> test.day + 1]
  BY DEF Decide
<1> DEFINE verdict == Verdict(opinion)
           today == DailyResult(verdict)
           raw == test.hedge.target - held
<1>3. /\ test.hedge \in PlainHedge /\ test.hedge.current = held
      /\ test.hedge.band = Band /\ Band >= 0
      /\ test.symbol \in DOMAIN Contracts /\ test.start \in Nat /\ test.day \in Nat
      /\ held \in Int /\ days \in Seq(DayType)
  BY <1>0 DEF TestInv, InHand, Configured, Shape
<1>4. /\ verdict.preview_shares \in Int
      /\ verdict.action \in Actions
      /\ verdict.action = "paper_rebalance_preview" =>
            2 * Abs(raw - verdict.preview_shares) <= Lot
      /\ verdict.action = "hold_inside_effective_band" =>
            /\ verdict.preview_shares = 0
            /\ Abs(raw) * Tenths <= Band * Widest
      /\ verdict.action = "observe_blocked" => verdict.preview_shares = 0
  <2> DEFINE in == [quote |-> test.market.quote, data_quality |-> DataQuality,
                    evidence_ids |-> EvidenceId, hedge |-> test.hedge,
                    assessment |-> [confidence |-> opinion.confidence,
                                    band_multiplier |-> opinion.band_multiplier,
                                    evidence_ids |-> EvidenceId]]
  <2>1. verdict = evaluate_policy(in, test.start + test.day)
    BY DEF Verdict
  <2>2. in.hedge = test.hedge /\ in.assessment \in AssessmentType
    BY BacktestAssumption DEF AssessmentType
  <2>3. RawTrade(in.hedge) = raw
    BY <1>3, <2>2 DEF RawTrade
  <2>4. in.hedge \in PlainHedge /\ in.hedge.band = Band /\ in.hedge.band >= 0
    BY <1>3, <2>2
  <2> HIDE DEF in, raw, verdict, Band
  <2> QED BY <2>1, <2>2, <2>3, <2>4, VerdictIsRight
<1>5. RemainingDays \in Int
  BY <1>3, CoreAssumption, FloatAssumption DEF RemainingDays, AtLeastZero, ContractType
<1>6. /\ today.before = held /\ today.target = test.hedge.target
      /\ today.trade = verdict.preview_shares
      /\ today.after = held + verdict.preview_shares /\ today.action = verdict.action
      /\ today \in DayType
  BY <1>3, <1>4, <1>5 DEF DailyResult, DayType, PlainHedge
<1> HIDE DEF today, verdict
<1>7. /\ days' = Append(days, today) /\ held' = today.after
      /\ days' \in Seq(DayType) /\ Len(days') = Len(days) + 1
      /\ days'[Len(days) + 1] = today
      /\ \A d \in 1 .. Len(days) : days'[d] = days[d]
      /\ Len(days) \in Nat
  BY <1>1, <1>3, <1>6 DEF today, verdict
<1>8. test'.step = "snapshot" /\ test'.symbol = test.symbol
  BY <1>2
<1>9. Shape'
  BY <1>2, <1>3, <1>4, <1>6, <1>7 DEF Shape
<1>10. Configured' /\ InHand'
  BY <1>3, <1>8 DEF Configured, InHand
<1>11. Starting'
  BY <1>7 DEF Starting
<1>12. SharesAreCarried'
  <2> DEFINE Before(d) == IF d = 1 THEN Contracts[test.symbol].current_shares ELSE days[d - 1].after
             Before1(d) == IF d = 1 THEN Contracts[test.symbol].current_shares ELSE days'[d - 1].after
  <2>1. /\ \A d \in 1 .. Len(days) : days[d].before = Before(d)
                                     /\ days[d].after = days[d].before + days[d].trade
        /\ days # <<>> => held = days[Len(days)].after
    BY DEF TestInv, SharesAreCarried, Day
  <2>2. \A d \in 1 .. Len(days) : Before1(d) = Before(d)
    BY <1>7
  <2>3. today.before = Before1(Len(days) + 1)
    <3>1. CASE days = <<>>
      BY <1>0, <1>3, <1>6, <3>1 DEF TestInv, Starting
    <3>2. CASE days # <<>>
      <4>1. Len(days) # 0
        BY <1>3, <3>2
      <4>2. Len(days) \in 1 .. Len(days) /\ Len(days) + 1 # 1
        BY <1>7, <4>1
      <4> QED BY <1>6, <1>7, <2>1, <3>2, <4>2
    <3> QED BY <3>1, <3>2
  <2>4. today.after = today.before + today.trade
    BY <1>6
  <2> HIDE DEF Before, Before1
  <2>5. \A d \in 1 .. Len(days) + 1 :
            days'[d].before = Before1(d) /\ days'[d].after = days'[d].before + days'[d].trade
    <3> SUFFICES ASSUME NEW d \in 1 .. Len(days) + 1
                 PROVE  /\ days'[d].before = Before1(d)
                        /\ days'[d].after = days'[d].before + days'[d].trade
      OBVIOUS
    <3>1. CASE d = Len(days) + 1
      BY <1>7, <2>3, <2>4, <3>1
    <3>2. CASE d # Len(days) + 1
      <4>1. d \in 1 .. Len(days)
        BY <1>7, <3>2
      <4> QED BY <1>7, <2>1, <2>2, <4>1
    <3> QED BY <3>1, <3>2
  <2>6. held' = days'[Len(days')].after
    BY <1>7
  <2> QED BY <1>7, <1>8, <2>5, <2>6 DEF SharesAreCarried, Day, Before1
<1>13. DaysEndHedged'
  <2> DEFINE Hedged(day_) ==
        LET gap == Size(day_.target - day_.after)
        IN  CASE day_.action = "paper_rebalance_preview" -> 2 * gap <= Lot
              [] day_.action = "hold_inside_effective_band" ->
                    day_.trade = 0 /\ gap * Tenths <= Band * Widest
              [] OTHER -> day_.trade = 0
  <2>1. \A d \in 1 .. Len(days) : Hedged(days[d])
    BY DEF TestInv, DaysEndHedged, Day, Band, Widest
  <2>2. Hedged(today)
    <3>1. today.target - today.after = raw - verdict.preview_shares
      BY <1>3, <1>4, <1>6 DEF PlainHedge
    <3>2. verdict.preview_shares = 0 => today.target - today.after = raw
      BY <1>3, <1>6, <3>1 DEF PlainHedge
    <3>3. \A x : Size(x) = Abs(x)
      BY DEF Size, Abs
    <3>4. CASE today.action = "paper_rebalance_preview"
      BY <1>4, <1>6, <3>1, <3>3, <3>4
    <3>5. CASE today.action = "hold_inside_effective_band"
      BY <1>4, <1>6, <3>2, <3>3, <3>5
    <3>6. CASE today.action = "observe_blocked"
      BY <1>4, <1>6, <3>6
    <3> QED BY <1>4, <1>6, <3>4, <3>5, <3>6 DEF Actions
  <2> HIDE DEF Hedged
  <2>3. \A d \in 1 .. Len(days) + 1 : Hedged(days'[d])
    <3> SUFFICES ASSUME NEW d \in 1 .. Len(days) + 1 PROVE Hedged(days'[d])
      OBVIOUS
    <3>1. CASE d = Len(days) + 1
      BY <1>7, <2>2, <3>1
    <3>2. CASE d # Len(days) + 1
      <4>1. d \in 1 .. Len(days)
        BY <1>7, <3>2
      <4> QED BY <1>7, <2>1, <4>1
    <3> QED BY <3>1, <3>2
  <2>4. \A d \in Day' : Hedged(days'[d])
    BY <1>7, <2>3 DEF Day
  <2> QED BY <1>8, <2>4 DEF DaysEndHedged, Hedged, Band, Widest
<1> QED BY <1>9, <1>10, <1>11, <1>12, <1>13 DEF TestInv

LEMMA ReportKeeps == TestInv /\ Report => TestInv'
  BY EndKeeps DEF Report, Running

(* A portfolio has no backtest.                                            *)
LEMMA OtherwiseKept == TestInv /\ UNCHANGED backtestVars => TestInv'
  BY DEF TestInv, backtestVars, Shape, Configured, Starting, InHand, Band, SharesAreCarried,
         DaysEndHedged, Day

LEMMA StepTest == TestInv /\ [Next]_vars => TestInv'
<1> SUFFICES ASSUME TestInv, [Next]_vars PROVE TestInv'
  OBVIOUS
<1>1. CASE BacktestNext
  BY <1>1, SnapshotKeeps, PriceKeeps, DecideKeeps, ReportKeeps DEF BacktestNext
<1>2. CASE UNCHANGED backtestVars
  BY <1>2, OtherwiseKept
<1> QED BY <1>1, <1>2 DEF Next, vars

LEMMA TestInvHolds == Spec => []TestInv
  BY InitTest, StepTest, PTL DEF Spec

(* Shares are neither made nor lost between the days of a backtest         *)
(* (lib.rs 113-150).                                                       *)
THEOREM SharesThreaded == Spec => []SharesAreCarried
<1>1. TestInv => SharesAreCarried
  BY DEF TestInv
<1> QED BY <1>1, TestInvHolds, PTL

(* A day that is traded ends on its target up to rounding, a day that is   *)
(* held was within the widest band, and no other day is traded             *)
(* (lib.rs 135-150).                                                       *)
THEOREM DaysHedged == Spec => []DaysEndHedged
<1>1. TestInv => DaysEndHedged
  BY DEF TestInv
<1> QED BY <1>1, TestInvHolds, PTL

-----------------------------------------------------------------------------
(* A portfolio: every position that names its date was priced at the one   *)
(* reading of the clock.                                                   *)
DaysLeft(symbol, now) == AtLeastZero(ClosingDay[Value(Contracts[symbol].expiry)] - now)

ValuedAt(p, now) == Contracts[p.symbol].expiry # None => p.days = DaysLeft(p.symbol, now)

PortfolioInv ==
    /\ {"step", "now"} \subseteq DOMAIN valuation
    /\ valuation.step = "start" => positions = <<>>
    /\ \E S : positions \in Seq(S)
    /\ \A i \in 1 .. Len(positions) : ValuedAt(positions[i], Value(valuation.now))

LEMMA InitPortfolio == Init => PortfolioInv
<1>1. Init => /\ {"step", "now"} \subseteq DOMAIN valuation
              /\ positions = <<>>
  BY DEF Init, cmd_backtest, cmd_portfolio, PortfolioInit
<1>2. <<>> \in Seq({})
  OBVIOUS
<1> QED BY <1>1, <1>2 DEF PortfolioInv

LEMMA PrintKeeps ==
    ASSUME PortfolioInv, NEW result, Prints(result)
    PROVE  PortfolioInv'
<1>1. /\ valuation' = [valuation EXCEPT !.step = "ended"] /\ UNCHANGED positions
  BY DEF Prints
<1>2. /\ DOMAIN valuation' = DOMAIN valuation /\ valuation'.step = "ended"
      /\ valuation'.now = valuation.now
  BY <1>1 DEF PortfolioInv
<1> QED BY <1>1, <1>2 DEF PortfolioInv

LEMMA PriceOneKeeps == PortfolioInv /\ PriceOne => PortfolioInv'
<1> SUFFICES ASSUME PortfolioInv, PriceOne PROVE PortfolioInv'
  OBVIOUS
<1>1. CASE \E result : Prints(result)
  BY <1>1, PrintKeeps
<1>2. CASE ~\E result : Prints(result)
  <2>1. PICK midpoint2 \in Quoted[Next_] :
            LET contract == Resolved(midpoint2)
            IN  /\ ~Failed(contract)
                /\ \E answer \in Answers(contract, Multiplier, midpoint2) :
                      /\ positions' = Append(positions,
                             [symbol |-> Next_, days |-> contract.days_to_expiry,
                              core |-> answer])
                      /\ valuation' = [valuation EXCEPT !.todo = Tail(@)]
    BY <1>2 DEF PriceOne
  <2> DEFINE contract == Resolved(midpoint2)
             now == Value(valuation.now)
  <2>2. PICK answer :
            positions' = Append(positions, [symbol |-> Next_, days |-> contract.days_to_expiry,
                                            core |-> answer])
    BY <2>1
  <2> DEFINE priced == [symbol |-> Next_, days |-> contract.days_to_expiry, core |-> answer]
  <2>3. /\ Next_ \in DOMAIN Contracts
        /\ contract = resolve_contract(Contracts, Next_, NoOverrides, midpoint2, now)
    <3>1. Failed(Fail("UnknownSymbol"))
      BY DEF Failed, Fail
    <3> QED BY <2>1, <3>1 DEF Resolved, resolve_contract
  <2>4. contract.days_to_expiry = DaysToExpiry(Overridden(Contracts[Next_], NoOverrides), now)
    <3> HIDE DEF contract
    <3>1. ~Failed(contract)
      BY <2>1 DEF contract
    <3> QED BY <2>3, <3>1, ResolvedContract
  <2>5. Overridden(Contracts[Next_], NoOverrides).expiry = Contracts[Next_].expiry
    <3>1. Contracts[Next_] \in ContractType
      BY <2>3, CoreAssumption
    <3> QED BY <3>1 DEF Overridden, ContractType
  <2>6. ValuedAt(priced, now)
    BY <2>4, <2>5 DEF ValuedAt, DaysToExpiry, DaysLeft, Given
  <2>7. /\ valuation'.now = valuation.now /\ valuation'.step = valuation.step
        /\ DOMAIN valuation' = DOMAIN valuation
    BY <2>1 DEF PortfolioInv
  <2>8. valuation.step # "start"
    BY DEF PriceOne
  <2> HIDE DEF priced, contract
  <2>9. PICK S : positions \in Seq(S)
    BY DEF PortfolioInv
  <2>10. positions' = Append(positions, priced)
    BY <2>2 DEF priced
  <2>11. positions \in Seq(S \cup {priced})
    BY <2>9
  <2>12. /\ positions' \in Seq(S \cup {priced})
         /\ Len(positions') = Len(positions) + 1 /\ Len(positions) \in Nat
         /\ positions'[Len(positions) + 1] = priced
         /\ \A i \in 1 .. Len(positions) : positions'[i] = positions[i]
    BY <2>10, <2>11
  <2>13. \A i \in 1 .. Len(positions) + 1 : ValuedAt(positions'[i], now)
    <3> SUFFICES ASSUME NEW i \in 1 .. Len(positions) + 1 PROVE ValuedAt(positions'[i], now)
      OBVIOUS
    <3>1. CASE i = Len(positions) + 1
      BY <2>6, <2>12, <3>1
    <3>2. CASE i # Len(positions) + 1
      <4>1. i \in 1 .. Len(positions)
        BY <2>12, <3>2
      <4> QED BY <2>12, <4>1 DEF PortfolioInv
    <3> QED BY <3>1, <3>2
  <2> QED BY <2>7, <2>8, <2>12, <2>13 DEF PortfolioInv
<1> QED BY <1>1, <1>2

LEMMA StepPortfolio == PortfolioInv /\ [Next]_vars => PortfolioInv'
<1> SUFFICES ASSUME PortfolioInv, [Next]_vars PROVE PortfolioInv'
  OBVIOUS
<1>1. CASE UNCHANGED portfolioVars
  BY <1>1 DEF PortfolioInv, portfolioVars
<1>2. CASE Begin
  <2>1. CASE \E result : Prints(result)
    BY <2>1, PrintKeeps
  <2>2. CASE ~\E result : Prints(result)
    <3>1. /\ valuation' = [valuation EXCEPT !.now = Some(day), !.step = "next"]
          /\ UNCHANGED positions /\ positions = <<>>
      BY <1>2, <2>2 DEF Begin, PortfolioInv
    <3>2. DOMAIN valuation' = DOMAIN valuation /\ valuation'.step = "next"
      BY <3>1 DEF PortfolioInv
    <3> QED BY <3>1, <3>2 DEF PortfolioInv
  <2> QED BY <2>1, <2>2
<1>3. CASE PriceOne
  BY <1>3, PriceOneKeeps
<1>4. CASE Summarize
  BY <1>4, PrintKeeps DEF Summarize
<1>5. CASE DayPasses
  BY <1>5 DEF DayPasses, PortfolioInv
<1> QED BY <1>1, <1>2, <1>3, <1>4, <1>5 DEF Next, PortfolioNext, vars

(* However long a portfolio takes to price, it is priced at one time       *)
(* (portfolio/src/lib.rs 84).                                              *)
THEOREM PricedAtOneTime == Spec => []OneValuationTime
<1>1. PortfolioInv => OneValuationTime
  <2> SUFFICES ASSUME PortfolioInv, NEW p \in ToSet(positions), NEW q \in ToSet(positions),
                      Contracts[p.symbol].expiry = Contracts[q.symbol].expiry,
                      Contracts[p.symbol].expiry # None
               PROVE  p.days = q.days
    BY DEF OneValuationTime
  <2>1. DOMAIN positions = 1 .. Len(positions)
    BY DEF PortfolioInv
  <2>2. /\ ValuedAt(p, Value(valuation.now)) /\ ValuedAt(q, Value(valuation.now))
    BY <2>1 DEF PortfolioInv, ToSet
  <2> QED BY <2>2 DEF ValuedAt, DaysLeft
<1> QED BY <1>1, InitPortfolio, StepPortfolio, PTL DEF Spec
=============================================================================
