-------------------------------- MODULE Backtest --------------------------------
(***************************************************************************)
(* run_backtest: the pipeline of a recommendation, once per simulated day, *)
(* on synthetic data.  The shares a day's preview proposes are taken as    *)
(* held the next day, and the option is a day closer to its expiry.  Time  *)
(* is counted in days: a snapshot is made for the very moment it is asked  *)
(* for, so that its quote has no age.  Any failure ends the whole run.     *)
(***************************************************************************)
EXTENDS PolicyGate, Core, Sequences

CONSTANTS
    NumDays, Starts,
    Books,          \* what the synthetic walk may quote
    DataQuality,
    Opinions        \* what the heuristic may say of a day

ASSUME BacktestAssumption ==
    /\ NumDays \in Nat /\ Starts \subseteq Nat
    /\ Books \subseteq [bid : Int, ask : Int, last : Int]
    /\ DataQuality \in Nat
    /\ Opinions \subseteq [confidence : Nat, band_multiplier : Int]

VARIABLES
    test,       \* symbol, first day, and how far the run is
    held,       \* running_current_shares
    days,       \* the days that are done
    totals,     \* total_turnover and trading_days
    report      \* what the command prints at the end, if it gets there

backtestVars == <<test, held, days, totals, report>>

BacktestInit(symbol) ==
    /\ \E start \in Starts :
          test = [symbol |-> symbol, start |-> start, day |-> 0, step |-> "snapshot"]
    /\ held = IF symbol \in DOMAIN Contracts THEN Contracts[symbol].current_shares ELSE 0
    /\ days = <<>>
    /\ totals = [turnover |-> 0, trading |-> 0]
    /\ report = None

Running(step) == test.step = step /\ report = None

Ends(result) ==
    /\ report' = Some(result)
    /\ test' = [test EXCEPT !.step = "ended"]
    /\ UNCHANGED <<held, days, totals>>

Goes(state) == test' = state /\ UNCHANGED <<held, days, totals, report>>

Quote(book) == [bid |-> book.bid, ask |-> book.ask, last |-> book.last,
                time |-> test.start + test.day, market_state |-> "open"]

RemainingDays == AtLeastZero(Contracts[test.symbol].days_to_expiry - test.day)

Mut_CarryNothing(book) ==
    [quote |-> Quote(book),
     contract |-> resolve_contract(Contracts, test.symbol,
                      [NoOverrides EXCEPT !.days = Some(RemainingDays)],
                      Midpoint2(Quote(book)), test.start + test.day)]

(* A day's contract: what was configured, less the days that have passed,  *)
(* unless it names its date, and with the shares held by now.              *)
Today(book) ==
    [quote |-> Quote(book),
     contract |-> resolve_contract(Contracts, test.symbol,
                      [NoOverrides EXCEPT !.days = Some(RemainingDays),
                                          !.current_shares = Some(held)],
                      Midpoint2(Quote(book)), test.start + test.day)]

Snapshot ==
    /\ Running("snapshot") /\ test.day < NumDays
    /\ IF test.symbol \notin DOMAIN Contracts THEN Ends(Fail("UnknownSymbol"))
       ELSE \E book \in Books :
               IF Failed(Today(book).contract) THEN Ends(Today(book).contract)
               ELSE Goes([step |-> "core", symbol |-> test.symbol, start |-> test.start,
                          day |-> test.day, market |-> Today(book)])

(* run_core: it may be missing, hang, or refuse the contract.              *)
Price ==
    /\ Running("core")
    /\ \/ Ends(Fail("CoreError"))
       \/ \E answer \in Answers(test.market.contract, Multiplier,
                                Midpoint2(test.market.quote)) :
             IF Failed(answer) THEN Ends(answer)
             ELSE Goes([step |-> "decide", symbol |-> test.symbol, start |-> test.start,
                        day |-> test.day, market |-> test.market,
                        hedge |-> [target |-> answer.target, current |-> answer.current,
                                   band |-> answer.band]])

Verdict(opinion) ==
    evaluate_policy([quote |-> test.market.quote, data_quality |-> DataQuality,
                     evidence_ids |-> EvidenceId, hedge |-> test.hedge,
                     assessment |-> [confidence |-> opinion.confidence,
                                     band_multiplier |-> opinion.band_multiplier,
                                     evidence_ids |-> EvidenceId]],
                    test.start + test.day)

DailyResult(verdict) ==
    [day_index |-> test.day, days_to_expiry |-> RemainingDays,
     before |-> held, target |-> test.hedge.target, trade |-> verdict.preview_shares,
     after |-> held + verdict.preview_shares, action |-> verdict.action]

Mut_TradeWhateverTheGateSays ==
    /\ Running("decide")
    /\ \E opinion \in Opinions :
          LET verdict == [Verdict(opinion) EXCEPT !.preview_shares =
                              test.hedge.target - test.hedge.current]
          IN  /\ held' = held + verdict.preview_shares
              /\ days' = Append(days, DailyResult(verdict))
              /\ totals' = [turnover |-> totals.turnover + Size(verdict.preview_shares),
                            trading |-> totals.trading
                                + IF verdict.action = "paper_rebalance_preview" THEN 1 ELSE 0]
    /\ test' = [step |-> "snapshot", symbol |-> test.symbol, start |-> test.start,
                day |-> test.day + 1]
    /\ UNCHANGED report

(* The adviser and the gate cannot fail: the day is done.                  *)
Decide ==
    /\ Running("decide")
    /\ \E opinion \in Opinions :
          LET verdict == Verdict(opinion)
          IN  /\ held' = held + verdict.preview_shares
              /\ days' = Append(days, DailyResult(verdict))
              /\ totals' = [turnover |-> totals.turnover + Size(verdict.preview_shares),
                            trading |-> totals.trading
                                + IF verdict.action = "paper_rebalance_preview" THEN 1 ELSE 0]
    /\ test' = [step |-> "snapshot", symbol |-> test.symbol, start |-> test.start,
                day |-> test.day + 1]
    /\ UNCHANGED report

Report ==
    /\ Running("snapshot") /\ test.day = NumDays
    /\ Ends(IF test.symbol \notin DOMAIN Contracts THEN Fail("UnknownSymbol")
            ELSE [days |-> days, total_turnover_shares |-> totals.turnover,
                  trading_days |-> totals.trading, final_current_shares |-> held])

BacktestNext == Snapshot \/ Price \/ Decide \/ Report

-----------------------------------------------------------------------------
Day == 1..Len(days)

(* Shares are neither made nor lost between two days: each day starts with *)
(* what the day before ended with, the first with what was configured, the *)
(* run ends with what the last day ended with, and a day changes them by   *)
(* its trade (current_shares threaded forward, lib.rs 7-9).                *)
SharesAreCarried ==
    LET Before(d) == IF d = 1 THEN Contracts[test.symbol].current_shares ELSE days[d - 1].after
    IN  /\ \A d \in Day : days[d].before = Before(d)
                          /\ days[d].after = days[d].before + days[d].trade
        /\ days # <<>> => held = days[Len(days)].after
        /\ test.step = "decide" => test.hedge.current = held

(* No day is traded against the gate, and a day that is traded ends on its *)
(* target, up to the rounding to whole shares; a day that is held started  *)
(* within the widest band there may be.                                    *)
DaysEndHedged ==
    LET band == Contracts[test.symbol].base_no_trade_band_shares
        widest == IF Config.max_band_multiplier > Tenths
                  THEN Config.max_band_multiplier ELSE Tenths
    IN  \A d \in Day :
            LET gap == Size(days[d].target - days[d].after)
            IN  CASE days[d].action = "paper_rebalance_preview" -> 2 * gap <= Lot
                  [] days[d].action = "hold_inside_effective_band" ->
                        days[d].trade = 0 /\ gap * Tenths <= band * widest
                  [] OTHER -> days[d].trade = 0
================================================================================
