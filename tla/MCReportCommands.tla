---------------------------- MODULE MCReportCommands ----------------------------
EXTENDS ReportCommands

MCContract(type, strike, left, expiry, contracts, shares) ==
    [strike |-> strike, expiry |-> expiry, option_type |-> type, exercise_style |-> "american",
     implied_volatility |-> 20, days_to_expiry |-> left, contracts |-> contracts,
     current_shares |-> shares, base_no_trade_band_shares |-> 4]

(* SPY is a put that has one day left, or an odd number of shares to start *)
(* with; IWM names its date; BAD is refused when it is priced, and its     *)
(* type when it is resolved.                                               *)
MCContracts ==
    [SPY |-> MCContract("put", Some(100), 2, None, 1, 6),
     IWM |-> MCContract("call", None, 30, Some("2026-08-21"), -1, 0),
     DIA |-> MCContract("put", Some(90), 9, Some("2026-08-21"), 2, 0),
     VOL |-> [MCContract("call", Some(100), 2, None, 1, 0) EXCEPT !.implied_volatility = 0],
     BAD |-> MCContract("straddle", Some(100), 2, None, 1, 0),
     OLD |-> MCContract("call", Some(100), 2, Some("tomorrow"), 1, 0)]

MCClosingDay == "2026-08-21" :> 2

MCConfig ==
    [mode |-> "paper", paper_only |-> TRUE, max_quote_age_seconds |-> 1,
     max_spread_bps |-> 500, min_data_quality |-> 6, min_model_confidence_for_band_change |-> 5,
     min_band_multiplier |-> 5, max_band_multiplier |-> 30, allow_fractional_shares |-> FALSE,
     max_abs_trade_shares |-> 24, max_preview_notional |-> 10000,
     require_market_open_for_preview |-> TRUE]

MCBooks ==
    {[bid |-> 99, ask |-> 101, last |-> 100], [bid |-> 104, ask |-> 105, last |-> 104],
     [bid |-> 80, ask |-> 90, last |-> 85]}

MCOpinions ==
    {[confidence |-> 6, band_multiplier |-> 20], [confidence |-> 3, band_multiplier |-> 20]}

MCQuoted == [s \in {"SPY", "IWM", "DIA", "VOL", "BAD", "QQQ"} |-> {200, 209}]

MCAsked == {<<>>, <<"SPY", "IWM">>, <<"IWM", "DIA">>, <<"DIA", "DIA">>, <<"SPY", "QQQ">>,
            <<"IWM", "VOL">>, <<"BAD">>}
================================================================================
