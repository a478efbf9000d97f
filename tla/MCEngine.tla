------------------------------- MODULE MCEngine -------------------------------
(***************************************************************************)
(* Two callers share the engine, one of them without a fallback.  Three    *)
(* items of evidence, of which the model is shown two; citations of one    *)
(* that was shown and of one that was not.                                 *)
(* Two units of the clock to a timestamp: a quote may be fresh at a        *)
(* decision's date and stale when it was judged.                           *)
(***************************************************************************)
EXTENDS Engine

CONSTANTS e1, e2, e3, spy, c1, c2

MCConfig ==
    [mode |-> "paper", paper_only |-> TRUE,
     max_quote_age_seconds |-> 2, max_spread_bps |-> 200, min_data_quality |-> 5,
     min_model_confidence_for_band_change |-> 5,
     min_band_multiplier |-> 5, max_band_multiplier |-> 30,
     allow_fractional_shares |-> FALSE,
     max_abs_trade_shares |-> 11, max_preview_notional |-> 2200,
     require_market_open_for_preview |-> TRUE]

MCFeeds ==
    {[bp |-> 100, ap |-> 101, close |-> 100, market_state |-> "open",
      data_quality |-> 5, evidence |-> <<e1, e2, e3>>]}
MCHedges == {[target |-> 9, current |-> 4, band |-> 2]}
MCAssessments ==
    {[confidence |-> 5, band_multiplier |-> 10, evidence_ids |-> ids] :
        ids \in {{e1}, {e3}}}

MCFallback == [c \in {c1, c2} |-> c = c1]
=============================================================================
