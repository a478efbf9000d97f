---------------------------- MODULE MCGateSession ----------------------------
(***************************************************************************)
(* A small instance of GateSession: every shape of an exchange's book, the *)
(* limits of each comparison and both sides of them.                       *)
(***************************************************************************)
EXTENDS GateSession

CONSTANTS e1, e2   \* two evidence items

(* Fractions or not is the one switch that changes the arithmetic; a run   *)
(* takes each.                                                             *)
PaperConfig(fractional) ==
    [mode |-> "paper", paper_only |-> TRUE,
     max_quote_age_seconds |-> 1, max_spread_bps |-> 200, min_data_quality |-> 5,
     min_model_confidence_for_band_change |-> 5,
     min_band_multiplier |-> 5, max_band_multiplier |-> 30,
     allow_fractional_shares |-> fractional,
     max_abs_trade_shares |-> 11, max_preview_notional |-> 2400,
     require_market_open_for_preview |-> TRUE]

MCFractional == PaperConfig(TRUE)
MCWhole      == PaperConfig(FALSE)

(* Nothing quoted, each side missing, a tight, a wide and a crossed book.  *)
MCBooks ==
    {[bp |-> b[1], ap |-> b[2], t |-> b[3]] :
        b \in {<<0, 0, 1>>, <<0, 101, 1>>, <<100, 0, 1>>, <<100, 101, 0>>,
               <<100, 101, 1>>, <<100, 101, 2>>, <<100, 101, Unparseable>>,
               <<100, 120, 1>>, <<101, 100, 1>>}}
MCCloses == {0, 100, 160}
MCQualities == {4, 5}
MCSupplied == {{e1}}

(* Gaps of 1/4 .. 3 1/4 shares both ways, on and off the rounding ties.    *)
MCHedges ==
    {[target |-> t, current |-> 4, band |-> 2] : t \in {-9, -2, 1, 2, 4, 5, 6, 10, 14, 15, 17}}
        \cup {NonFinite}
MCAssessments ==
    [confidence : {4, 5}, band_multiplier : {0, 10, 40}, evidence_ids : {{}, {e1}, {e2}}]
MCTimes == 0 .. 3
=============================================================================
