------------------------------ MODULE MCDashboard ------------------------------
(***************************************************************************)
(* Two connection threads and one symbol with a contract, one without; a   *)
(* query that is encoded, repeats a key or names no symbol there may be.   *)
(***************************************************************************)
EXTENDS Dashboard

CONSTANTS e1, spy, qqq, c1, c2

MCConfig ==
    [mode |-> "paper", paper_only |-> TRUE,
     max_quote_age_seconds |-> 1, max_spread_bps |-> 200, min_data_quality |-> 5,
     min_model_confidence_for_band_change |-> 5,
     min_band_multiplier |-> 5, max_band_multiplier |-> 30,
     allow_fractional_shares |-> FALSE,
     max_abs_trade_shares |-> 11, max_preview_notional |-> 2200,
     require_market_open_for_preview |-> TRUE]

MCFeeds ==
    {[bp |-> 100, ap |-> 101, close |-> 100, market_state |-> "open",
      data_quality |-> 5, evidence |-> <<e1>>]}
MCHedges == {[target |-> 9, current |-> 4, band |-> 2]}
MCAssessments == {[confidence |-> 5, band_multiplier |-> 10, evidence_ids |-> {}]}

Line(bytes) == [bytes |-> bytes]
Pair(key, value) == [key |-> key, value |-> value]

Get(path, pairs) ==
    [words |-> 3, method |-> "GET", path |-> path, pairs |-> pairs, bytes |-> 2, headers |-> <<Line(1)>>]

(* SPY in pieces, encoded and not, and fresh given twice.                  *)
MCRequests ==
    {Get(Recommendation, <<>>),
     Get(Recommendation, <<Pair(<<"symbol">>, <<"%", "5", "3", "py">>), Pair(<<"fresh">>, <<"0">>),
                           Pair(<<"fresh">>, <<"true">>)>>),
     Get(History, <<Pair(<<"limit">>, <<"1">>), Pair(<<"symbol">>, <<>>)>>),
     Get(History, <<Pair(<<"symbol">>, <<"s", "py">>), Pair(<<"limit">>, <<"%", "5">>)>>),
     Get(<<"api", "replay", 0>>, <<>>)}
    \cup
    {Get(Root, <<>>), Get(<<"api", "orders">>, <<>>),
     Get(Recommendation, <<Pair(<<"symbol">>, <<"qqq">>)>>),
     Get(History, <<Pair(<<"symbol">>, <<"s", "py", "s">>)>>),
     Get(Recommendation, <<Pair(<<"symbol">>, <<"s", "+">>)>>),
     [Get(Health, <<>>) EXCEPT !.method = "POST"],
     [Get(Root, <<>>) EXCEPT !.words = 1],
     [Get(Root, <<>>) EXCEPT !.headers = <<Line(1), Line(1), Line(1)>>],
     [Get(Root, <<>>) EXCEPT !.headers = <<Line(4)>>]}

MCUpper == <<"SPY">> :> spy @@ <<"s", "py">> :> spy @@ <<"S", "py">> :> spy @@ <<"qqq">> :> qqq
MCSymbolPieces == {"SPY", "s", "S", "py", "qqq"}
MCEscape == <<"5", "3">> :> "S"
MCNumeral == <<"1">> :> 1

MCFallback == [c \in {c1, c2} |-> FALSE]
MCSymmetry == Permutations({c1, c2})
=============================================================================
