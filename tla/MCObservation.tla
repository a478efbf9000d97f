----------------------------- MODULE MCObservation -----------------------------
(***************************************************************************)
(* Three series and three feeds where two are the cap; feeds with and      *)
(* without a DOCTYPE, in RSS, in Atom, broken off, and with elements whose *)
(* names begin like the entries'; bars that are                            *)
(* incomplete, too few or not numbers; a model that breaks the schema in   *)
(* every place.                                                            *)
(***************************************************************************)
EXTENDS Observation, TLC

Row(id, symbols, untrusted, word) ==
    [evidence_id |-> id, symbols |-> symbols, kind |-> "external", title |-> <<word>>,
     text |-> <<word>>, value |-> 7, quality |-> 250, untrusted_text |-> untrusted]

MCFiles ==
    {NoFile,
     [state |-> "rows", rows |->
        <<Row("a", {"SPY"}, False, "memo"), Mistyped, Row(Null, Absent, Absent, "rumour"),
          Row("c", {"QQQ"}, False, "memo"), Row("d", {"*"}, Null, "rumour")>>]}

Entry(title, description) == [title |-> title, description |-> description]

Holding(prolog, name, kind, within, entries) ==
    [prolog |-> prolog, name |-> name, kind |-> kind, within |-> within, entries |-> entries,
     text |-> Feed(IF prolog = "" THEN <<>> ELSE <<Piece(prolog, "rss")>>, name, kind, within, entries)]

Document(prolog, name, kind, entries) == Holding(prolog, name, kind, <<>>, entries)

MCLonger(name) == CASE name = "item" -> {"items"} [] name = "title" -> {"titles"} [] OTHER -> {}

Around(prefix, name) ==
    <<[Piece("open", name) EXCEPT !.prefix = prefix], Piece("text", "sell"),
      [Piece("close", name) EXCEPT !.prefix = prefix]>>

MCNews == <<Entry(<<"crash">>, <<"sell">>), Entry(<<>>, <<"sell">>), Entry(<<"crash">>, <<>>)>>

MCDocuments ==
    {Document("", "item", "text", MCNews),
     Document("subset", "entry", "cdata", MCNews),
     Document("declaration", "item", "text", UpTo(1, MCNews)),
     Document("declaration", "item", "cdata", MCNews),
     Holding("", "item", "text", Around("media", "items") \o Around("", "titles"), MCNews),
     Holding("", "item", "text", Around("", "items"), MCNews),
     Holding("", "item", "text", Around("item", "guid"), MCNews),
     [Document("", "item", "text", <<>>) EXCEPT
        !.text = @ \o <<Piece("open", "item"), Piece("open", "title")>>]}

Bar(close, volume) == [close |-> close, volume |-> volume, t |-> 3]

MCBarPayloads ==
    {<<>>,
     <<Bar(10000, 1), Bar(9000, 1), Bar(Mistyped, 1)>>,
     <<Bar(Absent, 1), Bar(10000, 1)>>,
     <<Bar(10000, 9), Mistyped, Bar(9000, 5), Bar(10000, 7), Bar(0, 7), Bar(8000, 7)>>}

MCQuotePayloads ==
    {[bp |-> 9990, ap |-> 10010, t |-> 5], [bp |-> 9000, ap |-> 0, t |-> 5],
     [bp |-> 0, ap |-> 0, t |-> Absent]}

MCFred(key) == [enabled |-> TRUE, has_key |-> key, series |-> <<"DGS10", "VIX", "CPI">>]
MCRss(on) == [enabled |-> on, feeds |-> <<"f1", "f2", "f3">>, max_items_per_feed |-> 2]

MCConnectors ==
    {[fred |-> MCFred(TRUE), rss |-> MCRss(TRUE), fallback_to_heuristic |-> TRUE],
     [fred |-> MCFred(TRUE), rss |-> MCRss(FALSE), fallback_to_heuristic |-> TRUE],
     [fred |-> MCFred(FALSE), rss |-> MCRss(TRUE), fallback_to_heuristic |-> FALSE],
     [fred |-> [MCFred(TRUE) EXCEPT !.enabled = FALSE], rss |-> MCRss(FALSE),
      fallback_to_heuristic |-> FALSE]}

MCObservations ==
    {[date |-> "2026-07-01", value |-> 4], [date |-> Absent, value |-> NoData]}

Good ==
    [regime |-> "calm", confidence |-> Whole, hedge_urgency |-> 0, band_multiplier |-> 300,
     summary |-> 1000, evidence_ids |-> <<"x", "y">>, risks |-> <<>>,
     scenario_spot_shocks |-> <<30>>, data_requests |-> <<>>]

Object(o) == [state |-> "object", object |-> o]
Other(state) == [state |-> state, object |-> Nothing]

MCAnswers ==
    {Other("failed"), Other("no text"), Object(Good),
     Object([Good EXCEPT !.regime = "panic"]),
     Object([Good EXCEPT !.confidence = Whole + 1]),
     Object([Good EXCEPT !.hedge_urgency = Mistyped]),
     Object([Good EXCEPT !.band_multiplier = 301]),
     Object([Good EXCEPT !.band_multiplier = 49]),
     Object([Good EXCEPT !.scenario_spot_shocks = <<>>]),
     Object([Good EXCEPT !.scenario_spot_shocks = <<1, -31>>]),
     Object([Good EXCEPT !.scenario_spot_shocks = <<1, 2, 3, 4, 5, 6, 7, 8>>]),
     Object([Good EXCEPT !.evidence_ids = <<"x", "y", "z", "w">>]),
     Object([Good EXCEPT !.risks = <<Mistyped>>]),
     Object([Good EXCEPT !.summary = Mistyped]),
     Object([Good EXCEPT !.summary = 1001]),
     Object([key \in DOMAIN Good \ {"summary"} |-> Good[key]]),
     Object("extra" :> 1 @@ Good)}

MCWalks == 
    {<<10000, 10000, 10000, 10000>>, <<10000, 13000, 9000, 12000>>, <<10000, 10200, 10400, 13000>>,
     <<13000, 12900, 12800, 10400>>}

MCRealized(closes) ==
    (Max({closes[i] : i \in DOMAIN closes}) - Min({closes[i] : i \in DOMAIN closes})) \div 100
MCEwma(closes) == Max({0, closes[Len(closes)] - closes[1]}) \div 100
MCTrend(return, volatility) == return \div volatility
MCFeatureKey(title) == title
MCReason == <<"status", "crash">>
================================================================================
