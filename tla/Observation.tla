------------------------------ MODULE Observation ------------------------------
(***************************************************************************)
(* From the outside world to an assessment: the provider asks for a quote  *)
(* and for bars, the evidence file is read, then every series and every    *)
(* feed is asked, one after the other; features are made of what came, and *)
(* an adviser judges them.  Every request may fail on its own.              *)
(***************************************************************************)
EXTENDS Advice

CONSTANTS
    Symbol,          \* the symbol that is asked for
    Providers,       \* "alpaca", "synthetic", or both
    Files,           \* states the evidence file may be in
    QuotePayloads, BarPayloads,   \* what the market data service may answer
    Connectors,      \* sections fred and rss of the configuration, whether there is a key,
                     \* and whether the heuristic may stand in for the model
    Observations,    \* what FRED may answer
    Documents,       \* what a feed may hold
    Answers,         \* what the model may answer
    OutsideWords,    \* words of feeds, and of rows nobody vouched for
    Walks,           \* closes of the synthetic market
    Buckets,         \* five seconds each, of the synthetic market's clock
    EventPeriod      \* 29 in the code

Nothing == [nothing |-> TRUE]

(* What the outside world sends is lists; an evidence row that somebody    *)
(* vouched for has no words of anybody else, and neither has the program,  *)
(* but for the errors it passes on.                                        *)
ASSUME SourceAssumption ==
    /\ \A given \in Files :
          /\ IsSequence(given.rows)
          /\ \A i \in DOMAIN given.rows :
                LET row == given.rows[i]
                IN  row # Mistyped =>
                      /\ row.quality \in {Absent, Null, Mistyped} \cup Int
                      /\ row.untrusted_text \in {False, Zero} =>
                            /\ IsSequence(row.title) /\ IsSequence(row.text)
                            /\ (Range(row.title) \cup Range(row.text)) \cap OutsideWords = {}
    /\ Nothing \notin QuotePayloads
    /\ \A rows \in BarPayloads : IsSequence(rows)
    /\ \A closes \in Walks : IsSequence(closes)
    /\ \A document \in Documents : document # Nothing /\ IsSequence(document.text)
    /\ \A c \in Connectors :
          /\ IsSequence(c.fred.series) /\ Range(c.fred.series) \cap OutsideWords = {}
          /\ IsSequence(c.rss.feeds) /\ c.rss.max_items_per_feed \in Int
    /\ IsSequence(Reason)
    /\ OutsideWords \cap {"retrieval error", "connector disabled", "no key", "FRED",
                          "realized volatility", "event-risk flag"} = {}

VARIABLES
    at,          \* how far the recommendation has come
    book,        \* the quote the service gave
    market,      \* the snapshot, as far as it is known
    asked,       \* how many series or feeds were asked
    down,        \* history: requests that failed
    heard,       \* history: what each feed held
    file,        \* the evidence file
    connectors,  \* the configuration, as far as it matters here
    features, prompt, assessment

observationVars == <<at, book, market, asked, down, heard, file, connectors, features, prompt, assessment>>

ObservationInit ==
    /\ \E provider \in Providers : at = IF provider = "alpaca" THEN "quote" ELSE "synthetic"
    /\ file \in Files /\ connectors \in Connectors
    /\ book = Nothing /\ market = Nothing
    /\ asked = 0 /\ down = {} /\ heard = <<>>
    /\ features = Nothing /\ prompt = Nothing /\ assessment = Nothing

Ends == UNCHANGED <<market, asked, heard, file, connectors, features, prompt, assessment>>

(* A request without which there is no snapshot fails, or its answer does. *)
SnapshotFails(step) ==
    /\ at = step
    /\ at' = "failed"
    /\ UNCHANGED book /\ Ends
    /\ down' = down \cup {<<step, 0>>}

FetchQuote ==
    /\ at = "quote"
    /\ \E payload \in QuotePayloads : book' = payload
    /\ at' = "bars"
    /\ UNCHANGED down /\ Ends

-----------------------------------------------------------------------------
(* parse_bars: a row without all its keys is passed over; a key that is    *)
(* there and is no number fails all of them.                               *)
IsWhole(row) == IF row = Mistyped THEN FALSE ELSE row.close # Absent
parse_bars(rows) ==
    LET places == Ascending({i \in DOMAIN rows : IsWhole(rows[i])}, Len(rows))
        whole  == [k \in DOMAIN places |-> rows[places[k]]]
    IN  IF \E i \in DOMAIN whole : whole[i].close = Mistyped THEN None ELSE Some(whole)

Opening(quote, bars, items) ==
    [quote |-> quote, bars |-> bars, evidence |-> items]

(* Newest first on the wire, oldest first from here on.                    *)
FetchBars ==
    /\ at = "bars"
    /\ \E rows \in BarPayloads, market_state \in {"open", "closed"} :
          LET bars == Else(parse_bars(Reverse(rows)), <<>>)
              last == Last(bars)
          IN  IF bars = <<>>
              THEN at' = "failed" /\ down' = down \cup {<<"bars", 0>>} /\ UNCHANGED market
              ELSE /\ at' = "file"
                   /\ market' = Opening(build_quote([book EXCEPT !.t = Given_or(@, last.t)],
                                                    last.close, market_state), bars, <<>>)
                   /\ UNCHANGED down
    /\ UNCHANGED <<book, asked, heard, file, connectors, features, prompt, assessment>>

Gathers(items) == market' = [market EXCEPT !.evidence = @ \o items]

ReadFile ==
    /\ at = "file"
    /\ Gathers(load_evidence_file(file, Symbol))
    /\ at' = "fred" /\ asked' = 0
    /\ UNCHANGED <<book, down, heard, file, connectors, features, prompt, assessment>>

UsesFred == connectors.fred.enabled /\ connectors.fred.has_key
Series == capped(connectors.fred.series, MAX_SERIES)
Feeds == capped(connectors.rss.feeds, MAX_FEEDS)

(* load_fred_evidence is over, or has nothing to ask.                      *)
FredEnds ==
    /\ at = "fred"
    /\ ~UsesFred \/ asked = Len(Series)
    /\ Gathers(IF connectors.fred.enabled /\ ~connectors.fred.has_key
               THEN <<missing_key_evidence>> ELSE <<>>)
    /\ at' = "rss" /\ asked' = 0
    /\ UNCHANGED <<book, down, heard, file, connectors, features, prompt, assessment>>

AsksFred ==
    /\ at = "fred" /\ UsesFred /\ asked < Len(Series)
    /\ asked' = asked + 1
    /\ UNCHANGED <<at, book, heard, file, connectors, features, prompt, assessment>>

Mut_FirstErrorEndsFred ==
    /\ at = "fred" /\ UsesFred /\ asked < Len(Series)
    /\ asked' = Len(Series)
    /\ UNCHANGED <<at, book, heard, file, connectors, features, prompt, assessment>>
    /\ Gathers(<<FredError(Series[asked + 1])>>)
    /\ down' = down \cup {<<"fred", asked + 1>>}

SeriesFails ==
    /\ AsksFred
    /\ Gathers(<<FredError(Series[asked + 1])>>)
    /\ down' = down \cup {<<"fred", asked + 1>>}

SeriesAnswers ==
    /\ AsksFred
    /\ \E observation \in Observations :
          Gathers(<<observation_evidence(Series[asked + 1], observation)>>)
    /\ UNCHANGED down

AsksFeed ==
    /\ at = "rss" /\ connectors.rss.enabled /\ asked < Len(Feeds)
    /\ asked' = asked + 1
    /\ UNCHANGED <<at, book, file, connectors, features, prompt, assessment>>

FeedFails ==
    /\ AsksFeed
    /\ Gathers(<<FeedError(asked + 1)>>)
    /\ down' = down \cup {<<"rss", asked + 1>>}
    /\ heard' = Append(heard, Nothing)

FeedAnswers ==
    /\ AsksFeed
    /\ \E document \in Documents :
          /\ Gathers(FeedItems(asked + 1, Symbol, document.text, connectors.rss.max_items_per_feed))
          /\ heard' = Append(heard, document)
    /\ UNCHANGED down

(* load_rss_evidence is over, and so is the snapshot.                      *)
RssEnds ==
    /\ at = "rss"
    /\ ~connectors.rss.enabled \/ asked = Len(Feeds)
    /\ at' = "features"
    /\ UNCHANGED <<book, market, asked, down, heard, file, connectors, features, prompt, assessment>>

-----------------------------------------------------------------------------
(* SyntheticProvider::snapshot_at: a walk seeded by symbol and bucket, its *)
(* quote of this moment, two items of its own and the evidence file.        *)
Synthesize ==
    /\ at = "synthetic"
    /\ \E closes \in Walks, bucket \in Buckets :
          LET last  == Last(closes)
              quote == [bid |-> last - 1, ask |-> last + 1, last |-> last, time |-> 0,
                        market_state |-> "open"]
              own   == <<EvidenceItem(<<"synthetic-rv", bucket>>, "option_metric",
                                      <<"realized volatility">>, <<>>, Realized(closes), 100, FALSE),
                         EvidenceItem(<<"synthetic-event", bucket>>, "event", <<"event-risk flag">>,
                                      <<>>, IF bucket % EventPeriod = 0 THEN True ELSE False,
                                      100, FALSE)>>
              bars  == [i \in DOMAIN closes |-> [close |-> closes[i], volume |-> i, t |-> 0]]
          IN  market' = Opening(quote, bars, own \o load_evidence_file(file, Symbol))
    /\ at' = "features"
    /\ UNCHANGED <<book, asked, down, heard, file, connectors, features, prompt, assessment>>

BuildFeatures ==
    /\ at = "features"
    /\ features' = build_features(market)
    /\ at' = "adviser"
    /\ UNCHANGED <<book, market, asked, down, heard, file, connectors, prompt, assessment>>

(* The heuristic is the adviser.                                           *)
HeuristicAssesses ==
    /\ at = "adviser"
    /\ assessment' = heuristic(features)
    /\ at' = "assessed"
    /\ UNCHANGED <<book, market, asked, down, heard, file, connectors, features, prompt>>

AskModel ==
    /\ at = "adviser"
    /\ prompt' = Prompt(market.evidence, features)
    /\ at' = "model"
    /\ UNCHANGED <<book, market, asked, down, heard, file, connectors, features, assessment>>

(* The model's answer is believed; else the heuristic stands in for it, if  *)
(* it may, and the recommendation fails if it may not.                     *)
ModelAnswers ==
    /\ at = "model"
    /\ \E answer \in Answers :
          IF openai(answer) = None /\ ~connectors.fallback_to_heuristic
          THEN at' = "failed" /\ UNCHANGED assessment
          ELSE at' = "assessed" /\ assessment' = Else(openai(answer), heuristic(features))
    /\ UNCHANGED <<book, market, asked, down, heard, file, connectors, features, prompt>>

ObservationNext ==
    \/ \E step \in {"quote", "bars"} : SnapshotFails(step)
    \/ FetchQuote \/ FetchBars \/ ReadFile
    \/ SeriesFails \/ SeriesAnswers \/ FredEnds
    \/ FeedFails \/ FeedAnswers \/ RssEnds
    \/ Synthesize
    \/ BuildFeatures \/ HeuristicAssesses \/ AskModel \/ ModelAnswers

ObservationSpec == ObservationInit /\ [][ObservationNext]_observationVars

-----------------------------------------------------------------------------
(* What one feed adds.                                                     *)
Added(feed) ==
    IF heard[feed] = Nothing THEN <<FeedError(feed)>>
    ELSE FeedItems(feed, Symbol, heard[feed].text, connectors.rss.max_items_per_feed)

Asks == IF UsesFred THEN Len(Series) ELSE IF connectors.fred.enabled THEN 1 ELSE 0

IsHeard(item, i) ==
    /\ item.evidence_id[1] \in {"fred", "fred-error"} /\ item.evidence_id[2] = Series[i]
    /\ item = FredError(Series[i]) <=> <<"fred", i>> \in down

(* fred.rs:103 and rss.rs:104, "a connector failure becomes a data_quality *)
(* evidence item, not a process failure": a series or a feed that cannot be *)
(* asked leaves exactly one item that names it, and takes nothing away     *)
(* from the others; every series has one item, every feed its entries, up  *)
(* to the caps and in their order.                                         *)
EverySourceIsHeard ==
    at \in {"features", "adviser", "model", "assessed"} /\ book # Nothing =>
        LET own   == Len(load_evidence_file(file, Symbol))
            macro == SubSeq(market.evidence, own + 1, own + Asks)
            news  == SubSeq(market.evidence, own + Asks + 1, Len(market.evidence))
        IN  /\ Len(heard) = IF connectors.rss.enabled THEN Len(Feeds) ELSE 0
            /\ Len(market.evidence) >= own + Asks
            /\ UsesFred => \A i \in DOMAIN Series : IsHeard(macro[i], i)
            /\ news = FlattenSeq([i \in DOMAIN heard |-> Added(i)])

(* Two kinds of feed are not read as they are meant: a DOCTYPE without a    *)
(* subset swallows what is in front of a section with brackets, and an end *)
(* tag whose name only begins like the entry's ends the entry.             *)
ReadAsMeant(document) ==
    /\ document.prolog # "declaration" \/ document.kind # "cdata"
    /\ \A i \in DOMAIN document.within :
          document.within[i].kind = "close" =>
              ~PassesFor(document.within[i], Piece("open", document.name))

MeantItems(feed) ==
    LET said == UpTo(Clamp(connectors.rss.max_items_per_feed, 0, MAX_ITEMS), heard[feed].entries)
    IN  [i \in DOMAIN said |-> entry_evidence(feed, i, Symbol, said[i])]

(* rss_xml.rs:1-4, "only ever extracts the text content of a handful of     *)
(* named leaf elements": of an RSS or an Atom feed, but for the two kinds   *)
(* above, as texts or as CDATA, and around tags that are empty, belong to  *)
(* the channel or are none of those that are read, what comes of it is     *)
(* what its entries say, each in its place.                                *)
FeedsAreReadAsMeant ==
    \A i \in DOMAIN heard :
        IF heard[i] = Nothing THEN TRUE
        ELSE ReadAsMeant(heard[i]) => Added(i) = MeantItems(i)

IsShown == prompt # Nothing
Written(i) == Range(prompt.evidence[i].title) \cup Range(prompt.evidence[i].text)
ReportsFailure(item) == item.evidence_id[1] \in {"fred-error", "rss-error"}

(* LLR-060: among the evidence a model is shown, an item made of a feed's   *)
(* entry or of a row of the file has words of somebody nobody vouched for  *)
(* only if it is marked as untrusted.  It says nothing of the reports of   *)
(* failed requests and of the features: see WholePromptIsMarked.           *)
UntrustedStaysMarked ==
    IsShown =>
        \A i \in DOMAIN prompt.evidence :
            ~ReportsFailure(prompt.evidence[i]) /\ Written(i) \cap OutsideWords # {} =>
                prompt.evidence[i].untrusted_text

(* What THREAT_MODEL.md says of news and feeds, "Evidence text is labeled   *)
(* untrusted", for all of the prompt.  It does not hold: the error of a    *)
(* feed may have words of the address it was redirected to, in an item     *)
(* that is trusted, and a number stands among the features under a key     *)
(* made of its title, whoever wrote it.                                    *)
WholePromptIsMarked ==
    IsShown =>
        /\ \A i \in DOMAIN prompt.evidence :
              Written(i) \cap OutsideWords # {} => prompt.evidence[i].untrusted_text
        /\ \A key \in DOMAIN prompt.features : Range(key) \cap OutsideWords = {}

(* LLR-052 to LLR-055: whatever the model answers, and whatever is missing *)
(* of the market, the assessment that is used keeps to the schema, and what *)
(* the heuristic cites is there.                                           *)
AssessmentKeepsToSchema ==
    assessment # Nothing =>
        /\ assessment.regime \in ALLOWED_REGIMES
        /\ assessment.confidence \in 0 .. Whole
        /\ assessment.hedge_urgency \in 0 .. 100
        /\ assessment.band_multiplier \in 50 .. 300
        /\ Len(assessment.evidence_ids) <= MaxList
        /\ Len(assessment.scenario_spot_shocks) \in 1 .. MaxShocks
        /\ \A i \in DOMAIN assessment.scenario_spot_shocks :
              assessment.scenario_spot_shocks[i] \in -30 .. 30
        /\ assessment.advisor_kind = "heuristic" =>
              Range(assessment.evidence_ids) \subseteq
                  {market.evidence[i].evidence_id : i \in DOMAIN market.evidence}
================================================================================
