-------------------------------- MODULE Features --------------------------------
(***************************************************************************)
(* build_features: what is known about the market, what is missing, and    *)
(* how good the data is.  A feature that is not known is an option without *)
(* a value.  The statistics themselves are parameters: the model decides    *)
(* when they can be computed and what becomes of them.                     *)
(***************************************************************************)
EXTENDS MarketQuote, Evidence

CONSTANTS
    Realized(_), Ewma(_),        \* volatilities of a sequence of closes, in percent
    Trend(_, _),                 \* return over volatility, in hundredths
    FeatureKey(_),               \* evidence_feature_key, of a title
    short_window, long_window,   \* in bars
    VolumeHistory                \* bars a volume score needs, 21 in the code

ASSUME FeatureAssumption ==
    /\ short_window \in Int /\ long_window \in Int
    /\ VolumeHistory \in Nat

(* Shares of one in the quality of the data.                               *)
Whole == 600

(* Shares of a whole that n of so many are, at most all of it.             *)
Share(n, of) == Min({Whole, (Whole * n) \div of})

Window(w) == Max({w, 0})

(* horizon_return: of one close over the one so many bars before it.        *)
horizon_return(closes, w) ==
    IF Len(closes) <= Window(w) THEN None
    ELSE Some(closes[Len(closes)] - closes[Len(closes) - Window(w)])

(* summarize: the numbers of the evidence, the later of two with the same  *)
(* key, and whether an event is flagged.                                   *)
Numbers(items) ==
    LET numeric == {i \in DOMAIN items : items[i].value \notin {Null, True, False, Mistyped}}
        Key(i)  == FeatureKey(items[i].title)
    IN  [key \in {Key(i) : i \in numeric} |->
            items[Max({i \in numeric : Key(i) = key})].value]

EventRisk(items) ==
    \E i \in DOMAIN items : items[i].kind = "event" /\ items[i].value = True

Mean(numbers) ==
    LET total[n \in 0 .. Len(numbers)] == IF n = 0 THEN 0 ELSE total[n - 1] + numbers[n]
    IN  IF numbers = <<>> THEN 0 ELSE total[Len(numbers)] \div Len(numbers)

(* The mean of what there is to judge by, evidence only if there is any.    *)
DataQuality(quote, bar_count, missing_count, items) ==
    LET points == [i \in DOMAIN items |-> items[i].quality * (Whole \div 100)]
        basis  == <<IF Midpoint2(quote) > 0 THEN Whole ELSE 0,
                    IF SpreadIsInfinite(quote) THEN 0 ELSE Whole,
                    Share(bar_count, Window(long_window) + 1),
                    Whole - Share(missing_count, 6)>>
    IN  Mean(IF items = <<>> THEN basis ELSE Append(basis, Mean(points)))

(* The closes of a snapshot's bars that are worth something.               *)
Closes(bars) ==
    LET kept == SelectSeq(bars, LAMBDA bar : bar.close > 0)
    IN  [i \in DOMAIN kept |-> kept[i].close]

(* There is a score for the last volume if those before it are enough, and *)
(* not all the same.                                                       *)
VolumesVary(bars) ==
    /\ Len(bars) >= VolumeHistory
    /\ \E i, j \in Len(bars) - VolumeHistory + 1 .. Len(bars) - 1 :
          bars[i].volume # bars[j].volume

build_features(market) ==
    LET closes   == Closes(market.bars)
        returns  == Max({0, Len(closes) - 1})
        realized == IF returns >= 2 THEN Some(Realized(closes)) ELSE None
        ewma     == IF returns >= 1 THEN Some(Ewma(closes)) ELSE None
        short    == horizon_return(closes, short_window)
        long     == horizon_return(closes, long_window)
        known    == <<realized, ewma, short, long>>
        missing  == {i \in DOMAIN known : ~Given(known[i])}
    IN  [quote        |-> market.quote,
         realized     |-> realized,
         ewma         |-> ewma,
         short        |-> short,
         long         |-> long,
         trend        |-> IF Given(short) /\ Given(realized)
                          THEN IF Value(realized) > 0
                               THEN Some(Trend(Value(short), Value(realized))) ELSE None
                          ELSE None,
         volume_known |-> VolumesVary(market.bars),
         event_risk   |-> EventRisk(market.evidence),
         evidence     |-> Numbers(market.evidence),
         missing      |-> missing,
         data_quality |-> DataQuality(market.quote, Len(market.bars), Cardinality(missing),
                                      market.evidence),
         evidence_ids |-> [i \in DOMAIN market.evidence |-> market.evidence[i].evidence_id]]
=================================================================================
