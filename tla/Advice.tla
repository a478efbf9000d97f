--------------------------------- MODULE Advice ---------------------------------
(***************************************************************************)
(* What the two advisers say.  The heuristic reads the features; a model   *)
(* is shown a prompt, answers whatever it likes, and is believed if its    *)
(* answer fits the schema to the letter.                                   *)
(*                                                                         *)
(* Confidence is in shares of Whole, as the quality of the data is; the    *)
(* other numbers of an assessment are hundredths.                          *)
(***************************************************************************)
EXTENDS Features

CONSTANTS
    ImpliedVolatility,    \* of the contract, in percent
    Gamma,                \* gamma * midpoint * 5 of the core's answer, in hundredths
    max_evidence_items, max_evidence_chars,
    MaxList, MaxShocks,   \* 8 and 7 in the code
    MaxSummary            \* characters, 1000 in the code

ASSUME AdviceAssumption ==
    /\ Gamma \in Int
    /\ {max_evidence_items, max_evidence_chars, MaxList} \subseteq Nat
    /\ MaxShocks \in Nat /\ MaxShocks >= 4

ALLOWED_REGIMES ==
    {"calm", "trend_up", "trend_down", "volatile", "jump_risk", "illiquid", "uncertain"}

REQUIRED_KEYS ==
    {"regime", "confidence", "hedge_urgency", "band_multiplier", "summary", "evidence_ids",
     "risks", "scenario_spot_shocks", "data_requests"}

-----------------------------------------------------------------------------
(* The volatility to go by: a smoothed one of zero counts as none.         *)
rv(f) ==
    IF Given(f.ewma) /\ f.ewma # Some(0) THEN f.ewma ELSE f.realized

(* The signs of a regime in the order they are looked for, the band and the *)
(* urgency that go with it.  A spread that is infinite is a null among the *)
(* features, and the heuristic reads a null as zero.                       *)
Signs(f) ==
    LET vol   == rv(f)
        trend == Else(f.trend, 0)
    IN  <<[seen |-> ~SpreadIsInfinite(f.quote) /\ SpreadExceeds(f.quote, 35),
           regime |-> "illiquid", band |-> 200, urgency |-> 25],
          [seen |-> f.event_risk, regime |-> "jump_risk", band |-> 75, urgency |-> 90],
          [seen |-> Given(vol) /\ Else(vol, 0) * 100 > ImpliedVolatility * 125,
           regime |-> "volatile", band |-> 70, urgency |-> 80],
          [seen |-> trend > 125, regime |-> "trend_up", band |-> 85, urgency |-> 65],
          [seen |-> trend < -125, regime |-> "trend_down", band |-> 85, urgency |-> 65],
          [seen |-> Given(vol) /\ Else(vol, 0) * 100 < ImpliedVolatility * 70,
           regime |-> "calm", band |-> 135, urgency |-> 30],
          [seen |-> TRUE, regime |-> "uncertain", band |-> 100, urgency |-> 50]>>

(* HeuristicAdvisor::assess.                                               *)
heuristic(f) ==
    LET signs == Signs(f)
        sign  == signs[Min({i \in DOMAIN signs : signs[i].seen})]
        sure  == IF Given(rv(f)) THEN 90 ELSE 65
    IN  [advisor_kind    |-> "heuristic",
         regime          |-> sign.regime,
         confidence      |-> Clamp((f.data_quality * sure) \div 100, 30, 570),
         hedge_urgency   |-> Min({Max({sign.urgency, Min({Gamma, 100})}), 100}),
         band_multiplier |-> sign.band,
         evidence_ids    |-> UpTo(MaxList, f.evidence_ids),
         scenario_spot_shocks |-> <<-10, -5, 5, 10>>,
         data_requests   |-> IF Given(rv(f)) THEN <<>> ELSE <<"more bars">>]

-----------------------------------------------------------------------------
(* build_payload: what a model is shown that is made of what others wrote. *)
(* Of the evidence the first items, of their texts the first words, and    *)
(* what marks them as untrusted; of the features the numbers under the     *)
(* titles they were found under.                                           *)
Prompt(items, f) ==
    LET shown == UpTo(max_evidence_items, items)
    IN  [evidence |-> [i \in DOMAIN shown |->
                          [shown[i] EXCEPT !.text = UpTo(max_evidence_chars, @)]],
         features |-> f.evidence]

(* An answer of the service is a failure of the request, or what it holds: *)
(* no text, text that is no JSON, JSON that is no object, or an object.    *)
finite_number(v, low, high) == IF v = Mistyped THEN FALSE ELSE v \in low .. high

string_list(v) ==
    IF v = Mistyped THEN FALSE ELSE Len(v) <= MaxList /\ \A i \in DOMAIN v : v[i] # Mistyped

Mut_KeysMayBeMore(object) ==
    /\ REQUIRED_KEYS \subseteq DOMAIN object
    /\ object["regime"] \in ALLOWED_REGIMES
    /\ finite_number(object["confidence"], 0, Whole)
    /\ finite_number(object["band_multiplier"], 50, 300)
    /\ \A key \in {"evidence_ids", "risks", "data_requests"} : string_list(object[key])

(* validate_assessment_payload: the keys are exactly the required ones, and *)
(* every value is of its type and in its range.  A summary is the number of *)
(* its characters.                                                         *)
IsAssessment(object) ==
    /\ DOMAIN object = REQUIRED_KEYS
    /\ object["regime"] \in ALLOWED_REGIMES
    /\ IF object["scenario_spot_shocks"] = Mistyped THEN FALSE
       ELSE /\ Len(object["scenario_spot_shocks"]) \in 1 .. MaxShocks
            /\ \A i \in DOMAIN object["scenario_spot_shocks"] :
                  finite_number(object["scenario_spot_shocks"][i], -30, 30)
    /\ finite_number(object["summary"], 0, MaxSummary)
    /\ finite_number(object["confidence"], 0, Whole)
    /\ finite_number(object["hedge_urgency"], 0, 100)
    /\ finite_number(object["band_multiplier"], 50, 300)
    /\ \A key \in {"evidence_ids", "risks", "data_requests"} : string_list(object[key])

(* OpenAIAdvisor::assess of an answer: nothing if it is not believed.       *)
openai(answer) ==
    IF answer.state # "object" THEN None
    ELSE IF ~IsAssessment(answer.object) THEN None
    ELSE Some([key \in (REQUIRED_KEYS \ {"summary", "risks"}) \cup {"advisor_kind"} |->
                  IF key = "advisor_kind" THEN "openai" ELSE answer.object[key]])
=================================================================================
