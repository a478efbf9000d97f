-------------------------------- MODULE Engine --------------------------------
(***************************************************************************)
(* SmartHedgeEngine::recommendation, run by any number of callers at once: *)
(* dashboard threads, an MCP server, a command line, in one process or in  *)
(* several that share the database and the core's binary.                  *)
(*                                                                         *)
(* A call reads the clock once, at its start, and judges and dates its     *)
(* decision by that reading; the date keeps no more of it than a timestamp *)
(* has room for.  Every step that leaves the process (market data, core,   *)
(* adviser, database) may take any time and may fail.  What a call has     *)
(* computed so far is its local state, lost in a crash; the rows and the   *)
(* binary on disk survive.  Instants and ages are in units of the clock.   *)
(***************************************************************************)
EXTENDS PolicyGate, DecisionStore

CONSTANTS
    Caller,
    Symbol,
    Contracted,           \* symbols with a contract in the configuration
    Feeds,                \* what the provider may say, time apart
    Lags,                 \* how old a quote may be when it is fetched
    Hedges,               \* answers of the core
    Assessments,          \* answers of the adviser, grounded or not
    AdviserKind,          \* "heuristic" or "openai"
    fallback_to_heuristic, \* per caller: the configuration of its process
    Stamp,                \* units of the clock to the last digit of a timestamp
    max_evidence_items,   \* how many items the model is shown
    HeuristicCitations,   \* how many the heuristic cites, 8 in the code
    MaxClock, MaxDecisions, MaxBuilds   \* bounds of the model

FeedType ==
    [bp : Int, ap : Int, close : Int, market_state : {"open", "closed"},
     data_quality : Nat, evidence : Seq(EvidenceId)]

ASSUME EngineAssumption ==
    /\ Contracted \subseteq Symbol
    /\ Feeds \subseteq FeedType
    /\ Lags \subseteq Nat
    /\ Hedges \subseteq HedgeType
    /\ Assessments \subseteq AssessmentType
    /\ AdviserKind \in {"heuristic", "openai"}
    /\ fallback_to_heuristic \in [Caller -> BOOLEAN]
    /\ Stamp \in Nat \ {0}
    /\ max_evidence_items \in Nat /\ HeuristicCitations \in Nat

VARIABLES
    clock,      \* the system's, finer than a timestamp
    binary,     \* which build of the core is on disk
    next_id,    \* the next identifier new_unique_id will make
    call,       \* per caller, the recommendation in progress
    released,   \* history: decisions that were returned
    origin      \* history: how each decision really came about

engineVars == <<clock, binary, next_id, call, rows, released, origin>>

Idle == [step |-> "idle"]

EngineInit ==
    /\ StoreInit
    /\ clock = 0
    /\ binary = 0
    /\ next_id = 0
    /\ call = [c \in Caller |-> Idle]
    /\ released = {}
    /\ origin = {}

Busy == {c \in Caller : call[c] # Idle}

(* TimestampUtc::to_iso_string: microseconds, of a clock in nanoseconds.   *)
to_iso_string(t) == (t \div Stamp) * Stamp

(* The caller leaves the engine, with an error or with a decision.         *)
Leave(c) == call' = [call EXCEPT ![c] = Idle]

(* An error ends the call: it leaves nothing behind.                       *)
Fail(c) == Leave(c) /\ UNCHANGED <<clock, binary, next_id, rows, released, origin>>

(* A step that changes nothing but the call's own state.                   *)
Proceed(c, state) ==
    /\ call' = [call EXCEPT ![c] = state]
    /\ UNCHANGED <<clock, binary, rows, released>>

(* recommendation: the one reading of the clock.                           *)
Start(c, symbol) ==
    /\ call[c] = Idle
    /\ next_id + Cardinality(Busy) < MaxDecisions
    /\ Proceed(c, [step |-> "snapshot", request |-> [symbol |-> symbol, now |-> clock]])
    /\ UNCHANGED <<next_id, origin>>

(* What the provider returns: a quote taken at time t, or bars that old    *)
(* when it has no quote, and the evidence that came with it.               *)
snapshot(feed, t) ==
    [quote        |-> build_quote([bp |-> feed.bp, ap |-> feed.ap, t |-> t],
                                  feed.close, feed.market_state),
     data_quality |-> feed.data_quality,
     evidence     |-> feed.evidence]

(* The symbol has a contract, and one that can be priced: struck at the    *)
(* money it needs a midpoint, which the core asks of any spot price too.   *)
Resolves(symbol, quote) == symbol \in Contracted /\ Midpoint2(quote) > 0

(* The provider answers with what the market shows by now, or fails.       *)
Snapshot(c) ==
    /\ call[c].step = "snapshot"
    /\ \/ Fail(c)
       \/ \E feed \in Feeds, lag \in Lags :
             LET market == snapshot(feed, clock - lag)
             IN  /\ Resolves(call[c].request.symbol, market.quote)
                 /\ Proceed(c, [step    |-> "core",
                                request |-> call[c].request,
                                market  |-> market])
                 /\ UNCHANGED <<next_id, origin>>

Priced(c, hedge) ==
    [step    |-> "adviser",
     request |-> call[c].request,
     market  |-> call[c].market,
     pricing |-> [hedge |-> hedge, ran |-> binary]]

(* run_core: whatever binary is on disk now prices the contract.           *)
RunCore(c) ==
    /\ call[c].step = "core"
    /\ \/ Fail(c)
       \/ \E hedge \in Hedges :
             Proceed(c, Priced(c, hedge)) /\ UNCHANGED <<next_id, origin>>

-----------------------------------------------------------------------------
FirstOf(n, s) == {s[i] : i \in {j \in DOMAIN s : j <= n}}

(* What a model is shown of the evidence, and what the policy holds it to. *)
Supplied(evidence) == FirstOf(max_evidence_items, evidence)
Known(evidence) == FirstOf(Len(evidence), evidence)

(* The heuristic cites the first items there are, and never fails.         *)
HeuristicAnswers(evidence) ==
    {[a EXCEPT !.evidence_ids = FirstOf(HeuristicCitations, evidence)] : a \in Assessments}

Inputs(me, assessment) ==
    [quote        |-> me.market.quote,
     data_quality |-> me.market.data_quality,
     evidence_ids |-> Known(me.market.evidence),
     hedge        |-> me.pricing.hedge,
     assessment   |-> assessment]

Mut_JudgedLate(me, assessment, kind, erred) ==
    [decision_id   |-> next_id,
     created_at    |-> to_iso_string(me.request.now),
     symbol        |-> me.request.symbol,
     inputs        |-> Inputs(me, assessment),
     advisor_kind  |-> kind,
     policy        |-> evaluate_policy(Inputs(me, assessment), clock),
     fallback_used |-> erred,
     core_binary_sha256 |-> binary]

(* The decision the policy makes of an assessment.  It is judged by the    *)
(* clock reading of the start and dated by what a timestamp keeps of it;   *)
(* its audit record names the binary that is on disk by now.               *)
Decision(me, assessment, kind, erred) ==
    [decision_id   |-> next_id,
     created_at    |-> to_iso_string(me.request.now),
     symbol        |-> me.request.symbol,
     inputs        |-> Inputs(me, assessment),
     advisor_kind  |-> kind,
     policy        |-> evaluate_policy(Inputs(me, assessment), me.request.now),
     fallback_used |-> erred,
     core_binary_sha256 |-> binary]

(* What really happened to the decision now made, for the properties.      *)
Origin(me, kind, erred) ==
    [decision_id    |-> next_id,
     adviser_failed |-> erred,
     ran            |-> me.pricing.ran,
     decided_at     |-> clock,
     supplied       |-> IF kind = "openai" THEN Supplied(me.market.evidence)
                        ELSE Known(me.market.evidence)]

Decide(c, decision, happened) ==
    /\ Proceed(c, [step |-> "append", decision |-> decision])
    /\ next_id' = next_id + 1
    /\ origin' = origin \cup {happened}

(* The adviser answers, with whatever citations it likes if it is a model. *)
AdviserAnswers(c) ==
    /\ call[c].step = "adviser"
    /\ \E a \in IF AdviserKind = "heuristic"
                THEN HeuristicAnswers(call[c].market.evidence) ELSE Assessments :
          Decide(c, Decision(call[c], a, AdviserKind, FALSE),
                 Origin(call[c], AdviserKind, FALSE))

Mut_SilentFallback(c) ==
    /\ call[c].step = "adviser" /\ AdviserKind = "openai"
    /\ IF fallback_to_heuristic[c]
       THEN \E a \in HeuristicAnswers(call[c].market.evidence) :
               Decide(c, Decision(call[c], a, "heuristic", FALSE),
                      Origin(call[c], "heuristic", TRUE))
       ELSE Fail(c)

Mut_AskAgain(c) ==
    /\ call[c].step = "adviser" /\ AdviserKind = "openai"
    /\ IF fallback_to_heuristic[c]
       THEN \E a \in HeuristicAnswers(call[c].market.evidence) :
               Decide(c, Decision(call[c], a, "heuristic", TRUE),
                      Origin(call[c], "heuristic", TRUE))
       ELSE /\ Proceed(c, [step |-> "snapshot", request |-> call[c].request])
            /\ UNCHANGED <<next_id, origin>>

(* The model fails: the heuristic takes over, or the call ends here.       *)
AdviserFails(c) ==
    /\ call[c].step = "adviser" /\ AdviserKind = "openai"
    /\ IF fallback_to_heuristic[c]
       THEN \E a \in HeuristicAnswers(call[c].market.evidence) :
               Decide(c, Decision(call[c], a, "heuristic", TRUE),
                      Origin(call[c], "heuristic", TRUE))
       ELSE Fail(c)

-----------------------------------------------------------------------------
Mut_ReturnAnyway(c) ==
    /\ call[c].step = "append"
    /\ call' = [call EXCEPT ![c].step = "return"]
    /\ \/ AppendRow(call[c].decision)
       \/ UNCHANGED rows
    /\ UNCHANGED <<clock, binary, next_id, released, origin>>

(* The decision is stored, or the call ends with the store's error.        *)
Store(c) ==
    /\ call[c].step = "append"
    /\ \/ Fail(c)
       \/ /\ AppendRow(call[c].decision)
          /\ call' = [call EXCEPT ![c].step = "return"]
          /\ UNCHANGED <<clock, binary, next_id, released, origin>>

Return(c) ==
    /\ call[c].step = "return"
    /\ Leave(c)
    /\ released' = released \cup {call[c].decision}
    /\ UNCHANGED <<clock, binary, next_id, rows, origin>>

(* A process dies with the calls of its threads; what they stored stays.   *)
Crash(threads) ==
    /\ threads \cap Busy # {}
    /\ call' = [c \in Caller |-> IF c \in threads THEN Idle ELSE call[c]]
    /\ UNCHANGED <<clock, binary, next_id, rows, released, origin>>

Tick ==
    /\ clock < MaxClock
    /\ clock' = clock + 1
    /\ UNCHANGED <<binary, next_id, call, rows, released, origin>>

(* Somebody rebuilds the core (the build command, a deployment).           *)
Rebuild ==
    /\ binary < MaxBuilds
    /\ binary' = binary + 1
    /\ UNCHANGED <<clock, next_id, call, rows, released, origin>>

(* What a call does or waits for with a limit of its own: the HTTP calls   *)
(* of the provider and the model have a timeout each, the database has a   *)
(* busy timeout, and the rest is computation.                              *)
LimitedStep(c) ==
    Snapshot(c) \/ AdviserAnswers(c) \/ AdviserFails(c) \/ Store(c) \/ Return(c)

EngineNext ==
    \/ \E c \in Caller :
          \/ \E symbol \in Symbol : Start(c, symbol)
          \/ Snapshot(c)
          \/ RunCore(c)
          \/ AdviserAnswers(c)
          \/ AdviserFails(c)
          \/ Store(c)
          \/ Return(c)
    \/ \E threads \in SUBSET Caller : Crash(threads)
    \/ Tick
    \/ Rebuild

EngineSpec == EngineInit /\ [][EngineNext]_engineVars

(* What has a limit ends by itself.  Of the core nothing is assumed: its   *)
(* time limit may wait for ever (TimedCommand).                            *)
EngineFairness == \A c \in Caller : WF_engineVars(LimitedStep(c))

FairEngineSpec == EngineSpec /\ EngineFairness

-----------------------------------------------------------------------------
Stored == {r.payload_json : r \in rows}

DecisionRecordType ==
    [decision_id : Nat, created_at : Nat, symbol : Symbol, inputs : InputType,
     advisor_kind : {"heuristic", "openai"}, policy : DecisionType,
     fallback_used : BOOLEAN, core_binary_sha256 : Nat]

RequestType == [symbol : Symbol, now : Nat]
MarketType == [quote : QuoteType, data_quality : Nat, evidence : Seq(EvidenceId)]
PricingType == [hedge : HedgeType, ran : Nat]

CallType ==
    {Idle} \cup [step : {"snapshot"}, request : RequestType]
           \cup [step : {"core"}, request : RequestType, market : MarketType]
           \cup [step : {"adviser"}, request : RequestType, market : MarketType,
                 pricing : PricingType]
           \cup [step : {"append", "return"}, decision : DecisionRecordType]

OriginType ==
    [decision_id : Nat, adviser_failed : BOOLEAN, ran : Nat, decided_at : Nat,
     supplied : SUBSET EvidenceId]

ASSUME TextAssumption == Garbled \notin DecisionRecordType

EngineTypeOK ==
    /\ clock \in Nat
    /\ binary \in Nat
    /\ next_id \in Nat
    /\ call \in [Caller -> CallType]
    /\ \A r \in rows : r.payload_json \in DecisionRecordType /\ r = Row(r.payload_json)
    /\ released \subseteq DecisionRecordType
    /\ origin \subseteq OriginType

(* ARCHITECTURE, decision lifecycle, step 6: whoever was given a decision  *)
(* can replay it, and finds it valid, whatever has failed or crashed since. *)
StoredBeforeReturned ==
    \A d \in released :
        get(d.decision_id) = [payload |-> d, stored_content_hash_valid |-> TRUE]

(* The verdict is the gate's on the inputs, at an instant of that date.    *)
Reproducible(d) ==
    \E t \in d.created_at .. d.created_at + Stamp - 1 :
        d.policy = evaluate_policy(d.inputs, t)

(* HLR-060, replay: a stored decision follows from what is stored with it, *)
(* as far as its date goes: judging its inputs again gives its verdict at  *)
(* some instant its date stands for, however long the call took and        *)
(* whatever ran beside it.  (At the date itself a quote on the edge of     *)
(* staleness may be judged another way: the verdict had the full reading.) *)
DecisionIsReproducible == \A d \in Stored : Reproducible(d)

(* HLR-100, fallback: a stored decision says that the fallback decided if  *)
(* and only if the model failed, and is the heuristic's in that case.      *)
FallbackIsAudited ==
    \A d \in Stored, o \in origin : o.decision_id = d.decision_id =>
        /\ d.fallback_used = o.adviser_failed
        /\ d.fallback_used => d.advisor_kind = "heuristic"

(* Nothing holds a recommendation for ever but a core that never returns:  *)
(* every call comes to an end, in a decision or in an error, when the      *)
(* model fails and the fallback is disabled as well.                       *)
OnlyTheCoreHangs ==
    \A c \in Caller : <>[](call[c].step = "core") \/ []<>(call[c] = Idle)

(* HLR-050, staleness: an approved decision's quote was not stale when the *)
(* policy judged it.                                                       *)
ApprovedIsFresh ==
    \A d \in Stored, o \in origin :
        o.decision_id = d.decision_id /\ d.policy.paper_preview_approved =>
            ~IsStale(d.inputs.quote, o.decided_at, Config.max_quote_age_seconds)

(* HLR-090: an approved decision rests on no citation of evidence that the *)
(* adviser was not shown.                                                  *)
ApprovedIsGrounded ==
    \A d \in Stored, o \in origin :
        o.decision_id = d.decision_id /\ d.policy.paper_preview_approved =>
            d.inputs.assessment.evidence_ids \subseteq o.supplied

(* The engine implements the abstract audit log.                           *)
Log == INSTANCE DecisionLog WITH log <- Stored

ImplementsDecisionLog == Log!LogSpec
=============================================================================
