---------------------------- MODULE DashboardProofs ----------------------------
(***************************************************************************)
(* First the engine's audit trail, for any number of callers, any clock,   *)
(* any provider, core and adviser, and any sequence of failures and        *)
(* crashes.  Then what the dashboard shows, whose steps are steps of that  *)
(* engine: for any number of threads, any requests and any time to live of *)
(* the cache.                                                              *)
(***************************************************************************)
EXTENDS Dashboard, PolicyGateProofs, SequenceTheorems, FiniteSetTheorems

(* A timestamp is at most its last digit behind the instant it stands for, *)
(* and timestamps are in the order of their instants.                      *)
LEMMA TimestampIsClose ==
    ASSUME NEW t \in Nat
    PROVE  to_iso_string(t) \in Nat /\ t \in to_iso_string(t) .. to_iso_string(t) + Stamp - 1
<1>1. Stamp \in Nat \ {0}
  BY EngineAssumption
<1>2. PICK q \in Nat, r \in 0 .. Stamp - 1 : t = q * Stamp + r
  <2>1. t = ((t \div Stamp) * Stamp) + (t % Stamp) /\ t \div Stamp \in Nat /\ t % Stamp \in 0 .. Stamp - 1
    BY <1>1
  <2> QED BY <2>1
<1>3. t \div Stamp = q
  BY <1>1, <1>2
<1> QED BY <1>1, <1>2, <1>3 DEF to_iso_string

LEMMA TimestampsAreOrdered ==
    ASSUME NEW s \in Nat, NEW t \in Nat, s <= t
    PROVE  to_iso_string(s) <= to_iso_string(t)
<1>1. Stamp \in Nat \ {0}
  BY EngineAssumption
<1>2. s \div Stamp <= t \div Stamp /\ s \div Stamp \in Nat /\ t \div Stamp \in Nat
  BY <1>1
<1> QED BY <1>1, <1>2 DEF to_iso_string

(* What the provider returns is a market, at any time.                     *)
LEMMA SnapshotIsTyped ==
    ASSUME NEW feed \in Feeds, NEW lag \in Lags, NEW t \in Nat
    PROVE  snapshot(feed, t - lag) \in MarketType
<1>1. feed \in FeedType /\ lag \in Nat
  BY EngineAssumption
<1> QED BY <1>1 DEF FeedType, MarketType, snapshot, build_quote, SideOr, QuoteType

(* A prefix of the evidence is a set of its identifiers.                   *)
LEMMA FirstOfType ==
    ASSUME NEW s \in Seq(EvidenceId), NEW n
    PROVE  FirstOf(n, s) \in SUBSET EvidenceId
  BY DEF FirstOf

(* The heuristic's answers are assessments, whatever it cites.             *)
LEMMA HeuristicAnswersType ==
    ASSUME NEW s \in Seq(EvidenceId)
    PROVE  HeuristicAnswers(s) \subseteq AssessmentType
<1> SUFFICES ASSUME NEW a \in Assessments
             PROVE  [a EXCEPT !.evidence_ids = FirstOf(HeuristicCitations, s)] \in AssessmentType
  BY DEF HeuristicAnswers
<1>1. a \in AssessmentType
  BY EngineAssumption
<1>2. FirstOf(HeuristicCitations, s) \in SUBSET EvidenceId
  BY FirstOfType
<1> QED BY <1>1, <1>2 DEF AssessmentType

AdvisingType ==
    [step : {"adviser"}, request : RequestType, market : MarketType, pricing : PricingType]

(* A decision made at the adviser's step is a record of the right shape,   *)
(* and follows from its own inputs and date.                               *)
LEMMA DecisionRecordIsTyped ==
    ASSUME NEW me \in AdvisingType, NEW a \in AssessmentType,
           NEW kind \in {"heuristic", "openai"}, NEW erred \in BOOLEAN,
           next_id \in Nat, binary \in Nat
    PROVE  /\ Decision(me, a, kind, erred) \in DecisionRecordType
           /\ Reproducible(Decision(me, a, kind, erred))
           /\ Decision(me, a, kind, erred).decision_id = next_id
<1>1. Known(me.market.evidence) \in SUBSET EvidenceId
  BY FirstOfType DEF Known, AdvisingType, MarketType
<1>2. Inputs(me, a) \in InputType
  BY <1>1 DEF Inputs, InputType, AdvisingType, MarketType, PricingType
<1>3. me.request.now \in Nat /\ me.request.symbol \in Symbol
  BY DEF AdvisingType, RequestType
<1>4. evaluate_policy(Inputs(me, a), me.request.now) \in DecisionType
  BY <1>2, <1>3, DecisionIsTyped
<1>5. /\ to_iso_string(me.request.now) \in Nat
      /\ me.request.now \in to_iso_string(me.request.now)
                                .. to_iso_string(me.request.now) + Stamp - 1
  BY <1>3, TimestampIsClose
<1>6. Reproducible(Decision(me, a, kind, erred))
  BY <1>5 DEF Decision, Reproducible
<1> QED BY <1>2, <1>3, <1>4, <1>5, <1>6 DEF Decision, DecisionRecordType

(* What is remembered of how a decision came about is typed.               *)
LEMMA OriginIsTyped ==
    ASSUME NEW me \in AdvisingType, NEW kind, NEW erred \in BOOLEAN,
           next_id \in Nat, clock \in Nat
    PROVE  Origin(me, kind, erred) \in OriginType
<1>1. Known(me.market.evidence) \in SUBSET EvidenceId
  BY FirstOfType DEF Known, AdvisingType, MarketType
<1>2. Supplied(me.market.evidence) \in SUBSET EvidenceId
  BY FirstOfType DEF Supplied, AdvisingType, MarketType
<1> QED BY <1>1, <1>2 DEF Origin, OriginType, AdvisingType, PricingType
-----------------------------------------------------------------------------
(* A call at a given step holds what that step needs.                      *)
LEMMA CallShapes ==
    ASSUME NEW me \in CallType
    PROVE  /\ me.step = "snapshot" => me.request \in RequestType
           /\ me.step = "core" => me.request \in RequestType /\ me.market \in MarketType
           /\ me.step = "adviser" => me \in AdvisingType
           /\ me.step \in {"append", "return"} =>
                 /\ me.decision \in DecisionRecordType
                 /\ me = [step |-> me.step, decision |-> me.decision]
  BY DEF CallType, Idle, AdvisingType

(* Replacing one call by another state of the right shape keeps the type.  *)
LEMMA CallUpdate ==
    ASSUME NEW c \in Caller, NEW state \in CallType,
           call \in [Caller -> CallType], call' = [call EXCEPT ![c] = state]
    PROVE  call' \in [Caller -> CallType]
  OBVIOUS

(* A call that ends with an error keeps every type.                        *)
LEMMA FailKeepsType ==
    ASSUME EngineTypeOK, NEW c \in Caller, Fail(c)
    PROVE  EngineTypeOK'
<1>1. Idle \in CallType
  BY DEF CallType
<1>2. call' \in [Caller -> CallType]
  BY <1>1, CallUpdate DEF Fail, Leave, EngineTypeOK
<1> QED BY <1>2 DEF Fail, EngineTypeOK

(* A decision made, whoever made it, is typed and dated like its call.     *)
LEMMA DecideKeepsType ==
    ASSUME EngineTypeOK, NEW c \in Caller, call[c].step = "adviser",
           NEW a \in AssessmentType, NEW kind \in {"heuristic", "openai"},
           NEW erred \in BOOLEAN,
           Decide(c, Decision(call[c], a, kind, erred), Origin(call[c], kind, erred))
    PROVE  EngineTypeOK'
<1>1. call[c] \in AdvisingType
  BY CallShapes DEF EngineTypeOK
<1>2. Decision(call[c], a, kind, erred) \in DecisionRecordType
  BY <1>1, DecisionRecordIsTyped DEF EngineTypeOK
<1>3. Origin(call[c], kind, erred) \in OriginType
  BY <1>1, OriginIsTyped DEF EngineTypeOK
<1>4. [step |-> "append", decision |-> Decision(call[c], a, kind, erred)] \in CallType
  BY <1>2 DEF CallType
<1>5. call' \in [Caller -> CallType]
  BY <1>4, CallUpdate DEF Decide, Proceed, EngineTypeOK
<1> QED BY <1>3, <1>5 DEF Decide, Proceed, EngineTypeOK

(* The type invariant.                                                     *)
LEMMA TypeStep == EngineTypeOK /\ [EngineNext]_engineVars => EngineTypeOK'
<1> SUFFICES ASSUME EngineTypeOK, [EngineNext]_engineVars PROVE EngineTypeOK'
  OBVIOUS
<1>1. ASSUME NEW c \in Caller, NEW symbol \in Symbol, Start(c, symbol) PROVE EngineTypeOK'
  <2>1. [step |-> "snapshot", request |-> [symbol |-> symbol, now |-> clock]] \in CallType
    BY DEF CallType, RequestType, EngineTypeOK
  <2>2. call' \in [Caller -> CallType]
    BY <1>1, <2>1, CallUpdate DEF Start, Proceed, EngineTypeOK
  <2> QED BY <1>1, <2>2 DEF Start, Proceed, EngineTypeOK
<1>2. ASSUME NEW c \in Caller, Snapshot(c) PROVE EngineTypeOK'
  <2>1. CASE Fail(c)
    BY <2>1, FailKeepsType
  <2>2. CASE ~Fail(c)
    <3>1. PICK feed \in Feeds, lag \in Lags :
            /\ Proceed(c, [step    |-> "core",
                           request |-> call[c].request,
                           market  |-> snapshot(feed, clock - lag)])
            /\ UNCHANGED <<next_id, origin>>
      BY <1>2, <2>2 DEF Snapshot
    <3> DEFINE market == snapshot(feed, clock - lag)
    <3>2. market \in MarketType
      BY SnapshotIsTyped DEF EngineTypeOK
    <3>3. call[c].request \in RequestType
      BY <1>2, CallShapes DEF Snapshot, EngineTypeOK
    <3> HIDE DEF market
    <3>4. [step |-> "core", request |-> call[c].request, market |-> market] \in CallType
      BY <3>2, <3>3 DEF CallType
    <3>5. call' \in [Caller -> CallType]
      BY <3>1, <3>4, CallUpdate DEF Proceed, EngineTypeOK, market
    <3> QED BY <3>1, <3>5 DEF Proceed, EngineTypeOK
  <2> QED BY <2>1, <2>2
<1>3. ASSUME NEW c \in Caller, RunCore(c) PROVE EngineTypeOK'
  <2>1. CASE Fail(c)
    BY <2>1, FailKeepsType
  <2>2. CASE ~Fail(c)
    <3>1. PICK hedge \in Hedges :
            Proceed(c, Priced(c, hedge)) /\ UNCHANGED <<next_id, origin>>
      BY <1>3, <2>2 DEF RunCore
    <3>2. hedge \in HedgeType
      BY EngineAssumption
    <3>3. call[c].request \in RequestType /\ call[c].market \in MarketType
      BY <1>3, CallShapes DEF RunCore, EngineTypeOK
    <3>4. Priced(c, hedge) \in CallType
      BY <3>2, <3>3 DEF Priced, CallType, PricingType, EngineTypeOK
    <3>5. call' \in [Caller -> CallType]
      BY <3>1, <3>4, CallUpdate DEF Proceed, EngineTypeOK
    <3> QED BY <3>1, <3>5 DEF Proceed, EngineTypeOK
  <2> QED BY <2>1, <2>2
<1>4. ASSUME NEW c \in Caller, AdviserAnswers(c) PROVE EngineTypeOK'
  <2>1. call[c].market.evidence \in Seq(EvidenceId)
    BY <1>4, CallShapes DEF AdviserAnswers, EngineTypeOK, AdvisingType, MarketType
  <2>2. PICK a \in IF AdviserKind = "heuristic"
                   THEN HeuristicAnswers(call[c].market.evidence) ELSE Assessments :
          Decide(c, Decision(call[c], a, AdviserKind, FALSE),
                 Origin(call[c], AdviserKind, FALSE))
    BY <1>4 DEF AdviserAnswers
  <2>3. a \in AssessmentType
    BY <2>1, HeuristicAnswersType, EngineAssumption
  <2>4. call[c].step = "adviser" /\ AdviserKind \in {"heuristic", "openai"}
    BY <1>4, EngineAssumption DEF AdviserAnswers
  <2> QED BY <2>2, <2>3, <2>4, DecideKeepsType
<1>5. ASSUME NEW c \in Caller, AdviserFails(c) PROVE EngineTypeOK'
  <2>1. CASE Fail(c)
    BY <2>1, FailKeepsType
  <2>2. CASE ~Fail(c)
    <3>1. call[c].market.evidence \in Seq(EvidenceId)
      BY <1>5, CallShapes DEF AdviserFails, EngineTypeOK, AdvisingType, MarketType
    <3>2. PICK a \in HeuristicAnswers(call[c].market.evidence) :
            Decide(c, Decision(call[c], a, "heuristic", TRUE),
                   Origin(call[c], "heuristic", TRUE))
      BY <1>5, <2>2 DEF AdviserFails
    <3>3. a \in AssessmentType
      BY <3>1, HeuristicAnswersType
    <3>4. call[c].step = "adviser"
      BY <1>5 DEF AdviserFails
    <3> QED BY <3>2, <3>3, <3>4, DecideKeepsType
  <2> QED BY <2>1, <2>2
<1>6. ASSUME NEW c \in Caller, Store(c) PROVE EngineTypeOK'
  <2>1. CASE Fail(c)
    BY <2>1, FailKeepsType
  <2>2. CASE ~Fail(c)
    <3>1. /\ AppendRow(call[c].decision)
          /\ call' = [call EXCEPT ![c].step = "return"]
          /\ UNCHANGED <<clock, binary, next_id, released, origin>>
      BY <1>6, <2>2 DEF Store
    <3>2. /\ call[c].decision \in DecisionRecordType
          /\ call[c] = [step |-> call[c].step, decision |-> call[c].decision]
      BY <1>6, CallShapes DEF Store, EngineTypeOK
    <3>3. [step |-> "return", decision |-> call[c].decision] \in CallType
      BY <3>2 DEF CallType
    <3>4. [call[c] EXCEPT !.step = "return"]
             = [step |-> "return", decision |-> call[c].decision]
      BY <3>2
    <3>5. call' \in [Caller -> CallType]
      BY <3>1, <3>3, <3>4, CallUpdate DEF EngineTypeOK
    <3>6. Row(call[c].decision).payload_json = call[c].decision
      BY DEF Row
    <3> QED BY <3>1, <3>2, <3>5, <3>6 DEF AppendRow, EngineTypeOK
  <2> QED BY <2>1, <2>2
<1>7. ASSUME NEW c \in Caller, Return(c) PROVE EngineTypeOK'
  <2>1. call[c].decision \in DecisionRecordType
    BY <1>7, CallShapes DEF Return, EngineTypeOK
  <2>2. Idle \in CallType
    BY DEF CallType
  <2>3. call' \in [Caller -> CallType]
    BY <1>7, <2>2, CallUpdate DEF Return, Leave, EngineTypeOK
  <2> QED BY <1>7, <2>1, <2>3 DEF Return, EngineTypeOK
<1>8. ASSUME NEW threads \in SUBSET Caller, Crash(threads) PROVE EngineTypeOK'
  <2>1. call' \in [Caller -> CallType]
    BY <1>8 DEF Crash, EngineTypeOK, CallType
  <2> QED BY <1>8, <2>1 DEF Crash, EngineTypeOK
<1>9. CASE Tick
  BY <1>9 DEF Tick, EngineTypeOK
<1>10. CASE Rebuild
  BY <1>10 DEF Rebuild, EngineTypeOK
<1>11. CASE UNCHANGED engineVars
  BY <1>11 DEF engineVars, EngineTypeOK
<1> QED BY <1>1, <1>2, <1>3, <1>4, <1>5, <1>6, <1>7, <1>8, <1>9, <1>10, <1>11
        DEF EngineNext

(* The type invariant of the engine, for every provider, core and adviser. *)
THEOREM EngineTypeCorrect == EngineSpec => []EngineTypeOK
<1>1. EngineInit => EngineTypeOK
  BY DEF EngineInit, StoreInit, EngineTypeOK, CallType
<1> QED BY <1>1, TypeStep, PTL DEF EngineSpec
-----------------------------------------------------------------------------
(* The audit trail.  StoredBeforeReturned alone is not inductive: that a   *)
(* returned decision can be replayed rests on the row being there before   *)
(* the caller is answered, on rows never being replaced, and on            *)
(* identifiers being unique.  That decisions are reproducible rests on     *)
(* those still on their way to the store being so.                         *)
CallsAreReproducible ==
    \A c \in Caller : call[c].step \in {"append", "return"} => Reproducible(call[c].decision)

AnswersAreStored ==
    \A c \in Caller : call[c].step = "return" => Row(call[c].decision) \in rows

IdentifiersAreUnique ==
    \A r, s \in rows : r.decision_id = s.decision_id => r = s

ReleasedAreStored == \A d \in released : Row(d) \in rows

AuditInv ==
    /\ EngineTypeOK
    /\ CallsAreReproducible
    /\ AnswersAreStored
    /\ IdentifiersAreUnique
    /\ ReleasedAreStored
    /\ DecisionIsReproducible

(* Calls that disappear take nothing out of the audit trail.               *)
LEMMA CallsGoneKeepAudit ==
    ASSUME AuditInv, EngineTypeOK', UNCHANGED <<rows, released>>,
           \A b \in Caller : call'[b] = call[b] \/ call'[b] = Idle
    PROVE  AuditInv'
<1>1. Idle.step = "idle"
  BY DEF Idle
<1>2. CallsAreReproducible' /\ AnswersAreStored'
  BY <1>1 DEF AuditInv, CallsAreReproducible, AnswersAreStored
<1> QED BY <1>2
        DEF AuditInv, IdentifiersAreUnique, ReleasedAreStored, DecisionIsReproducible, Stored

(* A call that ends with an error disturbs nothing that was recorded.      *)
LEMMA FailKeepsAudit ==
    ASSUME AuditInv, NEW c \in Caller, Fail(c)
    PROVE  AuditInv'
<1>1. EngineTypeOK'
  BY FailKeepsType DEF AuditInv
<1>2. \A b \in Caller : call'[b] = call[b] \/ call'[b] = Idle
  BY DEF Fail, Leave, AuditInv, EngineTypeOK
<1> QED BY <1>1, <1>2, CallsGoneKeepAudit DEF Fail

(* A step that only moves a call along, before its decision exists, keeps it. *)
LEMMA ProceedKeepsAudit ==
    ASSUME AuditInv, EngineTypeOK', NEW c \in Caller, NEW state,
           state.step \notin {"append", "return"}, Proceed(c, state)
    PROVE  AuditInv'
<1>1. \A b \in Caller : call'[b] = call[b] \/ call'[b] = state
  BY DEF Proceed, AuditInv, EngineTypeOK
<1>2. UNCHANGED <<rows, released>>
  BY DEF Proceed
<1>3. CallsAreReproducible' /\ AnswersAreStored'
  BY <1>1, <1>2 DEF AuditInv, CallsAreReproducible, AnswersAreStored
<1> QED BY <1>2, <1>3
        DEF AuditInv, IdentifiersAreUnique, ReleasedAreStored, DecisionIsReproducible, Stored

(* A new decision has an identifier nobody had, and is judged at its date. *)
LEMMA DecideKeepsAudit ==
    ASSUME AuditInv, EngineTypeOK', NEW c \in Caller, call[c].step = "adviser",
           NEW a \in AssessmentType, NEW kind \in {"heuristic", "openai"},
           NEW erred \in BOOLEAN, NEW happened,
           Decide(c, Decision(call[c], a, kind, erred), happened)
    PROVE  AuditInv'
<1> DEFINE d == Decision(call[c], a, kind, erred)
<1>1. call[c] \in AdvisingType
  BY CallShapes DEF AuditInv, EngineTypeOK
<1>2. Reproducible(d)
  BY <1>1, DecisionRecordIsTyped DEF AuditInv, EngineTypeOK
<1> HIDE DEF d
<1>3. \A b \in Caller : call'[b] = call[b] \/ call'[b] = [step |-> "append", decision |-> d]
  BY DEF Decide, Proceed, AuditInv, EngineTypeOK, d
<1>4. UNCHANGED <<rows, released>>
  BY DEF Decide, Proceed
<1>5. CallsAreReproducible' /\ AnswersAreStored'
  BY <1>2, <1>3, <1>4 DEF AuditInv, CallsAreReproducible, AnswersAreStored
<1> QED BY <1>4, <1>5
        DEF AuditInv, IdentifiersAreUnique, ReleasedAreStored, DecisionIsReproducible, Stored

(* Storing a decision keeps the trail: its identifier was free.            *)
LEMMA StoreKeepsAudit ==
    ASSUME AuditInv, EngineTypeOK', NEW c \in Caller, Store(c)
    PROVE  AuditInv'
<1>1. CASE Fail(c)
  BY <1>1, FailKeepsAudit
<1>2. CASE ~Fail(c)
  <2> DEFINE d == call[c].decision
  <2>1. /\ AppendRow(d)
        /\ call' = [call EXCEPT ![c].step = "return"]
        /\ released' = released
    BY <1>2 DEF Store
  <2>2. call[c].step = "append"
    BY DEF Store
  <2>3. call[c] = [step |-> "append", decision |-> d]
    BY <2>2, CallShapes DEF AuditInv, EngineTypeOK
  <2>4. /\ \A b \in Caller : b # c => call'[b] = call[b]
        /\ call'[c].step = "return" /\ call'[c].decision = d
    BY <2>1, <2>3 DEF AuditInv, EngineTypeOK
  <2>5. rows' = rows \cup {Row(d)} /\ \A r \in rows : r.decision_id # d.decision_id
    BY <2>1 DEF AppendRow, PrimaryKeyFree
  <2>6. Reproducible(d)
    BY <2>2 DEF AuditInv, CallsAreReproducible
  <2>7. Row(d).decision_id = d.decision_id /\ Row(d).payload_json = d
    BY DEF Row
  <2> HIDE DEF d
  <2>8. CallsAreReproducible'
    BY <2>4, <2>6 DEF AuditInv, CallsAreReproducible
  <2>9. AnswersAreStored'
    BY <2>4, <2>5 DEF AuditInv, AnswersAreStored
  <2>10. IdentifiersAreUnique'
    BY <2>5, <2>7 DEF AuditInv, IdentifiersAreUnique
  <2>11. ReleasedAreStored'
    BY <2>1, <2>5 DEF AuditInv, ReleasedAreStored
  <2>12. DecisionIsReproducible'
    BY <2>5, <2>6, <2>7 DEF AuditInv, DecisionIsReproducible, Stored, Reproducible
  <2> QED BY <2>8, <2>9, <2>10, <2>11, <2>12 DEF AuditInv
<1> QED BY <1>1, <1>2

(* A decision is handed out only after its row was stored.                 *)
LEMMA ReturnKeepsAudit ==
    ASSUME AuditInv, EngineTypeOK', NEW c \in Caller, Return(c)
    PROVE  AuditInv'
<1>1. Row(call[c].decision) \in rows
  BY DEF Return, AuditInv, AnswersAreStored
<1>2. \A b \in Caller : call'[b] = call[b] \/ call'[b] = Idle
  BY DEF Return, Leave, AuditInv, EngineTypeOK
<1>3. Idle.step = "idle"
  BY DEF Idle
<1>4. rows' = rows /\ released' = released \cup {call[c].decision}
  BY DEF Return
<1>5. CallsAreReproducible' /\ AnswersAreStored'
  BY <1>2, <1>3, <1>4 DEF AuditInv, CallsAreReproducible, AnswersAreStored
<1>6. ReleasedAreStored'
  BY <1>1, <1>4 DEF AuditInv, ReleasedAreStored
<1> QED BY <1>4, <1>5, <1>6
        DEF AuditInv, IdentifiersAreUnique, DecisionIsReproducible, Stored

(* Every step keeps the audit invariant.                                   *)
LEMMA AuditStep == AuditInv /\ [EngineNext]_engineVars => AuditInv'
<1> SUFFICES ASSUME AuditInv, [EngineNext]_engineVars PROVE AuditInv'
  OBVIOUS
<1>0. EngineTypeOK'
  BY TypeStep DEF AuditInv
<1>1. ASSUME NEW c \in Caller, NEW symbol \in Symbol, Start(c, symbol) PROVE AuditInv'
  <2>1. Proceed(c, [step |-> "snapshot", request |-> [symbol |-> symbol, now |-> clock]])
    BY <1>1 DEF Start
  <2> QED BY <1>0, <2>1, ProceedKeepsAudit
<1>2. ASSUME NEW c \in Caller, Snapshot(c) PROVE AuditInv'
  <2>1. CASE Fail(c)
    BY <2>1, FailKeepsAudit
  <2>2. CASE ~Fail(c)
    <3>1. PICK market :
            Proceed(c, [step |-> "core", request |-> call[c].request, market |-> market])
      BY <1>2, <2>2 DEF Snapshot
    <3> QED BY <1>0, <3>1, ProceedKeepsAudit
  <2> QED BY <2>1, <2>2
<1>3. ASSUME NEW c \in Caller, RunCore(c) PROVE AuditInv'
  <2>1. CASE Fail(c)
    BY <2>1, FailKeepsAudit
  <2>2. CASE ~Fail(c)
    <3>1. PICK hedge \in Hedges : Proceed(c, Priced(c, hedge))
      BY <1>3, <2>2 DEF RunCore
    <3>2. Priced(c, hedge).step = "adviser"
      BY DEF Priced
    <3> QED BY <1>0, <3>1, <3>2, ProceedKeepsAudit
  <2> QED BY <2>1, <2>2
<1>4. ASSUME NEW c \in Caller, AdviserAnswers(c) PROVE AuditInv'
  <2>1. call[c].market.evidence \in Seq(EvidenceId)
    BY <1>4, CallShapes DEF AdviserAnswers, AuditInv, EngineTypeOK, AdvisingType, MarketType
  <2>2. PICK a \in IF AdviserKind = "heuristic"
                   THEN HeuristicAnswers(call[c].market.evidence) ELSE Assessments :
          Decide(c, Decision(call[c], a, AdviserKind, FALSE),
                 Origin(call[c], AdviserKind, FALSE))
    BY <1>4 DEF AdviserAnswers
  <2>3. a \in AssessmentType
    BY <2>1, HeuristicAnswersType, EngineAssumption
  <2>4. call[c].step = "adviser" /\ AdviserKind \in {"heuristic", "openai"}
    BY <1>4, EngineAssumption DEF AdviserAnswers
  <2> QED BY <1>0, <2>2, <2>3, <2>4, DecideKeepsAudit
<1>5. ASSUME NEW c \in Caller, AdviserFails(c) PROVE AuditInv'
  <2>1. CASE Fail(c)
    BY <2>1, FailKeepsAudit
  <2>2. CASE ~Fail(c)
    <3>1. call[c].market.evidence \in Seq(EvidenceId)
      BY <1>5, CallShapes DEF AdviserFails, AuditInv, EngineTypeOK, AdvisingType, MarketType
    <3>2. PICK a \in HeuristicAnswers(call[c].market.evidence) :
            Decide(c, Decision(call[c], a, "heuristic", TRUE),
                   Origin(call[c], "heuristic", TRUE))
      BY <1>5, <2>2 DEF AdviserFails
    <3>3. a \in AssessmentType
      BY <3>1, HeuristicAnswersType
    <3>4. call[c].step = "adviser"
      BY <1>5 DEF AdviserFails
    <3> QED BY <1>0, <3>2, <3>3, <3>4, DecideKeepsAudit
  <2> QED BY <2>1, <2>2
<1>6. ASSUME NEW c \in Caller, Store(c) PROVE AuditInv'
  BY <1>0, <1>6, StoreKeepsAudit
<1>7. ASSUME NEW c \in Caller, Return(c) PROVE AuditInv'
  BY <1>0, <1>7, ReturnKeepsAudit
<1>8. ASSUME NEW threads \in SUBSET Caller, Crash(threads) PROVE AuditInv'
  <2>1. \A b \in Caller : call'[b] = call[b] \/ call'[b] = Idle
    BY <1>8 DEF Crash
  <2> QED BY <1>0, <1>8, <2>1, CallsGoneKeepAudit DEF Crash
<1>9. ASSUME UNCHANGED <<call, rows, released>> PROVE AuditInv'
  BY <1>0, <1>9 DEF AuditInv, CallsAreReproducible, AnswersAreStored,
     IdentifiersAreUnique, ReleasedAreStored, DecisionIsReproducible, Stored
<1> QED BY <1>1, <1>2, <1>3, <1>4, <1>5, <1>6, <1>7, <1>8, <1>9
        DEF EngineNext, Tick, Rebuild, engineVars

(* The audit invariant holds of every behaviour of the engine.             *)
LEMMA AuditAlways == EngineSpec => []AuditInv
<1>1. EngineInit => AuditInv
  BY DEF EngineInit, StoreInit, AuditInv, EngineTypeOK, CallType, Idle, CallsAreReproducible,
     AnswersAreStored, IdentifiersAreUnique, ReleasedAreStored, DecisionIsReproducible, Stored
<1> QED BY <1>1, AuditStep, PTL DEF EngineSpec

(* A decision that has its row replays, and its hash is found valid.       *)
LEMMA RowReplays ==
    ASSUME AuditInv, NEW d \in DecisionRecordType, Row(d) \in rows
    PROVE  get(d.decision_id) = [payload |-> d, stored_content_hash_valid |-> TRUE]
<1> DEFINE row == CHOOSE r \in rows : r.decision_id = d.decision_id
<1>1. Row(d).decision_id = d.decision_id
  BY DEF Row
<1>2. row \in rows /\ row.decision_id = d.decision_id
  BY <1>1
<1>3. row = Row(d)
  BY <1>1, <1>2 DEF AuditInv, IdentifiersAreUnique
<1>4. ~PrimaryKeyFree(d.decision_id)
  BY <1>1 DEF PrimaryKeyFree
<1>5. d # Garbled
  BY TextAssumption
<1>6. Row(d).payload_json = d /\ Row(d).content_hash = hash_payload(d)
  BY DEF Row
<1>7. get(d.decision_id)
        = [payload |-> Row(d).payload_json,
           stored_content_hash_valid |->
               hash_payload(Row(d).payload_json) = Row(d).content_hash]
  BY <1>3, <1>4, <1>5, <1>6 DEF get
<1> QED BY <1>6, <1>7

(* Whoever was given a decision can replay it and finds it valid.          *)
THEOREM ReturnedIsReplayable == EngineSpec => []StoredBeforeReturned
<1>1. AuditInv => StoredBeforeReturned
  BY RowReplays DEF AuditInv, EngineTypeOK, ReleasedAreStored, StoredBeforeReturned
<1> QED BY <1>1, AuditAlways, PTL

(* A stored decision follows from its own inputs and date.                 *)
THEOREM ReplayIsDeterministic == EngineSpec => []DecisionIsReproducible
  BY AuditAlways, PTL DEF AuditInv

(* The engine implements the abstract audit log: every step records one    *)
(* new decision, releases one that is recorded, or is invisible to it.     *)
THEOREM EngineImplementsLog == EngineSpec => ImplementsDecisionLog
<1>1. EngineInit => Log!LogInit
  BY DEF EngineInit, StoreInit, Log!LogInit, Stored
<1>2. AuditInv /\ [EngineNext]_engineVars => [Log!LogNext]_<<Stored, released>>
  <2> SUFFICES ASSUME AuditInv, [EngineNext]_engineVars, ~UNCHANGED <<Stored, released>>
               PROVE  Log!LogNext
    BY DEF Log!LogNext
  <2>1. ASSUME NEW c \in Caller, Store(c), ~Fail(c) PROVE Log!LogNext
    <3> DEFINE d == call[c].decision
    <3>1. AppendRow(d) /\ released' = released
      BY <2>1 DEF Store
    <3>2. rows' = rows \cup {Row(d)} /\ \A r \in rows : r.decision_id # d.decision_id
      BY <3>1 DEF AppendRow, PrimaryKeyFree
    <3>3. Row(d).payload_json = d
      BY DEF Row
    <3>4. \A r \in rows : r.payload_json.decision_id = r.decision_id
      BY DEF AuditInv, EngineTypeOK, Row
    <3> HIDE DEF d
    <3>5. Stored' = Stored \cup {d}
      BY <3>2, <3>3 DEF Stored
    <3>6. \A e \in Stored : e.decision_id # d.decision_id
      BY <3>2, <3>4 DEF Stored
    <3>7. d \in Stored' \ Stored
      BY <3>5, <3>6
    <3> QED BY <3>1, <3>5, <3>6, <3>7 DEF Log!LogNext, Log!Record
  <2>2. ASSUME NEW c \in Caller, Return(c) PROVE Log!LogNext
    <3> DEFINE d == call[c].decision
    <3>1. Row(d) \in rows /\ Row(d).payload_json = d
      BY <2>2 DEF Return, AuditInv, AnswersAreStored, Row
    <3>2. rows' = rows /\ released' = released \cup {d}
      BY <2>2 DEF Return
    <3> HIDE DEF d
    <3>3. d \in Stored /\ Stored' = Stored
      BY <3>1, <3>2 DEF Stored
    <3>4. d \in released' \ released
      BY <3>2, <3>3
    <3> QED BY <3>2, <3>3, <3>4 DEF Log!LogNext, Log!Release
  <2>3. ASSUME UNCHANGED <<rows, released>> PROVE FALSE
    BY <2>3 DEF Stored
  <2> QED
    BY <2>1, <2>2, <2>3 DEF EngineNext, engineVars, Start, Snapshot, RunCore, AdviserAnswers,
       AdviserFails, Decide, Proceed, Fail, Store, Crash, Tick, Rebuild
<1> QED BY <1>1, <1>2, AuditAlways, PTL
        DEF EngineSpec, ImplementsDecisionLog, Log!LogSpec, Log!logVars
-----------------------------------------------------------------------------
(* What an audit record says of the adviser.  FallbackIsAudited holds of   *)
(* stored decisions because it holds of every decision from the moment it  *)
(* is made, and because no later decision can have the identifier of an    *)
(* earlier one.                                                            *)
Honest(d) ==
    \A o \in origin : o.decision_id = d.decision_id =>
        /\ d.fallback_used = o.adviser_failed
        /\ d.fallback_used => d.advisor_kind = "heuristic"

InHand(c) == call[c].step \in {"append", "return"}

IdentifiersAreSpent ==
    /\ \A o \in origin : o.decision_id < next_id
    /\ \A r \in rows : r.payload_json.decision_id < next_id
    /\ \A c \in Caller : InHand(c) => call[c].decision.decision_id < next_id

DecisionsAreHonest ==
    /\ \A r \in rows : Honest(r.payload_json)
    /\ \A c \in Caller : InHand(c) => Honest(call[c].decision)

FallbackInv ==
    /\ EngineTypeOK
    /\ IdentifiersAreSpent
    /\ DecisionsAreHonest

(* A step that makes no decision keeps the records honest: each call is    *)
(* left alone or has no new decision in hand, and new rows hold what a call *)
(* had in hand.                                                            *)
LEMMA NoDecisionKeepsFallback ==
    ASSUME FallbackInv, EngineTypeOK', UNCHANGED <<next_id, origin>>,
           \A b \in Caller : InHand(b)' => InHand(b) /\ call'[b].decision = call[b].decision,
           \A r \in rows' \ rows : \E b \in Caller : InHand(b) /\ r.payload_json = call[b].decision
    PROVE  FallbackInv'
<1>1. IdentifiersAreSpent'
  BY DEF FallbackInv, IdentifiersAreSpent
<1>2. DecisionsAreHonest'
  BY DEF FallbackInv, DecisionsAreHonest, Honest
<1> QED BY <1>1, <1>2 DEF FallbackInv

(* Calls that end or move on without a decision.                           *)
LEMMA MovingKeepsFallback ==
    ASSUME FallbackInv, EngineTypeOK', UNCHANGED <<next_id, origin, rows>>,
           \A b \in Caller : call'[b] = call[b] \/ call'[b].step \notin {"append", "return"}
    PROVE  FallbackInv'
<1>1. \A b \in Caller : InHand(b)' => InHand(b) /\ call'[b].decision = call[b].decision
  BY DEF InHand
<1> QED BY <1>1, NoDecisionKeepsFallback

LEMMA FailKeepsFallback ==
    ASSUME FallbackInv, NEW c \in Caller, Fail(c)
    PROVE  FallbackInv'
<1>1. EngineTypeOK'
  BY FailKeepsType DEF FallbackInv
<1>2. \A b \in Caller : call'[b] = call[b] \/ call'[b] = Idle
  BY DEF Fail, Leave, FallbackInv, EngineTypeOK
<1>3. Idle.step \notin {"append", "return"}
  BY DEF Idle
<1> QED BY <1>1, <1>2, <1>3, MovingKeepsFallback DEF Fail

LEMMA ProceedKeepsFallback ==
    ASSUME FallbackInv, EngineTypeOK', NEW c \in Caller, NEW state,
           state.step \notin {"append", "return"}, Proceed(c, state),
           UNCHANGED <<next_id, origin>>
    PROVE  FallbackInv'
<1>1. \A b \in Caller : call'[b] = call[b] \/ call'[b] = state
  BY DEF Proceed, FallbackInv, EngineTypeOK
<1> QED BY <1>1, MovingKeepsFallback DEF Proceed

(* A new decision says of its adviser what happened, under an identifier   *)
(* that no record and no other decision has.                               *)
LEMMA DecideKeepsFallback ==
    ASSUME FallbackInv, EngineTypeOK', NEW c \in Caller, call[c].step = "adviser",
           NEW a, NEW kind, NEW erred \in BOOLEAN, erred => kind = "heuristic",
           Decide(c, Decision(call[c], a, kind, erred), Origin(call[c], kind, erred))
    PROVE  FallbackInv'
<1> DEFINE d == Decision(call[c], a, kind, erred)
           o == Origin(call[c], kind, erred)
<1>1. /\ d.decision_id = next_id /\ o.decision_id = next_id
      /\ d.fallback_used = erred /\ o.adviser_failed = erred
      /\ d.advisor_kind = kind
  BY DEF Decision, Origin
<1>2. /\ \A b \in Caller \ {c} : call'[b] = call[b]
      /\ call'[c] = [step |-> "append", decision |-> d]
      /\ next_id' = next_id + 1 /\ origin' = origin \cup {o} /\ rows' = rows
  BY DEF Decide, Proceed, FallbackInv, EngineTypeOK
<1> HIDE DEF d, o
<1>3. next_id \in Nat
  BY DEF FallbackInv, EngineTypeOK
<1>4. \A e \in origin : e.decision_id \in Nat
  BY DEF FallbackInv, EngineTypeOK, OriginType
<1>5. \A r \in rows : r.payload_json.decision_id \in Nat
  BY DEF FallbackInv, EngineTypeOK, DecisionRecordType
<1>6. \A b \in Caller : InHand(b) => call[b].decision.decision_id \in Nat
  BY CallShapes DEF FallbackInv, EngineTypeOK, DecisionRecordType, InHand
<1>7. \A b \in Caller \ {c} : InHand(b)' <=> InHand(b)
  BY <1>2 DEF InHand
<1>8. call'[c].decision = d
  BY <1>2
<1>9. IdentifiersAreSpent'
  <2>1. \A e \in origin' : e.decision_id < next_id'
    BY <1>1, <1>2, <1>3, <1>4 DEF FallbackInv, IdentifiersAreSpent
  <2>2. \A r \in rows' : r.payload_json.decision_id < next_id'
    BY <1>2, <1>3, <1>5 DEF FallbackInv, IdentifiersAreSpent
  <2>3. \A b \in Caller : InHand(b)' => call'[b].decision.decision_id < next_id'
    BY <1>1, <1>2, <1>3, <1>6, <1>7, <1>8 DEF FallbackInv, IdentifiersAreSpent
  <2> QED BY <2>1, <2>2, <2>3 DEF IdentifiersAreSpent
<1>10. DecisionsAreHonest'
  <2>1. (\A r \in rows : Honest(r.payload_json))'
    BY <1>1, <1>2, <1>3, <1>5 DEF FallbackInv, IdentifiersAreSpent, DecisionsAreHonest, Honest
  <2>2. (Honest(call[c].decision))'
    BY <1>1, <1>2, <1>3, <1>4, <1>8 DEF FallbackInv, IdentifiersAreSpent, Honest
  <2>3. ASSUME NEW b \in Caller \ {c}, InHand(b)' PROVE (Honest(call[b].decision))'
    BY <1>1, <1>2, <1>3, <1>6, <1>7, <2>3
       DEF FallbackInv, IdentifiersAreSpent, DecisionsAreHonest, Honest
  <2> QED BY <2>1, <2>2, <2>3 DEF DecisionsAreHonest
<1> QED BY <1>9, <1>10 DEF FallbackInv

(* Storing moves a decision from a call's hands into a row.                *)
LEMMA StoreKeepsFallback ==
    ASSUME FallbackInv, EngineTypeOK', NEW c \in Caller, Store(c)
    PROVE  FallbackInv'
<1>1. CASE Fail(c)
  BY <1>1, FailKeepsFallback
<1>2. CASE ~Fail(c)
  <2> DEFINE d == call[c].decision
  <2>1. /\ AppendRow(d) /\ call' = [call EXCEPT ![c].step = "return"]
        /\ UNCHANGED <<next_id, origin>>
    BY <1>2 DEF Store
  <2>2. call[c].step = "append"
    BY DEF Store
  <2>3. call[c] = [step |-> "append", decision |-> d]
    BY <2>2, CallShapes DEF FallbackInv, EngineTypeOK
  <2>4. /\ \A b \in Caller : b # c => call'[b] = call[b]
        /\ call'[c].decision = d
    BY <2>1, <2>3 DEF FallbackInv, EngineTypeOK
  <2>5. rows' = rows \cup {Row(d)} /\ Row(d).payload_json = d
    BY <2>1 DEF AppendRow, Row
  <2>6. \A b \in Caller : InHand(b)' => InHand(b) /\ call'[b].decision = call[b].decision
    BY <2>2, <2>4 DEF InHand
  <2>7. \A r \in rows' \ rows : InHand(c) /\ r.payload_json = call[c].decision
    BY <2>2, <2>5 DEF InHand
  <2> HIDE DEF d
  <2> QED BY <2>1, <2>6, <2>7, NoDecisionKeepsFallback
<1> QED BY <1>1, <1>2

(* Every step keeps the fallback's record honest.                          *)
LEMMA FallbackStep == FallbackInv /\ [EngineNext]_engineVars => FallbackInv'
<1> SUFFICES ASSUME FallbackInv, [EngineNext]_engineVars PROVE FallbackInv'
  OBVIOUS
<1>0. EngineTypeOK'
  BY TypeStep DEF FallbackInv
<1>1. ASSUME NEW c \in Caller, NEW symbol \in Symbol, Start(c, symbol) PROVE FallbackInv'
  <2>1. /\ Proceed(c, [step |-> "snapshot", request |-> [symbol |-> symbol, now |-> clock]])
        /\ UNCHANGED <<next_id, origin>>
    BY <1>1 DEF Start
  <2> QED BY <1>0, <2>1, ProceedKeepsFallback
<1>2. ASSUME NEW c \in Caller, Snapshot(c) PROVE FallbackInv'
  <2>1. CASE Fail(c)
    BY <2>1, FailKeepsFallback
  <2>2. CASE ~Fail(c)
    <3>1. PICK market :
            /\ Proceed(c, [step |-> "core", request |-> call[c].request, market |-> market])
            /\ UNCHANGED <<next_id, origin>>
      BY <1>2, <2>2 DEF Snapshot
    <3> QED BY <1>0, <3>1, ProceedKeepsFallback
  <2> QED BY <2>1, <2>2
<1>3. ASSUME NEW c \in Caller, RunCore(c) PROVE FallbackInv'
  <2>1. CASE Fail(c)
    BY <2>1, FailKeepsFallback
  <2>2. CASE ~Fail(c)
    <3>1. PICK hedge \in Hedges : Proceed(c, Priced(c, hedge)) /\ UNCHANGED <<next_id, origin>>
      BY <1>3, <2>2 DEF RunCore
    <3>2. Priced(c, hedge).step = "adviser"
      BY DEF Priced
    <3> QED BY <1>0, <3>1, <3>2, ProceedKeepsFallback
  <2> QED BY <2>1, <2>2
<1>4. ASSUME NEW c \in Caller, AdviserAnswers(c) PROVE FallbackInv'
  <2>1. PICK a : Decide(c, Decision(call[c], a, AdviserKind, FALSE),
                        Origin(call[c], AdviserKind, FALSE))
    BY <1>4 DEF AdviserAnswers
  <2> QED BY <1>0, <1>4, <2>1, DecideKeepsFallback DEF AdviserAnswers
<1>5. ASSUME NEW c \in Caller, AdviserFails(c) PROVE FallbackInv'
  <2>1. CASE Fail(c)
    BY <2>1, FailKeepsFallback
  <2>2. CASE ~Fail(c)
    <3>1. PICK a : Decide(c, Decision(call[c], a, "heuristic", TRUE),
                          Origin(call[c], "heuristic", TRUE))
      BY <1>5, <2>2 DEF AdviserFails
    <3> QED BY <1>0, <1>5, <3>1, DecideKeepsFallback DEF AdviserFails
  <2> QED BY <2>1, <2>2
<1>6. ASSUME NEW c \in Caller, Store(c) PROVE FallbackInv'
  BY <1>0, <1>6, StoreKeepsFallback
<1>7. ASSUME NEW c \in Caller, Return(c) PROVE FallbackInv'
  <2>1. \A b \in Caller : call'[b] = call[b] \/ call'[b] = Idle
    BY <1>7 DEF Return, Leave, FallbackInv, EngineTypeOK
  <2> QED BY <1>0, <1>7, <2>1, MovingKeepsFallback DEF Return, Idle
<1>8. ASSUME NEW threads \in SUBSET Caller, Crash(threads) PROVE FallbackInv'
  <2>1. \A b \in Caller : call'[b] = call[b] \/ call'[b] = Idle
    BY <1>8 DEF Crash
  <2> QED BY <1>0, <1>8, <2>1, MovingKeepsFallback DEF Crash, Idle
<1>9. ASSUME UNCHANGED <<call, rows, next_id, origin>> PROVE FallbackInv'
  BY <1>0, <1>9, MovingKeepsFallback
<1> QED BY <1>1, <1>2, <1>3, <1>4, <1>5, <1>6, <1>7, <1>8, <1>9
        DEF EngineNext, Tick, Rebuild, engineVars

(* HLR-100: a stored decision says that the fallback decided if and only   *)
(* if the model failed, for any number of callers, failures and crashes.   *)
THEOREM FallbackIsOnRecord == EngineSpec => []FallbackIsAudited
<1>1. EngineInit => FallbackInv
  BY DEF EngineInit, StoreInit, FallbackInv, EngineTypeOK, CallType, Idle, InHand,
     IdentifiersAreSpent, DecisionsAreHonest
<1>2. FallbackInv => FallbackIsAudited
  BY DEF FallbackInv, DecisionsAreHonest, Honest, FallbackIsAudited, Stored
<1> QED BY <1>1, <1>2, FallbackStep, PTL DEF EngineSpec

-----------------------------------------------------------------------------
(* From here on, the dashboard.                                            *)

(* Requests that clients may have made.                                    *)
Asked == {read_request(raw) : raw \in Requests}

(* A request that is routed to the engine names a symbol.                  *)
LEMMA WantedIsSymbol ==
    ASSUME NEW request \in Asked, Refusal(request) = 0, request.path = Recommendation
    PROVE  Wanted(request) \in Symbol
<1>1. Recommendation \notin {Root, Health}
  BY DEF Recommendation, Root, Health
<1>2. request # Malformed /\ valid_symbol(SymbolText(request))
  BY <1>1 DEF Refusal
<1> QED BY <1>2, UpperAssumption DEF Asked, Wanted

-----------------------------------------------------------------------------
(* What a connection thread holds at each point of its request.            *)
WebType ==
    {Free}
    \cup [at : {"routing", "computing"}, request : Asked, arrived : Nat]
    \cup [at : {"caching"}, request : Asked, arrived : Nat, decision : DecisionRecordType]

LEMMA WebShapes ==
    ASSUME NEW w \in WebType
    PROVE  /\ w.at \in {"routing", "computing"} =>
                 /\ w.request \in Asked /\ w.arrived \in Nat
                 /\ w = [at |-> w.at, request |-> w.request, arrived |-> w.arrived]
           /\ w.at = "caching" =>
                 /\ w.request \in Asked /\ w.arrived \in Nat
                 /\ w.decision \in DecisionRecordType
  BY DEF WebType, Free

WebTypeOK == EngineTypeOK /\ web \in [Caller -> WebType]

(* Only requests for a recommendation reach the engine.                    *)
Engaged(w) == w.at \in {"computing", "caching"}
Recommended(w) == Refusal(w.request) = 0 /\ w.request.path = Recommendation

EngagedIsRecommended == \A c \in Caller : Engaged(web[c]) => Recommended(web[c])

RoutingInv == WebTypeOK /\ EngagedIsRecommended

(* Whatever the dashboard does is, of the engine, one of its steps or none. *)
LEMMA EngineStepOrNone ==
    ASSUME RoutingInv, [DashboardNext]_dashboardVars
    PROVE  [EngineNext]_engineVars
<1>1. ASSUME NEW c \in Caller, Compute(c) PROVE EngineNext
  <2>1. web[c].request \in Asked
    BY <1>1, WebShapes DEF Compute, Recommends, Routed, RoutingInv, WebTypeOK
  <2>2. Wanted(web[c].request) \in Symbol
    BY <1>1, <2>1, WantedIsSymbol DEF Compute, Recommends, Routed
  <2>3. Start(c, Wanted(web[c].request))
    BY <1>1 DEF Compute
  <2> QED BY <2>2, <2>3 DEF EngineNext
<1>2. ASSUME NEW c \in Caller, EngineWorks(c) PROVE EngineNext
  BY <1>2 DEF EngineWorks, EngineNext
<1>3. ASSUME NEW c \in Caller, EngineReturns(c) PROVE EngineNext
  BY <1>3 DEF EngineReturns, EngineNext
<1>4. CASE ServerCrash
  BY <1>4 DEF ServerCrash, EngineNext
<1>5. CASE Elsewhere
  BY <1>5 DEF Elsewhere, EngineNext
<1>6. ASSUME NEW c \in Caller,
             \/ \E raw \in Requests : Arrive(c, raw)
             \/ AnswerAtOnce(c) \/ ShowHistory(c) \/ ShowReplay(c)
             \/ ServeCached(c) \/ CacheAndServe(c)
      PROVE  UNCHANGED engineVars
  BY <1>6 DEF Arrive, AnswerAtOnce, ShowHistory, ShowReplay, ServeCached, CacheAndServe
<1> QED BY <1>1, <1>2, <1>3, <1>4, <1>5, <1>6 DEF DashboardNext, dashboardVars

(* One thread moves, all others stay where they are.                       *)
LEMMA WebUpdate ==
    ASSUME NEW c \in Caller, NEW w \in WebType,
           web \in [Caller -> WebType], web' = [web EXCEPT ![c] = w]
    PROVE  /\ web' \in [Caller -> WebType]
           /\ web'[c] = w /\ \A b \in Caller \ {c} : web'[b] = web[b]
  OBVIOUS

(* A thread that is done.                                                  *)
LEMMA ToFree ==
    ASSUME NEW c \in Caller, RoutingInv, web' = [web EXCEPT ![c] = Free]
    PROVE  web' \in [Caller -> WebType] /\ EngagedIsRecommended'
<1>1. Free \in WebType /\ Free.at = "free"
  BY DEF WebType, Free
<1>2. web' \in [Caller -> WebType] /\ web'[c] = Free
      /\ \A b \in Caller \ {c} : web'[b] = web[b]
  BY <1>1, WebUpdate DEF RoutingInv, WebTypeOK
<1> QED BY <1>1, <1>2 DEF RoutingInv, EngagedIsRecommended, Engaged

(* Connection threads keep their types, and only recommendations engage    *)
(* the engine.                                                             *)
LEMMA RoutingStep == RoutingInv /\ [DashboardNext]_dashboardVars => RoutingInv'
<1> SUFFICES ASSUME RoutingInv, [DashboardNext]_dashboardVars PROVE RoutingInv'
  OBVIOUS
<1>0. EngineTypeOK'
  BY EngineStepOrNone, TypeStep DEF RoutingInv, WebTypeOK
<1> SUFFICES web' \in [Caller -> WebType] /\ EngagedIsRecommended'
  BY <1>0 DEF RoutingInv, WebTypeOK
<1>1. ASSUME NEW c \in Caller, NEW raw \in Requests, Arrive(c, raw)
      PROVE  web' \in [Caller -> WebType] /\ EngagedIsRecommended'
  <2> DEFINE w == [at |-> "routing", request |-> read_request(raw), arrived |-> clock]
  <2>1. w \in WebType /\ w.at = "routing"
    BY DEF WebType, Asked, RoutingInv, WebTypeOK, EngineTypeOK
  <2>2. web' = [web EXCEPT ![c] = w]
    BY <1>1 DEF Arrive
  <2> HIDE DEF w
  <2>3. web' \in [Caller -> WebType] /\ web'[c] = w
        /\ \A b \in Caller \ {c} : web'[b] = web[b]
    BY <2>1, <2>2, WebUpdate DEF RoutingInv, WebTypeOK
  <2> QED BY <2>1, <2>3 DEF RoutingInv, EngagedIsRecommended, Engaged
<1>2. ASSUME NEW c \in Caller,
             AnswerAtOnce(c) \/ ShowHistory(c) \/ ShowReplay(c) \/ ServeCached(c)
                \/ CacheAndServe(c)
      PROVE  web' \in [Caller -> WebType] /\ EngagedIsRecommended'
  <2>1. web' = [web EXCEPT ![c] = Free]
    BY <1>2 DEF AnswerAtOnce, ShowHistory, ShowReplay, ServeCached, CacheAndServe, Respond, Show
  <2> QED BY <2>1, ToFree
<1>3. ASSUME NEW c \in Caller, Compute(c)
      PROVE  web' \in [Caller -> WebType] /\ EngagedIsRecommended'
  <2> DEFINE w == [at |-> "computing", request |-> web[c].request, arrived |-> web[c].arrived]
  <2>1. /\ web[c].request \in Asked /\ web[c].arrived \in Nat
        /\ web[c] = [at |-> "routing", request |-> web[c].request, arrived |-> web[c].arrived]
    BY <1>3, WebShapes DEF Compute, Recommends, Routed, RoutingInv, WebTypeOK
  <2>2. Recommended(web[c])
    BY <1>3 DEF Compute, Recommends, Routed, Recommended
  <2>3. w \in WebType
    BY <2>1 DEF WebType
  <2>4. web' = [web EXCEPT ![c] = w]
    <3>1. [web[c] EXCEPT !.at = "computing"] = w
      BY <2>1
    <3> HIDE DEF w
    <3> QED BY <1>3, <3>1 DEF Compute
  <2>5. Recommended(w)
    BY <2>2 DEF Recommended
  <2> HIDE DEF w
  <2>6. web' \in [Caller -> WebType] /\ web'[c] = w
        /\ \A b \in Caller \ {c} : web'[b] = web[b]
    BY <2>3, <2>4, WebUpdate DEF RoutingInv, WebTypeOK
  <2> QED BY <2>5, <2>6 DEF RoutingInv, EngagedIsRecommended
<1>4. ASSUME NEW c \in Caller, EngineWorks(c)
      PROVE  web' \in [Caller -> WebType] /\ EngagedIsRecommended'
  <2>1. CASE call'[c] = Idle
    BY <1>4, <2>1, ToFree DEF EngineWorks, Respond
  <2>2. CASE call'[c] # Idle
    BY <1>4, <2>2 DEF EngineWorks, RoutingInv, WebTypeOK, EngagedIsRecommended
  <2> QED BY <2>1, <2>2
<1>5. ASSUME NEW c \in Caller, EngineReturns(c)
      PROVE  web' \in [Caller -> WebType] /\ EngagedIsRecommended'
  <2> DEFINE w == [at |-> "caching", request |-> web[c].request, arrived |-> web[c].arrived,
                   decision |-> call[c].decision]
  <2>1. web[c].request \in Asked /\ web[c].arrived \in Nat
    BY <1>5, WebShapes DEF EngineReturns, RoutingInv, WebTypeOK
  <2>2. call[c].decision \in DecisionRecordType
    BY <1>5, CallShapes DEF EngineReturns, Return, RoutingInv, WebTypeOK, EngineTypeOK
  <2>3. w \in WebType
    BY <2>1, <2>2 DEF WebType
  <2>4. Recommended(web[c])
    BY <1>5 DEF EngineReturns, RoutingInv, EngagedIsRecommended, Engaged
  <2>5. Recommended(w)
    BY <2>4 DEF Recommended
  <2>6. web' = [web EXCEPT ![c] = w]
    BY <1>5 DEF EngineReturns
  <2> HIDE DEF w
  <2>7. web' \in [Caller -> WebType] /\ web'[c] = w
        /\ \A b \in Caller \ {c} : web'[b] = web[b]
    BY <2>3, <2>6, WebUpdate DEF RoutingInv, WebTypeOK
  <2> QED BY <2>5, <2>7 DEF RoutingInv, EngagedIsRecommended
<1>6. CASE ServerCrash
  BY <1>6 DEF ServerCrash, WebType, EngagedIsRecommended, Engaged, Free
<1>7. CASE UNCHANGED web
  BY <1>7 DEF RoutingInv, WebTypeOK, EngagedIsRecommended
<1> QED BY <1>1, <1>2, <1>3, <1>4, <1>5, <1>6, <1>7
        DEF DashboardNext, dashboardVars, Elsewhere

LEMMA RoutingAlways == DashboardSpec => []RoutingInv
<1>1. DashboardInit => RoutingInv
  BY DEF DashboardInit, EngineInit, StoreInit, RoutingInv, WebTypeOK, EngineTypeOK, CallType,
     WebType, EngagedIsRecommended, Engaged, Free
<1> QED BY <1>1, RoutingStep, PTL DEF DashboardSpec

(* The dashboard is a caller of the engine like any other: everything the  *)
(* engine promises holds of the one behind the dashboard.                  *)
THEOREM DashboardRunsEngine == DashboardSpec => EngineSpec
<1>1. DashboardInit => EngineInit
  BY DEF DashboardInit
<1> QED BY <1>1, EngineStepOrNone, RoutingAlways, PTL DEF DashboardSpec, EngineSpec
-----------------------------------------------------------------------------
(* The table of decisions, as far as those who read it depend on it.       *)

(* A limit that is asked for is an integer, and is brought into range.     *)
LEMMA LimitIsPositive ==
    ASSUME NEW text
    PROVE  ClampedLimit(parse_positive_i64(text, 20)) \in Nat \ {0}
<1>1. parse_positive_i64(text, 20) \in Int
  BY NumeralAssumption DEF parse_positive_i64
<1> QED BY <1>1, RecentAssumption DEF ClampedLimit

(* A history is made of payloads of rows that were asked for.              *)
LEMMA RecentShowsRows ==
    ASSUME IsFiniteSet(rows), NEW limit, ClampedLimit(limit) \in Nat \ {0}, NEW symbols,
           NEW found \in recent(limit, symbols), found # Garbled
    PROVE  \A i \in DOMAIN found.history :
              \E r \in rows : r.symbol \in symbols /\ found.history[i] = r.payload_json
<1> DEFINE wanted == {r \in rows : r.symbol \in symbols}
           n == Cardinality(wanted)
           most == ClampedLimit(limit)
<1>1. PICK s \in SelectRecent(limit, symbols) :
         found = [history |-> [i \in DOMAIN s |-> s[i].payload_json]]
  BY DEF recent
<1>2. IsFiniteSet(wanted) /\ n \in Nat
  BY FS_Subset, FS_CardinalityType
<1>3. PICK order \in SetToSeqs(wanted) :
         s = SubSeq(order, 1, IF Len(order) < most THEN Len(order) ELSE most)
  BY <1>1 DEF SelectRecent, NewestFirst
<1>4. order \in [1 .. n -> wanted]
  BY <1>3 DEF SetToSeqs
<1> HIDE DEF wanted, n, most
<1>5. order \in Seq(wanted) /\ Len(order) = n
  BY <1>2, <1>4, SeqDef, LenProperties
<1>6. most \in Nat \ {0}
  BY DEF most
<1> DEFINE m == IF Len(order) < most THEN Len(order) ELSE most
<1>7. m \in Nat /\ m <= n
  BY <1>2, <1>5, <1>6
<1>8. \A i \in 1 .. m : order[i] \in wanted
  BY <1>2, <1>4, <1>7
<1> HIDE DEF m
<1>9. SubSeq(order, 1, m) \in Seq(wanted)
  BY <1>7, <1>8, SubSeqProperties
<1>10. s \in Seq(wanted)
  BY <1>3, <1>9 DEF m
<1>11. \A i \in DOMAIN s : s[i] \in wanted
  BY <1>10, LenProperties, ElementOfSeq
<1> QED BY <1>1, <1>11 DEF wanted

(* Rows are never taken out, and time does not run back.                   *)
LEMMA RowsStay ==
    ASSUME EngineTypeOK, [EngineNext]_engineVars
    PROVE  /\ rows \subseteq rows'
           /\ clock' \in Nat /\ clock <= clock'
           /\ IsFiniteSet(rows) => IsFiniteSet(rows')
<1>1. rows' = rows \/ \E d : rows' = rows \cup {Row(d)}
  BY DEF EngineNext, engineVars, Start, Snapshot, RunCore, AdviserAnswers, AdviserFails, Decide,
     Proceed, Fail, Store, AppendRow, Return, Crash, Tick, Rebuild
<1>2. clock' = clock \/ clock' = clock + 1
  BY DEF EngineNext, engineVars, Start, Snapshot, RunCore, AdviserAnswers, AdviserFails, Decide,
     Proceed, Fail, Store, Return, Crash, Tick, Rebuild
<1> QED BY <1>1, <1>2, FS_AddElement DEF EngineTypeOK

LEMMA RowsAreFinite == EngineSpec => []IsFiniteSet(rows)
<1>1. EngineInit => IsFiniteSet(rows)
  BY FS_EmptySet DEF EngineInit, StoreInit
<1>2. EngineTypeOK /\ IsFiniteSet(rows) /\ [EngineNext]_engineVars => IsFiniteSet(rows)'
  BY RowsStay
<1> QED BY <1>1, <1>2, EngineTypeCorrect, PTL DEF EngineSpec

(* What a call works on: the symbol asked for and the date it was begun.   *)
Question(me) ==
    IF me.step \in {"append", "return"}
    THEN [symbol |-> me.decision.symbol, now |-> me.decision.created_at]
    ELSE [symbol |-> me.request.symbol, now |-> to_iso_string(me.request.now)]

(* No step of the engine changes what a call is about.                     *)
LEMMA QuestionStays ==
    ASSUME EngineTypeOK, NEW c \in Caller,
           Snapshot(c) \/ RunCore(c) \/ AdviserAnswers(c) \/ AdviserFails(c) \/ Store(c)
    PROVE  /\ call'[c] = Idle \/ Question(call'[c]) = Question(call[c])
           /\ \A b \in Caller \ {c} : call'[b] = call[b]
<1>0. ASSUME NEW state, Proceed(c, state)
      PROVE  call'[c] = state /\ \A b \in Caller \ {c} : call'[b] = call[b]
  BY <1>0 DEF Proceed, EngineTypeOK
<1>1. ASSUME Fail(c)
      PROVE  call'[c] = Idle /\ \A b \in Caller \ {c} : call'[b] = call[b]
  BY <1>1 DEF Fail, Leave, EngineTypeOK
<1>2. CASE Snapshot(c) /\ ~Fail(c)
  <2>1. PICK market :
          Proceed(c, [step |-> "core", request |-> call[c].request, market |-> market])
    BY <1>2 DEF Snapshot
  <2>2. call[c].step = "snapshot"
    BY <1>2 DEF Snapshot
  <2> QED BY <2>1, <2>2, <1>0 DEF Question
<1>3. CASE RunCore(c) /\ ~Fail(c)
  <2>1. PICK hedge \in Hedges : Proceed(c, Priced(c, hedge))
    BY <1>3 DEF RunCore
  <2>2. call[c].step = "core"
    BY <1>3 DEF RunCore
  <2> QED BY <2>1, <2>2, <1>0 DEF Question, Priced
<1>4. CASE (AdviserAnswers(c) \/ AdviserFails(c)) /\ ~Fail(c)
  <2>1. PICK a, kind, erred :
          Proceed(c, [step |-> "append", decision |-> Decision(call[c], a, kind, erred)])
    BY <1>4 DEF AdviserAnswers, AdviserFails, Decide
  <2>2. call[c].step = "adviser" /\ call[c] \in CallType
    BY <1>4 DEF AdviserAnswers, AdviserFails, EngineTypeOK
  <2>3. call[c].request \in RequestType
    BY <2>2, CallShapes DEF AdvisingType
  <2>4. /\ Decision(call[c], a, kind, erred).symbol = call[c].request.symbol
        /\ Decision(call[c], a, kind, erred).created_at = to_iso_string(call[c].request.now)
    BY DEF Decision
  <2>5. Question(call'[c]) = [symbol |-> call[c].request.symbol,
                              now    |-> to_iso_string(call[c].request.now)]
    BY <2>1, <2>4, <1>0 DEF Question
  <2>6. Question(call[c]) = [symbol |-> call[c].request.symbol,
                             now    |-> to_iso_string(call[c].request.now)]
    BY <2>2 DEF Question
  <2> QED BY <2>1, <2>5, <2>6, <1>0
<1>5. CASE Store(c) /\ ~Fail(c)
  <2>1. call' = [call EXCEPT ![c].step = "return"] /\ call[c].step = "append"
    BY <1>5 DEF Store
  <2>2. call[c] = [step |-> "append", decision |-> call[c].decision]
    BY <2>1, CallShapes DEF EngineTypeOK
  <2>3. /\ call'[c].step = "return" /\ call'[c].decision = call[c].decision
        /\ \A b \in Caller \ {c} : call'[b] = call[b]
    BY <2>1, <2>2 DEF EngineTypeOK
  <2> QED BY <2>1, <2>3 DEF Question
<1> QED BY <1>1, <1>2, <1>3, <1>4, <1>5
-----------------------------------------------------------------------------
(* What is shown is a row's decision, for what was asked, and no older than *)
(* a request that wants a fresh one.                                       *)
AsksFresh(request) == Parameter(request, "fresh") = <<"true">>

Shown(request, arrived, d) ==
    /\ Row(d) \in rows
    /\ AskedFor(request, d)
    /\ request.path = Recommendation /\ AsksFresh(request) =>
          d.created_at >= to_iso_string(arrived)

ServedInv ==
    served # Nobody =>
        \A i \in DOMAIN served.decisions :
            Shown(served.request, served.arrived, served.decisions[i])

(* A call works on what its thread was asked, since no earlier than that.  *)
IsAbout(question, w) ==
    question.symbol = Wanted(w.request) /\ question.now >= to_iso_string(w.arrived)

ThreadsInv ==
    \A c \in Caller :
        /\ web[c].at = "routing" => web[c].arrived <= clock
        /\ web[c].at = "computing" => IsAbout(Question(call[c]), web[c])
        /\ web[c].at = "caching" =>
              /\ Row(web[c].decision) \in rows
              /\ web[c].decision.symbol = Wanted(web[c].request)
              /\ web[c].decision.created_at >= to_iso_string(web[c].arrived)

(* The cache holds, for a symbol, decisions of that symbol that have a row. *)
CacheInv ==
    /\ cache \in [Symbol -> {Empty} \cup [decision : DecisionRecordType, inserted_at : Nat]]
    /\ \A s \in Symbol : cache[s] # Empty =>
          Row(cache[s].decision) \in rows /\ cache[s].decision.symbol = s

DashboardInv ==
    /\ AuditInv
    /\ RoutingInv
    /\ IsFiniteSet(rows)
    /\ ThreadsInv
    /\ CacheInv
    /\ ServedInv

(* An answer that shows what may be shown.                                 *)
LEMMA ShowKeepsServed ==
    ASSUME NEW c, NEW decisions, Show(c, decisions), UNCHANGED rows,
           \A i \in DOMAIN decisions : Shown(web[c].request, web[c].arrived, decisions[i])
    PROVE  ServedInv'
  BY DEF Show, ServedInv, Shown

(* An answer without a decision.                                           *)
LEMMA RespondKeepsServed ==
    ASSUME NEW c, NEW status, Respond(c, status)
    PROVE  ServedInv'
<1>1. served'.decisions = <<>>
  BY DEF Respond
<1>2. DOMAIN <<>> = {}
  OBVIOUS
<1> QED BY <1>1, <1>2 DEF ServedInv

(* The last answer stays right while nothing is answered and rows stay.    *)
LEMMA RowsKeepServed ==
    ASSUME ServedInv, UNCHANGED served, rows \subseteq rows'
    PROVE  ServedInv'
  BY DEF ServedInv, Shown

(* Threads that do nothing, and threads that are done, keep what they knew. *)
LEMMA ThreadsStay ==
    ASSUME ThreadsInv, rows \subseteq rows', clock \in Nat, clock' \in Nat, clock <= clock',
           WebTypeOK,
           \A b \in Caller : \/ web'[b].at = "free"
                             \/ web'[b] = web[b] /\ call'[b] = call[b]
    PROVE  ThreadsInv'
<1> SUFFICES ASSUME NEW b \in Caller, web'[b] = web[b], call'[b] = call[b]
             PROVE  /\ web[b].at = "routing" => web[b].arrived <= clock'
                    /\ web[b].at = "computing" => IsAbout(Question(call[b]), web[b])
                    /\ web[b].at = "caching" =>
                          /\ Row(web[b].decision) \in rows'
                          /\ web[b].decision.symbol = Wanted(web[b].request)
                          /\ web[b].decision.created_at >= to_iso_string(web[b].arrived)
  BY DEF ThreadsInv, Question, IsAbout
<1>1. web[b].at = "routing" => web[b].arrived \in Nat
  BY WebShapes DEF WebTypeOK
<1> QED BY <1>1 DEF ThreadsInv

LEMMA RowsKeepCache ==
    ASSUME CacheInv, UNCHANGED cache, rows \subseteq rows'
    PROVE  CacheInv'
  BY DEF CacheInv

(* Only the routes of a history and of a replay, and those are not the     *)
(* route of a recommendation.                                              *)
LEMMA RoutesDiffer ==
    /\ History # Recommendation
    /\ ~IsReplay(Recommendation)
<1>1. Recommendation[2] = "recommendation" /\ History[2] = "history"
      /\ Len(Recommendation) = 2
  BY DEF Recommendation, History
<1> QED BY <1>1 DEF IsReplay

(* The thread that answered is free, the others were not touched.          *)
LEMMA AnsweredThreads ==
    ASSUME DashboardInv, NEW c \in Caller, web' = [web EXCEPT ![c] = Free],
           \A b \in Caller \ {c} : call'[b] = call[b],
           rows \subseteq rows', clock' \in Nat, clock <= clock'
    PROVE  ThreadsInv'
<1>1. Free.at = "free"
  BY DEF Free
<1>2. \A b \in Caller : web'[b].at = "free" \/ (web'[b] = web[b] /\ call'[b] = call[b])
  BY <1>1 DEF DashboardInv, RoutingInv, WebTypeOK
<1>3. clock \in Nat
  BY DEF DashboardInv, RoutingInv, WebTypeOK, EngineTypeOK
<1> QED BY <1>2, <1>3, ThreadsStay DEF DashboardInv, RoutingInv

(* A payload of a row has that row.                                        *)
LEMMA PayloadsHaveRows ==
    ASSUME EngineTypeOK, NEW r \in rows
    PROVE  /\ Row(r.payload_json) \in rows
           /\ r.symbol = r.payload_json.symbol /\ r.decision_id = r.payload_json.decision_id
           /\ r.payload_json \in DecisionRecordType
  BY DEF EngineTypeOK, Row

(* route_history shows rows of the symbol that was asked for, or of any.   *)
LEMMA HistoryIsShown ==
    ASSUME DashboardInv, NEW c \in Caller, ShowHistory(c)
    PROVE  ServedInv'
<1> DEFINE request == web[c].request
           symbols == IF AllSymbols(request) THEN Symbol ELSE {Upper[SymbolText(request)]}
           limit   == parse_positive_i64(Parameter(request, "limit"), 20)
<1>1. PICK found \in recent(limit, symbols) :
        IF found = Garbled THEN Respond(c, 500) ELSE Show(c, found.history)
  BY DEF ShowHistory
<1>2. CASE found = Garbled
  BY <1>1, <1>2, RespondKeepsServed
<1>3. CASE found # Garbled
  <2>1. ClampedLimit(limit) \in Nat \ {0}
    BY LimitIsPositive
  <2>2. IsFiniteSet(rows) /\ EngineTypeOK
    BY DEF DashboardInv, AuditInv
  <2> HIDE DEF limit
  <2>3. \A i \in DOMAIN found.history :
           \E r \in rows : r.symbol \in symbols /\ found.history[i] = r.payload_json
    BY <1>3, <2>1, <2>2, RecentShowsRows
  <2>4. request.path = History
    BY DEF ShowHistory
  <2>5. ASSUME NEW i \in DOMAIN found.history
        PROVE  Shown(request, web[c].arrived, found.history[i])
    <3>1. PICK r \in rows : r.symbol \in symbols /\ found.history[i] = r.payload_json
      BY <2>3
    <3>2. Row(found.history[i]) \in rows /\ found.history[i].symbol \in symbols
      BY <2>2, <3>1, PayloadsHaveRows
    <3>3. AskedFor(request, found.history[i])
      BY <2>4, <3>2 DEF AskedFor, Wanted
    <3> QED BY <2>4, <3>2, <3>3, RoutesDiffer DEF Shown
  <2>6. UNCHANGED rows
    BY DEF ShowHistory, engineVars
  <2> QED BY <1>1, <1>3, <2>5, <2>6, ShowKeepsServed
<1> QED BY <1>2, <1>3

(* route_replay shows the row of the identifier that was asked for.        *)
LEMMA ReplayIsShown ==
    ASSUME DashboardInv, NEW c \in Caller, ShowReplay(c)
    PROVE  ServedInv'
<1> DEFINE request == web[c].request
           id == request.path[3]
           found == get(id)
           row == CHOOSE r \in rows : r.decision_id = id
<1>0. IsReplay(request.path) /\ UNCHANGED rows
  BY DEF ShowReplay, engineVars
<1>1. CASE found \in {NotFound, Garbled}
  BY <1>1, RespondKeepsServed DEF ShowReplay
<1>2. CASE found \notin {NotFound, Garbled}
  <2>1. Show(c, <<found.payload>>)
    BY <1>2 DEF ShowReplay
  <2>2. ~PrimaryKeyFree(id)
    BY <1>2 DEF get
  <2>3. row \in rows /\ row.decision_id = id
    BY <2>2 DEF PrimaryKeyFree
  <2>4. EngineTypeOK
    BY DEF DashboardInv, AuditInv
  <2>5. /\ Row(row.payload_json) \in rows
        /\ row.payload_json.decision_id = id
        /\ row.payload_json # Garbled
    BY <2>3, <2>4, PayloadsHaveRows, TextAssumption
  <2>6. found.payload = row.payload_json
    BY <2>2, <2>5 DEF get
  <2>7. Shown(request, web[c].arrived, found.payload)
    BY <1>0, <2>5, <2>6, RoutesDiffer DEF Shown, AskedFor
  <2> HIDE DEF found, request
  <2>8. \A i \in DOMAIN <<found.payload>> :
           Shown(request, web[c].arrived, <<found.payload>>[i])
    BY <2>7
  <2> QED BY <1>0, <2>1, <2>8, ShowKeepsServed DEF request
<1> QED BY <1>1, <1>2

(* A cached decision is served to those who do not want a fresh one.       *)
LEMMA CachedIsShown ==
    ASSUME DashboardInv, NEW c \in Caller, ServeCached(c)
    PROVE  ServedInv'
<1> DEFINE request == web[c].request
           d == cache[Wanted(request)].decision
<1>1. /\ request.path = Recommendation /\ Refusal(request) = 0
      /\ ~WantsFresh(request) /\ cache[Wanted(request)] # Empty
      /\ Show(c, <<d>>) /\ UNCHANGED rows
  BY DEF ServeCached, Recommends, Routed, Hit, engineVars
<1>2. request \in Asked
  BY WebShapes DEF ServeCached, Recommends, Routed, DashboardInv, RoutingInv, WebTypeOK
<1>3. Wanted(request) \in Symbol
  BY <1>1, <1>2, WantedIsSymbol
<1>4. Row(d) \in rows /\ d.symbol = Wanted(request)
  BY <1>1, <1>3 DEF DashboardInv, CacheInv
<1>5. ~AsksFresh(request)
  BY <1>1 DEF WantsFresh, AsksFresh, parse_bool_flag
<1>6. Shown(request, web[c].arrived, d)
  BY <1>1, <1>4, <1>5 DEF Shown, AskedFor
<1> HIDE DEF d, request
<1>7. \A i \in DOMAIN <<d>> : Shown(request, web[c].arrived, <<d>>[i])
  BY <1>6
<1> QED BY <1>1, <1>7, ShowKeepsServed DEF request

(* A computed decision is for the symbol, and no older than the request.   *)
LEMMA ComputedIsShown ==
    ASSUME DashboardInv, NEW c \in Caller, CacheAndServe(c)
    PROVE  ServedInv' /\ CacheInv'
<1> DEFINE request == web[c].request
           d == web[c].decision
           entry == [decision |-> d, inserted_at |-> clock]
<1>1. /\ Show(c, <<d>>) /\ UNCHANGED rows
      /\ cache' = [cache EXCEPT ![Wanted(request)] = entry]
  BY DEF CacheAndServe, engineVars
<1>2. /\ Row(d) \in rows /\ d.symbol = Wanted(request)
      /\ d.created_at >= to_iso_string(web[c].arrived)
  BY DEF CacheAndServe, DashboardInv, ThreadsInv
<1>3. request \in Asked /\ d \in DecisionRecordType
  BY WebShapes DEF CacheAndServe, DashboardInv, RoutingInv, WebTypeOK
<1>4. request.path = Recommendation /\ Refusal(request) = 0
  BY DEF CacheAndServe, DashboardInv, RoutingInv, EngagedIsRecommended, Engaged, Recommended
<1>5. Wanted(request) \in Symbol
  BY <1>3, <1>4, WantedIsSymbol
<1>6. Shown(request, web[c].arrived, d)
  BY <1>2, <1>4 DEF Shown, AskedFor
<1>7. entry \in [decision : DecisionRecordType, inserted_at : Nat] /\ entry.decision = d
  BY <1>3 DEF DashboardInv, AuditInv, EngineTypeOK
<1> HIDE DEF d, request, entry
<1>8. \A i \in DOMAIN <<d>> : Shown(request, web[c].arrived, <<d>>[i])
  BY <1>6
<1>9. ServedInv'
  BY <1>1, <1>8, ShowKeepsServed DEF request
<1>10. CacheInv'
  <2>1. cache' \in [Symbol -> {Empty} \cup [decision : DecisionRecordType, inserted_at : Nat]]
    BY <1>1, <1>7 DEF DashboardInv, CacheInv
  <2>2. cache'[Wanted(request)] = entry
        /\ \A s \in Symbol \ {Wanted(request)} : cache'[s] = cache[s]
    BY <1>1, <1>5 DEF DashboardInv, CacheInv
  <2> QED BY <1>1, <1>2, <1>7, <2>1, <2>2 DEF DashboardInv, CacheInv
<1> QED BY <1>9, <1>10

(* Every step of the dashboard keeps what it shows right.                  *)
LEMMA DashboardStep == DashboardInv /\ [DashboardNext]_dashboardVars => DashboardInv'
<1> SUFFICES ASSUME DashboardInv, [DashboardNext]_dashboardVars PROVE DashboardInv'
  OBVIOUS
<1>1. [EngineNext]_engineVars
  BY EngineStepOrNone DEF DashboardInv
<1>2. AuditInv' /\ RoutingInv'
  BY <1>1, AuditStep, RoutingStep DEF DashboardInv
<1>3. /\ rows \subseteq rows' /\ IsFiniteSet(rows')
      /\ clock \in Nat /\ clock' \in Nat /\ clock <= clock'
  BY <1>1, RowsStay DEF DashboardInv, AuditInv, EngineTypeOK
<1> SUFFICES ThreadsInv' /\ CacheInv' /\ ServedInv'
  BY <1>2, <1>3 DEF DashboardInv
<1>4. UNCHANGED served => ServedInv'
  BY <1>3, RowsKeepServed DEF DashboardInv
<1>5. UNCHANGED cache => CacheInv'
  BY <1>3, RowsKeepCache DEF DashboardInv
<1>6. web \in [Caller -> WebType]
  BY DEF DashboardInv, RoutingInv, WebTypeOK
<1>7. ASSUME NEW c \in Caller, NEW raw \in Requests, Arrive(c, raw)
      PROVE  ThreadsInv' /\ CacheInv' /\ ServedInv'
  <2>1. /\ web'[c].at = "routing" /\ web'[c].arrived = clock /\ UNCHANGED <<rows, call, clock>>
        /\ \A b \in Caller \ {c} : web'[b] = web[b]
    BY <1>6, <1>7 DEF Arrive, engineVars
  <2>2. ThreadsInv'
    BY <1>3, <2>1 DEF DashboardInv, ThreadsInv, IsAbout
  <2> QED BY <1>4, <1>5, <1>7, <2>2 DEF Arrive
<1>8. ASSUME NEW c \in Caller,
             AnswerAtOnce(c) \/ ShowHistory(c) \/ ShowReplay(c) \/ ServeCached(c)
                \/ CacheAndServe(c)
      PROVE  ThreadsInv' /\ CacheInv' /\ ServedInv'
  <2>1. web' = [web EXCEPT ![c] = Free] /\ UNCHANGED engineVars
    BY <1>8 DEF AnswerAtOnce, ShowHistory, ShowReplay, ServeCached, CacheAndServe, Respond, Show
  <2>2. ThreadsInv'
    BY <1>3, <2>1, AnsweredThreads DEF engineVars
  <2>3. CASE AnswerAtOnce(c)
    BY <1>5, <2>2, <2>3, RespondKeepsServed DEF AnswerAtOnce
  <2>4. CASE ShowHistory(c)
    BY <1>5, <2>2, <2>4, HistoryIsShown DEF ShowHistory
  <2>5. CASE ShowReplay(c)
    BY <1>5, <2>2, <2>5, ReplayIsShown DEF ShowReplay
  <2>6. CASE ServeCached(c)
    BY <1>5, <2>2, <2>6, CachedIsShown DEF ServeCached
  <2>7. CASE CacheAndServe(c)
    BY <2>2, <2>7, ComputedIsShown
  <2> QED BY <1>8, <2>3, <2>4, <2>5, <2>6, <2>7
<1>9. ASSUME NEW c \in Caller, Compute(c)
      PROVE  ThreadsInv' /\ CacheInv' /\ ServedInv'
  <2> DEFINE symbol == Wanted(web[c].request)
  <2>1. Proceed(c, [step |-> "snapshot", request |-> [symbol |-> symbol, now |-> clock]])
    BY <1>9 DEF Compute, Start
  <2>2. /\ call'[c] = [step |-> "snapshot", request |-> [symbol |-> symbol, now |-> clock]]
        /\ \A b \in Caller \ {c} : call'[b] = call[b]
    BY <2>1 DEF Proceed, DashboardInv, AuditInv, EngineTypeOK
  <2>3. Question(call'[c]) = [symbol |-> symbol, now |-> to_iso_string(clock)]
    BY <2>2 DEF Question
  <2>4. to_iso_string(web[c].arrived) <= to_iso_string(clock)
    <3>1. web[c].at = "routing" /\ web[c].arrived <= clock
      BY <1>9 DEF Compute, Recommends, Routed, DashboardInv, ThreadsInv
    <3>2. web[c].arrived \in Nat
      BY <1>6, <3>1, WebShapes
    <3> QED BY <1>3, <3>1, <3>2, TimestampsAreOrdered
  <2>5. /\ web'[c].at = "computing"
        /\ web'[c].request = web[c].request /\ web'[c].arrived = web[c].arrived
        /\ \A b \in Caller \ {c} : web'[b] = web[b]
    <3>1. web[c] = [at |-> "routing", request |-> web[c].request, arrived |-> web[c].arrived]
      BY <1>6, <1>9, WebShapes DEF Compute, Recommends, Routed
    <3> QED BY <1>6, <1>9, <3>1 DEF Compute
  <2>6. UNCHANGED <<rows, clock>>
    BY <2>1 DEF Proceed
  <2>7. IsAbout(Question(call'[c]), web'[c])
    BY <1>3, <2>3, <2>4, <2>5 DEF IsAbout
  <2>8. ThreadsInv'
    BY <1>3, <2>2, <2>5, <2>6, <2>7 DEF DashboardInv, ThreadsInv, Question, IsAbout
  <2> QED BY <1>4, <1>5, <1>9, <2>8 DEF Compute
<1>10. ASSUME NEW c \in Caller, EngineWorks(c)
       PROVE  ThreadsInv' /\ CacheInv' /\ ServedInv'
  <2>1. /\ call'[c] = Idle \/ Question(call'[c]) = Question(call[c])
        /\ \A b \in Caller \ {c} : call'[b] = call[b]
    BY <1>10, QuestionStays DEF EngineWorks, DashboardInv, AuditInv
  <2>2. CASE call'[c] = Idle
    <3>1. Respond(c, 400) /\ UNCHANGED cache
      BY <1>10, <2>2 DEF EngineWorks
    <3>2. ThreadsInv'
      BY <1>3, <2>1, <3>1, AnsweredThreads DEF Respond
    <3> QED BY <1>5, <3>1, <3>2, RespondKeepsServed
  <2>3. CASE call'[c] # Idle
    <3>1. UNCHANGED <<web, served, cache>> /\ web[c].at = "computing"
      BY <1>10, <2>3 DEF EngineWorks
    <3>2. Question(call'[c]) = Question(call[c])
      BY <2>1, <2>3
    <3>3. \A b \in Caller : web[b].at = "routing" => web[b].arrived \in Nat
      BY <1>6, WebShapes
    <3>4. \A b \in Caller : Question(call'[b]) = Question(call[b])
      BY <2>1, <3>2 DEF Question
    <3>5. ThreadsInv'
      BY <1>3, <3>1, <3>3, <3>4 DEF DashboardInv, ThreadsInv
    <3> QED BY <1>4, <1>5, <3>1, <3>5
  <2> QED BY <2>2, <2>3
<1>11. ASSUME NEW c \in Caller, EngineReturns(c)
       PROVE  ThreadsInv' /\ CacheInv' /\ ServedInv'
  <2> DEFINE d == call[c].decision
  <2>1. call[c].step = "return" /\ UNCHANGED <<clock, rows>>
    BY <1>11 DEF EngineReturns, Return
  <2>2. Row(d) \in rows
    BY <2>1 DEF DashboardInv, AuditInv, AnswersAreStored
  <2>3. IsAbout([symbol |-> d.symbol, now |-> d.created_at], web[c])
    BY <1>11, <2>1 DEF EngineReturns, DashboardInv, ThreadsInv, Question
  <2>4. /\ web'[c].at = "caching" /\ web'[c].decision = d
        /\ web'[c].request = web[c].request /\ web'[c].arrived = web[c].arrived
        /\ \A b \in Caller \ {c} : web'[b] = web[b]
    BY <1>6, <1>11 DEF EngineReturns
  <2>5. \A b \in Caller \ {c} : call'[b] = call[b]
    BY <1>11 DEF EngineReturns, Return, Leave, DashboardInv, AuditInv, EngineTypeOK
  <2> HIDE DEF d
  <2>6. ThreadsInv'
    BY <1>3, <2>1, <2>2, <2>3, <2>4, <2>5 DEF DashboardInv, ThreadsInv, Question, IsAbout
  <2> QED BY <1>4, <1>5, <1>11, <2>6 DEF EngineReturns
<1>12. CASE ServerCrash
  <2>1. \A b \in Caller : web'[b] = Free
    BY <1>12 DEF ServerCrash
  <2>2. ThreadsInv'
    BY <2>1 DEF ThreadsInv, Free
  <2>3. CacheInv'
    BY <1>12 DEF ServerCrash, CacheInv
  <2> QED BY <1>4, <1>12, <2>2, <2>3 DEF ServerCrash
<1>13. CASE Elsewhere
  <2>1. \A b \in Caller : web'[b] = web[b] /\ call'[b] = call[b]
    BY <1>13 DEF Elsewhere, Tick
  <2>2. ThreadsInv'
    BY <1>3, <2>1, ThreadsStay DEF DashboardInv, RoutingInv
  <2> QED BY <1>4, <1>5, <1>13, <2>2 DEF Elsewhere
<1>14. CASE UNCHANGED dashboardVars
  <2>1. ThreadsInv'
    BY <1>3, <1>14, ThreadsStay DEF dashboardVars, engineVars, DashboardInv, RoutingInv
  <2> QED BY <1>4, <1>5, <1>14, <2>1 DEF dashboardVars
<1> QED BY <1>7, <1>8, <1>9, <1>10, <1>11, <1>12, <1>13, <1>14 DEF DashboardNext

LEMMA DashboardAlways == DashboardSpec => []DashboardInv
<1>1. DashboardInit => DashboardInv
  <2> SUFFICES ASSUME DashboardInit PROVE DashboardInv
    OBVIOUS
  <2>1. AuditInv
    BY DEF DashboardInit, EngineInit, StoreInit, AuditInv, EngineTypeOK, CallType, Idle,
       CallsAreReproducible, AnswersAreStored, IdentifiersAreUnique, ReleasedAreStored,
       DecisionIsReproducible, Stored
  <2>2. RoutingInv
    BY <2>1 DEF DashboardInit, AuditInv, RoutingInv, WebTypeOK, WebType, EngagedIsRecommended,
       Engaged, Free
  <2>3. IsFiniteSet(rows)
    BY FS_EmptySet DEF DashboardInit, EngineInit, StoreInit
  <2>4. ThreadsInv
    BY DEF DashboardInit, ThreadsInv, Free
  <2>5. CacheInv /\ ServedInv
    BY DEF DashboardInit, CacheInv, ServedInv
  <2> QED BY <2>1, <2>2, <2>3, <2>4, <2>5 DEF DashboardInv
<1> QED BY <1>1, DashboardStep, PTL DEF DashboardSpec

(* THREAT_MODEL, provenance: every decision that is shown, on whatever     *)
(* route, replays with a valid hash and is one for what was asked.         *)
THEOREM ShownReplays == DashboardSpec => []ShownIsReplayable
<1>1. DashboardInv => ShownIsReplayable
  <2> SUFFICES ASSUME DashboardInv, served # Nobody, NEW i \in DOMAIN served.decisions
               PROVE  LET d == served.decisions[i]
                      IN  /\ get(d.decision_id)
                                 = [payload |-> d, stored_content_hash_valid |-> TRUE]
                          /\ AskedFor(served.request, d)
    BY DEF ShownIsReplayable
  <2> DEFINE d == served.decisions[i]
  <2>1. Row(d) \in rows /\ AskedFor(served.request, d)
    BY DEF DashboardInv, ServedInv, Shown
  <2>2. Row(d).payload_json \in DecisionRecordType
    BY <2>1 DEF DashboardInv, AuditInv, EngineTypeOK
  <2>3. d \in DecisionRecordType
    BY <2>2 DEF Row
  <2> QED BY <2>1, <2>3, RowReplays DEF DashboardInv
<1> QED BY <1>1, DashboardAlways, PTL

(* LLR-152: fresh=true is never answered with a decision that was begun    *)
(* before the request arrived, whatever other threads do.                  *)
THEOREM FreshAnswers == DashboardSpec => []FreshIsFresh
<1>1. DashboardInv => FreshIsFresh
  BY DEF DashboardInv, ServedInv, Shown, AsksFresh, FreshIsFresh
<1> QED BY <1>1, DashboardAlways, PTL
=============================================================================
