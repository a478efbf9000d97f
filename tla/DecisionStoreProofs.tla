-------------------------- MODULE DecisionStoreProofs --------------------------
(***************************************************************************)
(* The table of decisions: what its readers can rely on, for any decisions, *)
(* limits and damage (DecisionHistory); and, in the second part, what a     *)
(* host of the MCP server can (McpSession).                                *)
(***************************************************************************)
EXTENDS DecisionHistory, McpSession, SequenceTheorems, FiniteSetTheorems, TLAPS

-----------------------------------------------------------------------------
(* What the ORDER BY and LIMIT of recent() select.                         *)

(* A list of different elements of S, as many as S has, has all of them.   *)
LEMMA AllAreListed ==
    ASSUME NEW S, IsFiniteSet(S), NEW s \in SetToSeqs(S)
    PROVE  /\ s \in [1 .. Cardinality(S) -> S]
           /\ \A i, j \in 1 .. Cardinality(S) : i # j => s[i] # s[j]
           /\ \A x \in S : \E i \in 1 .. Cardinality(S) : s[i] = x
<1> DEFINE n == Cardinality(S)
<1>1. /\ s \in [1 .. n -> S]
      /\ \A i, j \in 1 .. n : i # j => s[i] # s[j]
  BY DEF SetToSeqs
<1>2. n \in Nat
  BY FS_CardinalityType
<1>3. ASSUME NEW x \in S, \A i \in 1 .. n : s[i] # x PROVE FALSE
  <2>1. IsFiniteSet(S \ {x}) /\ Cardinality(S \ {x}) = n - 1
    BY FS_RemoveElement
  <2>2. IsFiniteSet(1 .. n) /\ Cardinality(1 .. n) = n
    BY <1>2, FS_Interval
  <2>3. s \in [1 .. n -> S \ {x}]
    BY <1>1, <1>3
  <2>4. Cardinality(S \ {x}) < Cardinality(1 .. n)
    BY <1>2, <2>1, <2>2
  <2>5. \E i, j \in 1 .. n : i # j /\ s[i] = s[j]
    <3> HIDE DEF n
    <3> QED BY <2>1, <2>2, <2>3, <2>4, FS_PigeonHole
  <2> QED BY <1>1, <2>5
<1> QED BY <1>1, <1>3

(* The selection has no row twice, is in order, is as long as the limit    *)
(* allows, and leaves nothing out that is newer than what it has.          *)
LEMMA TheNewestAreSelected ==
    ASSUME NEW S, IsFiniteSet(S), \A r \in S : r.created_at \in Int,
           NEW limit \in Nat, NEW s \in NewestFirst(S, limit)
    PROVE  /\ s \in Seq(S)
           /\ Len(s) = IF Cardinality(S) < limit THEN Cardinality(S) ELSE limit
           /\ \A i, j \in DOMAIN s : i < j => s[i].created_at >= s[j].created_at
           /\ \A r \in S : (\E i \in DOMAIN s : s[i] = r)
                           \/ \A i \in DOMAIN s : r.created_at <= s[i].created_at
<1> DEFINE n == Cardinality(S)
           m == IF n < limit THEN n ELSE limit
<1>1. n \in Nat /\ m \in 0 .. n
  BY FS_CardinalityType
<1>2. PICK o \in SetToSeqs(S) :
          /\ \A i, j \in DOMAIN o : i < j => o[i].created_at >= o[j].created_at
          /\ s = SubSeq(o, 1, IF Len(o) < limit THEN Len(o) ELSE limit)
  BY DEF NewestFirst
<1>3. /\ o \in [1 .. n -> S]
      /\ \A x \in S : \E i \in 1 .. n : o[i] = x
  BY AllAreListed
<1>4. o \in Seq(S) /\ Len(o) = n /\ DOMAIN o = 1 .. n
  BY <1>1, <1>3, IsASeq
<1>5. s = SubSeq(o, 1, m)
  BY <1>2, <1>4
<1> HIDE DEF m, n
<1>6. /\ s \in Seq(S) /\ Len(s) = m /\ DOMAIN s = 1 .. m
      /\ \A i \in 1 .. m : s[i] = o[i]
  <2>1. /\ s \in Seq(S)
        /\ Len(s) = IF 1 <= m THEN m - 1 + 1 ELSE 0
        /\ \A i \in 1 .. m - 1 + 1 : s[i] = o[1 + i - 1]
    BY <1>1, <1>4, <1>5, SubSeqProperties
  <2>2. Len(s) = m /\ DOMAIN s = 1 .. m
    BY <1>1, <2>1, LenProperties
  <2>3. ASSUME NEW i \in 1 .. m PROVE s[i] = o[i]
    BY <1>1, <2>1
  <2> QED BY <2>1, <2>2, <2>3
<1>7. \A i, j \in DOMAIN s : i < j => s[i].created_at >= s[j].created_at
  BY <1>1, <1>2, <1>4, <1>6
<1>8. ASSUME NEW r \in S, \A i \in DOMAIN s : s[i] # r, NEW j \in DOMAIN s
      PROVE  r.created_at <= s[j].created_at
  <2>1. PICK k \in 1 .. n : o[k] = r
    BY <1>3
  <2>2. k > j
    BY <1>1, <1>6, <1>8, <2>1
  <2>3. o[j].created_at >= o[k].created_at
    BY <1>1, <1>2, <1>4, <1>6, <2>2
  <2>4. o[j] \in S
    BY <1>1, <1>3, <1>6
  <2> QED BY <1>6, <2>1, <2>3, <2>4
<1> QED BY <1>6, <1>7, <1>8 DEF m, n

LEMMA ClampIsPositive ==
    ASSUME NEW limit \in Int
    PROVE  ClampedLimit(limit) \in Nat
BY RecentAssumption DEF ClampedLimit

-----------------------------------------------------------------------------
(* The rows an appended decision may have by now: its own, or that row as  *)
(* something else than the program has left it.                            *)
FormsOf(p) ==
    IF p.decision_id \notin damaged THEN {Row(p)} ELSE Resembling(Row(p))

TableInv ==
    /\ appended \in SUBSET Decision
    /\ IsFiniteSet(appended)
    /\ damaged \subseteq {p.decision_id : p \in appended}
    /\ \A p, q \in appended : p.decision_id = q.decision_id => p = q
    /\ \A r, t \in rows : r.decision_id = t.decision_id => r = t
    /\ \A p \in appended : \E r \in rows : r \in FormsOf(p)
    /\ \A r \in rows : \E p \in appended : r \in FormsOf(p)

HistoryInv == TableInv /\ ReplayVerdictIsRight /\ HistoryIsNewest

LEMMA FormFacts ==
    ASSUME NEW p, NEW r \in FormsOf(p)
    PROVE  /\ r.decision_id = p.decision_id
           /\ p.decision_id \notin damaged => r = Row(p)
           /\ p.decision_id \in damaged => r.payload_json \in Decision \cup {Garbled}
BY DEF FormsOf, Row, Resembling

LEMMA RowFields ==
    ASSUME NEW p
    PROVE  /\ Row(p).decision_id = p.decision_id
           /\ Row(p).created_at = p.created_at
           /\ Row(p).symbol = p.symbol
           /\ Row(p).content_hash = hash_payload(p)
           /\ Row(p).payload_json = p
BY DEF Row

LEMMA HashesDiffer == \A p, q : hash_payload(p) = hash_payload(q) => p = q
<1> SUFFICES ASSUME NEW p, NEW q, hash_payload(p) = hash_payload(q) PROVE p = q
  OBVIOUS
<1>1. hash_payload(p).sha256 = p /\ hash_payload(q).sha256 = q
  BY DEF hash_payload
<1> QED BY <1>1

(* What get answers of an identifier.                                      *)
LEMMA VerdictOfGet ==
    ASSUME TableInv, NEW id
    PROVE  LET original == {p \in appended : p.decision_id = id}
           IN  /\ get(id) = NotFound <=> original = {}
               /\ get(id) \notin {NotFound, Garbled} =>
                    \A p \in original : RightAbout(p, get(id))
<1> DEFINE original == {p \in appended : p.decision_id = id}
<1>1. CASE PrimaryKeyFree(id)
  <2>1. original = {}
    <3> SUFFICES ASSUME NEW p \in appended, p.decision_id = id PROVE FALSE
      OBVIOUS
    <3>1. PICK r \in rows : r \in FormsOf(p)
      BY DEF TableInv
    <3> QED BY <1>1, <3>1, FormFacts DEF PrimaryKeyFree
  <2> QED BY <1>1, <2>1 DEF get
<1>2. CASE ~PrimaryKeyFree(id)
  <2> DEFINE row == CHOOSE r \in rows : r.decision_id = id
  <2>1. row \in rows /\ row.decision_id = id
    BY <1>2 DEF PrimaryKeyFree
  <2> HIDE DEF row
  <2>2. PICK p \in appended : row \in FormsOf(p)
    BY <2>1 DEF TableInv
  <2>3. p.decision_id = id /\ p \in Decision
    BY <2>1, <2>2, FormFacts DEF TableInv
  <2>4. original = {p}
    BY <2>3 DEF TableInv
  <2>5. get(id) = IF row.payload_json = Garbled THEN Garbled
                  ELSE [payload |-> row.payload_json,
                        stored_content_hash_valid |->
                            hash_payload(row.payload_json) = row.content_hash]
    BY <1>2 DEF get, row
  <2>6. row.payload_json \in Decision \cup {Garbled}
    BY <2>2, <2>3, FormFacts, RowFields
  <2>7. get(id) # NotFound
    BY <2>5, <2>6, AnswerAssumption
  <2>8. ASSUME get(id) # Garbled
        PROVE  /\ get(id).payload = row.payload_json
               /\ get(id).stored_content_hash_valid
                    = (hash_payload(row.payload_json) = row.content_hash)
    <3> DEFINE valid == hash_payload(row.payload_json) = row.content_hash
    <3>1. get(id) = [payload |-> row.payload_json, stored_content_hash_valid |-> valid]
      BY <2>5, <2>8
    <3> HIDE DEF valid
    <3>2. /\ get(id).payload = row.payload_json
          /\ get(id).stored_content_hash_valid = valid
      BY <3>1
    <3> QED BY <3>2 DEF valid
  <2>9. /\ Kept(p, "payload_json") <=> row.payload_json = p
        /\ Kept(p, "content_hash") <=> row.content_hash = hash_payload(p)
    <3>1. \A r \in rows : r.decision_id = id <=> r = row
      BY <2>1 DEF TableInv
    <3> QED BY <2>1, <2>3, <3>1, RowFields DEF Kept
  <2>10. row.payload_json # p => hash_payload(row.payload_json) # hash_payload(p)
    BY HashesDiffer
  <2>11. ASSUME get(id) # Garbled PROVE RightAbout(p, get(id))
    <3>1. Kept(p, "payload_json") /\ Kept(p, "content_hash") =>
             get(id).stored_content_hash_valid /\ get(id).payload = p
      BY <2>8, <2>9, <2>11
    <3>2. CASE Kept(p, "payload_json") /\ Kept(p, "content_hash")
      BY <3>1, <3>2 DEF RightAbout
    <3>3. CASE ~Kept(p, "payload_json") /\ ~Kept(p, "content_hash")
      BY <3>3 DEF RightAbout, Kept
    <3>4. CASE \/ Kept(p, "payload_json") /\ ~Kept(p, "content_hash")
               \/ ~Kept(p, "payload_json") /\ Kept(p, "content_hash")
      BY <2>8, <2>9, <2>10, <2>11, <3>4 DEF RightAbout
    <3> QED BY <3>2, <3>3, <3>4
  <2> QED BY <2>4, <2>7, <2>11
<1> QED BY <1>1, <1>2

(* While nothing is damaged the table is the rows of what was appended.    *)
LEMMA UndamagedTable ==
    ASSUME TableInv, damaged = {}
    PROVE  rows = {Row(p) : p \in appended}
<1>1. \A p : FormsOf(p) = {Row(p)}
  BY DEF FormsOf
<1> QED BY <1>1 DEF TableInv

(* As many rows of the symbols asked for as decisions.                     *)
LEMMA AsManyRows ==
    ASSUME NEW wanted, IsFiniteSet(wanted)
    PROVE  LET candidates == {Row(p) : p \in wanted}
           IN  IsFiniteSet(candidates) /\ Cardinality(candidates) = Cardinality(wanted)
<1> DEFINE candidates == {Row(p) : p \in wanted}
           f == [p \in wanted |-> Row(p)]
<1>1. f \in Bijection(wanted, candidates)
  <2>1. f \in [wanted -> candidates]
    OBVIOUS
  <2>2. \A p, q \in wanted : f[p] = f[q] => p = q
    BY RowFields
  <2>3. \A r \in candidates : \E p \in wanted : f[p] = r
    OBVIOUS
  <2> HIDE DEF f, candidates
  <2> QED BY <2>1, <2>2, <2>3 DEF Bijection, Injection, Surjection, IsInjective
<1>2. ExistsBijection(wanted, candidates)
  BY <1>1 DEF ExistsBijection
<1> HIDE DEF candidates
<1>3. IsFiniteSet(candidates) /\ Cardinality(candidates) = Cardinality(wanted)
  BY <1>2, FS_Bijection
<1> QED BY <1>3 DEF candidates

(* What recent answers while nothing is damaged.                           *)
LEMMA HistoryOfRecent ==
    ASSUME TableInv, damaged = {}, NEW limit \in Int, NEW symbols,
           NEW told \in recent(limit, symbols)
    PROVE  LET shown == ToSet(told.history)
               wanted == {p \in appended : p.symbol \in symbols}
           IN  /\ shown \subseteq wanted
               /\ \A p \in wanted \ shown, q \in shown : p.created_at <= q.created_at
               /\ \A i, j \in DOMAIN told.history : i < j =>
                     told.history[i].created_at >= told.history[j].created_at
               /\ Len(told.history) =
                     IF Cardinality(wanted) < ClampedLimit(limit)
                     THEN Cardinality(wanted) ELSE ClampedLimit(limit)
<1> DEFINE wanted == {p \in appended : p.symbol \in symbols}
           candidates == {r \in rows : r.symbol \in symbols}
           max == ClampedLimit(limit)
<1>1. IsFiniteSet(wanted)
  BY FS_Subset DEF TableInv
<1>2. candidates = {Row(p) : p \in wanted}
  BY UndamagedTable, RowFields
<1>3. IsFiniteSet(candidates) /\ Cardinality(candidates) = Cardinality(wanted)
  BY <1>1, <1>2, AsManyRows
<1>4. max \in Nat
  BY ClampIsPositive
<1>5. PICK s \in NewestFirst(candidates, max) :
          told = IF \E i \in DOMAIN s : s[i].payload_json = Garbled THEN Garbled
                 ELSE [history |-> [i \in DOMAIN s |-> s[i].payload_json]]
  BY DEF recent, SelectRecent
<1>6. \A p \in wanted : p.created_at \in Int /\ p # Garbled
  BY DecisionAssumption DEF TableInv
<1>7. \A r \in candidates : r.created_at \in Int
  BY <1>2, <1>6, RowFields
<1> HIDE DEF candidates, max, wanted
<1>8. /\ s \in Seq(candidates)
      /\ Len(s) = IF Cardinality(candidates) < max THEN Cardinality(candidates) ELSE max
      /\ \A i, j \in DOMAIN s : i < j => s[i].created_at >= s[j].created_at
      /\ \A r \in candidates : (\E i \in DOMAIN s : s[i] = r)
                               \/ \A i \in DOMAIN s : r.created_at <= s[i].created_at
  BY <1>3, <1>4, <1>5, <1>7, TheNewestAreSelected
<1>9. \A i \in DOMAIN s : s[i] \in candidates
  BY <1>8, ElementOfSeq, LenProperties
<1>10. \A i \in DOMAIN s : s[i].payload_json \in wanted /\ s[i] = Row(s[i].payload_json)
  BY <1>2, <1>9, RowFields
<1> DEFINE h == [i \in DOMAIN s |-> s[i].payload_json]
<1>11. told.history = h
  BY <1>5, <1>6, <1>10
<1>12. /\ DOMAIN h = DOMAIN s /\ DOMAIN h = 1 .. Len(s) /\ Len(s) \in Nat
       /\ \A i \in DOMAIN h : h[i] = s[i].payload_json
  BY <1>8, LenProperties
<1> HIDE DEF h
<1>13. h \in Seq(wanted) /\ Len(h) = Len(s)
  <2>1. h \in [1 .. Len(s) -> wanted]
    BY <1>10, <1>12 DEF h
  <2> QED BY <1>12, <2>1, IsASeq
<1>14. \A i \in DOMAIN h : h[i].created_at = s[i].created_at
  BY <1>10, <1>12, RowFields
<1>15. \A i, j \in DOMAIN h : i < j => h[i].created_at >= h[j].created_at
  BY <1>8, <1>12, <1>14
<1>16. ToSet(h) \subseteq wanted
  BY <1>10, <1>12 DEF ToSet
<1>17. ASSUME NEW p \in wanted \ ToSet(h), NEW q \in ToSet(h)
       PROVE  p.created_at <= q.created_at
  <2>1. PICK j \in DOMAIN h : h[j] = q
    BY DEF ToSet
  <2>2. Row(p) \in candidates
    BY <1>2
  <2>3. \A i \in DOMAIN s : s[i] # Row(p)
    <3> SUFFICES ASSUME NEW i \in DOMAIN s, s[i] = Row(p) PROVE FALSE
      OBVIOUS
    <3>1. h[i] = p
      BY <1>12, RowFields
    <3> QED BY <1>12, <3>1 DEF ToSet
  <2>4. Row(p).created_at <= s[j].created_at
    BY <1>8, <1>12, <2>1, <2>2, <2>3
  <2> QED BY <1>14, <2>1, <2>4, RowFields
<1> QED BY <1>3, <1>8, <1>11, <1>13, <1>15, <1>16, <1>17 DEF max, wanted

-----------------------------------------------------------------------------
LEMMA AppendKeeps ==
    ASSUME TableInv, NEW p \in Decision, AppendDecision(p)
    PROVE  TableInv'
<1>1. /\ PrimaryKeyFree(p.decision_id)
      /\ rows' = rows \cup {Row(p)}
      /\ appended' = appended \cup {p}
      /\ damaged' = damaged
  BY DEF AppendDecision, AppendRow
<1>2. \A q : FormsOf(q)' = FormsOf(q)
  BY <1>1 DEF FormsOf
<1>3. \A q \in appended : q.decision_id # p.decision_id
  BY <1>1, FormFacts DEF TableInv, PrimaryKeyFree
<1>4. p.decision_id \notin damaged
  BY <1>3 DEF TableInv
<1>5. Row(p) \in FormsOf(p)
  BY <1>4 DEF FormsOf
<1>6. IsFiniteSet(appended')
  BY <1>1, FS_AddElement DEF TableInv
<1>7. \A r, t \in rows' : r.decision_id = t.decision_id => r = t
  BY <1>1, RowFields DEF TableInv, PrimaryKeyFree
<1>8. \A q, o \in appended' : q.decision_id = o.decision_id => q = o
  BY <1>1, <1>3 DEF TableInv
<1>9. \A q \in appended' : \E r \in rows' : r \in FormsOf(q)'
  BY <1>1, <1>2, <1>5 DEF TableInv
<1>10. \A r \in rows' : \E q \in appended' : r \in FormsOf(q)'
  BY <1>1, <1>2, <1>5 DEF TableInv
<1>11. appended' \in SUBSET Decision
  BY <1>1 DEF TableInv
<1>12. (damaged \subseteq {q.decision_id : q \in appended})'
  BY <1>1 DEF TableInv
<1> QED BY <1>6, <1>7, <1>8, <1>9, <1>10, <1>11, <1>12 DEF TableInv

LEMMA DamageKeeps ==
    ASSUME TableInv, NEW row \in rows, Damage(row)
    PROVE  TableInv'
<1>1. PICK p \in appended : row \in FormsOf(p)
  BY DEF TableInv
<1>2. row.decision_id = p.decision_id
  BY <1>1, FormFacts
<1>3. PICK changed \in Resembling(row) : rows' = (rows \ {row}) \cup {changed}
  BY DEF Damage
<1>4. /\ rows' = (rows \ {row}) \cup {changed}
      /\ damaged' = damaged \cup {p.decision_id}
      /\ appended' = appended
  BY <1>2, <1>3 DEF Damage
<1>5. changed \in FormsOf(p)'
  BY <1>2, <1>3, <1>4, RowFields DEF FormsOf, Resembling
<1>6. changed.decision_id = p.decision_id
  BY <1>2, <1>3 DEF Resembling
<1>7. ASSUME NEW q \in appended, q # p
      PROVE  q.decision_id # p.decision_id /\ FormsOf(q)' = FormsOf(q)
  <2>1. q.decision_id # p.decision_id
    BY <1>7 DEF TableInv
  <2> QED BY <1>4, <2>1 DEF FormsOf
<1>8. \A r, t \in rows' : r.decision_id = t.decision_id => r = t
  BY <1>2, <1>4, <1>6 DEF TableInv
<1>9. ASSUME NEW q \in appended' PROVE \E r \in rows' : r \in FormsOf(q)'
  <2>1. CASE q = p
    BY <1>4, <1>5, <2>1
  <2>2. CASE q # p
    <3>1. PICK r \in rows : r \in FormsOf(q)
      BY <1>4 DEF TableInv
    <3>2. r \in FormsOf(q)' /\ r.decision_id # p.decision_id
      BY <1>4, <1>7, <2>2, <3>1, FormFacts
    <3> QED BY <1>2, <1>4, <3>1, <3>2
  <2> QED BY <2>1, <2>2
<1>10. ASSUME NEW r \in rows' PROVE \E q \in appended' : r \in FormsOf(q)'
  <2>1. CASE r = changed
    BY <1>4, <1>5, <2>1
  <2>2. CASE r # changed
    <3>1. r \in rows /\ r # row
      BY <1>4, <2>2
    <3>2. PICK q \in appended : r \in FormsOf(q)
      BY <3>1 DEF TableInv
    <3>3. r.decision_id # p.decision_id
      BY <1>2, <3>1 DEF TableInv
    <3>4. q # p
      BY <3>2, <3>3, FormFacts
    <3> QED BY <1>4, <1>7, <3>2, <3>4
  <2> QED BY <2>1, <2>2
<1>11. (damaged \subseteq {q.decision_id : q \in appended})'
  BY <1>4 DEF TableInv
<1> QED BY <1>4, <1>8, <1>9, <1>10, <1>11 DEF TableInv

LEMMA ReadKeeps ==
    ASSUME TableInv, UNCHANGED <<rows, appended, damaged>>
    PROVE  TableInv'
<1>1. \A q : FormsOf(q)' = FormsOf(q)
  BY DEF FormsOf
<1> QED BY <1>1 DEF TableInv

LEMMA HistoryAlways == HistorySpec => []HistoryInv
<1>1. HistoryInit => HistoryInv
  <2> SUFFICES ASSUME HistoryInit PROVE HistoryInv
    OBVIOUS
  <2>1. rows = {} /\ appended = {} /\ damaged = {} /\ answer = NoAnswer
    BY DEF HistoryInit, StoreInit
  <2> QED BY <2>1, FS_EmptySet
          DEF HistoryInv, TableInv, ReplayVerdictIsRight, HistoryIsNewest, IsReplay, IsHistory
<1>2. HistoryInv /\ [HistoryNext]_historyVars => HistoryInv'
  <2> SUFFICES ASSUME HistoryInv, [HistoryNext]_historyVars PROVE HistoryInv'
    OBVIOUS
  <2> USE DEF HistoryInv
  <2>1. ASSUME NothingRead PROVE (ReplayVerdictIsRight /\ HistoryIsNewest)'
    BY <2>1 DEF NothingRead, ReplayVerdictIsRight, HistoryIsNewest, IsReplay, IsHistory
  <2>2. ASSUME NEW p \in Decision, AppendDecision(p) PROVE HistoryInv'
    BY <2>1, <2>2, AppendKeeps DEF AppendDecision
  <2>3. ASSUME NEW row \in rows, Damage(row) PROVE HistoryInv'
    <3>1. NothingRead
      BY <2>3 DEF Damage
    <3> QED BY <2>1, <2>3, <3>1, DamageKeeps
  <2>4. ASSUME NEW id \in Ids, Replay(id) PROVE HistoryInv'
    <3>1. /\ UNCHANGED <<rows, appended, damaged>>
          /\ asked' = [id |-> id] /\ answer' = get(id)
      BY <2>4 DEF Replay
    <3>2. TableInv'
      BY <3>1, ReadKeeps
    <3>3. asked'.id = id /\ "limit" \notin DOMAIN asked'
      BY <3>1
    <3>4. ReplayVerdictIsRight'
      <4>1. \A p : RightAbout(p, answer)' <=> RightAbout(p, get(id))
        BY <3>1 DEF RightAbout, Kept
      <4> QED BY <3>1, <3>3, <4>1, VerdictOfGet DEF ReplayVerdictIsRight
    <3>5. HistoryIsNewest'
      BY <3>3 DEF HistoryIsNewest, IsHistory
    <3> QED BY <3>2, <3>4, <3>5
  <2>5. ASSUME NEW limit \in Limits, NEW symbols, Recent(limit, symbols) PROVE HistoryInv'
    <3>1. /\ UNCHANGED <<rows, appended, damaged>>
          /\ asked' = [limit |-> limit, symbols |-> symbols]
          /\ answer' \in recent(limit, symbols)
      BY <2>5 DEF Recent
    <3>2. TableInv'
      BY <3>1, ReadKeeps
    <3>3. asked'.limit = limit /\ asked'.symbols = symbols /\ "id" \notin DOMAIN asked'
      BY <3>1
    <3>4. ReplayVerdictIsRight'
      BY <3>3 DEF ReplayVerdictIsRight, IsReplay
    <3>5. limit \in Int
      BY LimitAssumption
    <3>6. HistoryIsNewest'
      BY <3>1, <3>3, <3>5, HistoryOfRecent DEF HistoryIsNewest
    <3> QED BY <3>2, <3>4, <3>6
  <2>6. CASE UNCHANGED historyVars
    <3>1. TableInv'
      BY <2>6, ReadKeeps DEF historyVars
    <3>2. (ReplayVerdictIsRight /\ HistoryIsNewest)'
      BY <2>6 DEF historyVars, ReplayVerdictIsRight, RightAbout, Kept, HistoryIsNewest,
                  IsReplay, IsHistory
    <3> QED BY <3>1, <3>2
  <2> QED BY <2>2, <2>3, <2>4, <2>5, <2>6 DEF HistoryNext
<1> QED BY <1>1, <1>2, PTL DEF HistorySpec

(* LLR-072, of replay(): whatever is appended and read, and whichever       *)
(* columns but the key are changed behind the store's back, in any order, a *)
(* replay is valid and right if the row kept text and hash, and not valid  *)
(* if it lost one of them.                                                 *)
THEOREM VerdictIsRight == HistorySpec => []ReplayVerdictIsRight
<1>1. HistoryInv => ReplayVerdictIsRight
  BY DEF HistoryInv
<1> QED BY <1>1, HistoryAlways, PTL

(* Of recent(): in an undamaged table the newest decisions of the symbols  *)
(* asked for, in order, as many as the limit allows.                       *)
THEOREM HistoryNewest == HistorySpec => []HistoryIsNewest
<1>1. HistoryInv => HistoryIsNewest
  BY DEF HistoryInv
<1> QED BY <1>1, HistoryAlways, PTL

(* HLR-060: append() has no way to touch the row of an earlier decision.   *)
THEOREM AppendedImmutable == HistorySpec => []AppendedIsImmutable
<1>1. TableInv => AppendedIsImmutable
  BY FormFacts DEF TableInv, AppendedIsImmutable
<1> QED BY <1>1, HistoryAlways, PTL DEF HistoryInv

-----------------------------------------------------------------------------
(* The second part: the server and its host.                               *)

(* A decision a response tells its host of is a row of the table.          *)
StoredIn(response, table) ==
    LET result == Outcome(response)
    IN  "ok" \in DOMAIN result /\ "text" \in DOMAIN result.ok
        /\ "decision" \in DOMAIN result.ok.text =>
             result.ok.text.decision # Garbled /\ Row(result.ok.text.decision) \in table

(* The engine numbers its decisions: the next number is free.              *)
NumbersInv ==
    /\ IsFiniteSet(rows)
    /\ \A r \in rows : r.decision_id \in 1 .. Cardinality(rows)
    /\ \A r, t \in rows : r.decision_id = t.decision_id => r = t

(* What a table may become while a line is handled.                        *)
MayBecome(table) ==
    \/ table = rows
    \/ \E symbol : \E d \in NewDecisions(symbol) : table = rows \cup {Row(d)}

LEMMA ShortSequences ==
    /\ DOMAIN << >> = {}
    /\ \A x : /\ << x >> # << >> /\ Head(<< x >>) = x /\ Tail(<< x >>) = << >>
              /\ Append(<< >>, x) = << x >>
<1>1. DOMAIN << >> = {}
  OBVIOUS
<1> QED BY <1>1

(* A tool tells of a decision only when it is in the table it leaves.      *)
LEMMA ToolsTellTheTruth ==
    ASSUME NEW name, NEW arguments, NEW o \in call_tool(name, arguments)
    PROVE  /\ MayBecome(o.rows)
           /\ o.isError \in BOOLEAN
           /\ ~o.isError /\ "decision" \in DOMAIN o.text =>
                o.text.decision # Garbled /\ Row(o.text.decision) \in o.rows
<1> DEFINE Goal == /\ MayBecome(o.rows)
                   /\ o.isError \in BOOLEAN
                   /\ ~o.isError /\ "decision" \in DOMAIN o.text =>
                        o.text.decision # Garbled /\ Row(o.text.decision) \in o.rows
<1>1. ASSUME NEW why, o = Err(why) PROVE Goal
  <2>1. o.rows = rows /\ o.isError = TRUE
    BY <1>1 DEF Err
  <2> QED BY <2>1 DEF MayBecome
<1>2. ASSUME NEW text, "decision" \notin DOMAIN text, o = Ok(text) PROVE Goal
  <2>1. o.rows = rows /\ o.text = text /\ o.isError = FALSE
    BY <1>2 DEF Ok
  <2> QED BY <1>2, <2>1 DEF MayBecome
<1>3. ASSUME NEW symbol, o \in get_market_recommendation(symbol) PROVE Goal
  <2>1. CASE o = Err("no recommendation")
    BY <1>1, <2>1
  <2>2. ASSUME NEW d \in NewDecisions(symbol),
               o = [text |-> [decision |-> d], isError |-> FALSE, rows |-> rows \cup {Row(d)}]
        PROVE  Goal
    <3>1. o.text.decision = d /\ o.isError = FALSE /\ o.rows = rows \cup {Row(d)}
      BY <2>2
    <3>2. d # Garbled
      BY MessageAssumption DEF NewDecisions
    <3>3. MayBecome(o.rows)
      BY <3>1 DEF MayBecome
    <3> QED BY <3>1, <3>2, <3>3
  <2> QED BY <1>3, <2>1, <2>2 DEF get_market_recommendation
<1>4. ASSUME NEW symbol, o \in price_option(symbol, arguments) PROVE Goal
  <2>1. "decision" \notin DOMAIN [priced |-> build_contract(symbol, arguments)]
    OBVIOUS
  <2> QED BY <1>1, <1>2, <1>4, <2>1 DEF price_option
<1>5. ASSUME NEW id, o \in replay_decision(id) PROVE Goal
  <2>1. "decision" \notin DOMAIN [replay |-> get(id)]
    OBVIOUS
  <2> QED BY <1>1, <1>2, <1>5, <2>1 DEF replay_decision
<1>6. ASSUME NEW limit, NEW symbols, o \in list_recent_decisions(limit, symbols) PROVE Goal
  <2>1. PICK h \in recent(limit, symbols) :
            o = IF h = Garbled THEN Err("not JSON") ELSE Ok(h)
    BY <1>6 DEF list_recent_decisions
  <2>2. h # Garbled => "decision" \notin DOMAIN h
    BY DEF recent
  <2> QED BY <1>1, <1>2, <2>1, <2>2
<1>7. CASE name = "health"
  <2>1. o = Ok([broker_order_endpoint_present |-> FALSE])
    BY <1>7 DEF call_tool
  <2> QED BY <1>2, <2>1
<1>8. CASE name = "get_market_recommendation"
  <2>1. \E symbol : o \in get_market_recommendation(symbol)
    BY <1>8 DEF call_tool
  <2> QED BY <1>3, <2>1
<1>9. CASE name = "price_option"
  <2>1. \E symbol : o \in price_option(symbol, arguments)
    BY <1>9 DEF call_tool
  <2> QED BY <1>4, <2>1
<1>10. CASE name = "replay_decision"
  <2>1. o = Err("decision_id is required") \/ \E id : o \in replay_decision(id)
    BY <1>10 DEF call_tool
  <2> QED BY <1>1, <1>5, <2>1
<1>11. CASE name = "list_recent_decisions"
  <2>1. \E limit, symbols : o \in list_recent_decisions(limit, symbols)
    BY <1>11 DEF call_tool
  <2> QED BY <1>6, <2>1
<1>12. CASE name = "get_policy_snapshot"
  <2>1. o = Ok([live_execution_allowed |-> FALSE])
    BY <1>12 DEF call_tool
  <2> QED BY <1>2, <2>1
<1>13. CASE name \notin {"health", "get_market_recommendation", "price_option",
                         "replay_decision", "list_recent_decisions", "get_policy_snapshot"}
  <2>1. o = Err("unknown tool")
    BY <1>13 DEF call_tool
  <2> QED BY <1>1, <2>1
<1> QED BY <1>7, <1>8, <1>9, <1>10, <1>11, <1>12, <1>13

(* What a client makes of the result of a tool.                            *)
LEMMA OutcomeOfTool ==
    ASSUME NEW response, NEW text, "error" \notin DOMAIN response
    PROVE  /\ response.result = [text |-> text, isError |-> TRUE] =>
                "ok" \notin DOMAIN Outcome(response)
           /\ response.result = [text |-> text, isError |-> FALSE] =>
                Outcome(response).ok.text = text
<1>1. ASSUME response.result = [text |-> text, isError |-> TRUE]
      PROVE  "ok" \notin DOMAIN Outcome(response)
  <2>1. "isError" \in DOMAIN response.result /\ response.result.isError
    BY <1>1
  <2>2. Outcome(response) = [tool |-> response.result.text]
    BY <2>1, Zenon DEF Outcome
  <2> QED BY <2>2
<1>2. ASSUME response.result = [text |-> text, isError |-> FALSE]
      PROVE  Outcome(response).ok.text = text
  <2>1. ~response.result.isError
    BY <1>2
  <2>2. Outcome(response) = [ok |-> response.result]
    BY <2>1, Zenon DEF Outcome
  <2>3. Outcome(response).ok = response.result
    BY <2>2
  <2>4. response.result.text = text
    BY <1>2
  <2> QED BY <2>3, <2>4
<1> QED BY <1>1, <1>2

(* Whatever a line asks for, its answer tells of stored decisions only.    *)
LEMMA LinesTellTheTruth ==
    ASSUME NEW line, NEW outcome \in handle_line(line)
    PROVE  /\ MayBecome(outcome.rows)
           /\ "response" \in DOMAIN outcome => StoredIn(outcome.response, outcome.rows)
<1> DEFINE Goal == /\ MayBecome(outcome.rows)
                   /\ "response" \in DOMAIN outcome => StoredIn(outcome.response, outcome.rows)
<1>1. ASSUME outcome = Silence PROVE Goal
  BY <1>1 DEF Silence, MayBecome
<1>2. ASSUME NEW id, NEW code, outcome = error_envelope(id, code) PROVE Goal
  <2>1. outcome.rows = rows /\ "error" \in DOMAIN outcome.response
    BY <1>2 DEF error_envelope
  <2>2. "ok" \notin DOMAIN Outcome(outcome.response)
    BY <2>1 DEF Outcome
  <2> QED BY <2>1, <2>2 DEF MayBecome, StoredIn
<1>3. ASSUME NEW id, NEW result, "isError" \notin DOMAIN result, "text" \notin DOMAIN result,
             outcome = success_envelope(id, result, rows)
      PROVE  Goal
  <2>1. /\ outcome.rows = rows
        /\ outcome.response.result = result
        /\ "error" \notin DOMAIN outcome.response
    BY <1>3 DEF success_envelope
  <2>2. Outcome(outcome.response) = [ok |-> result]
    BY <1>3, <2>1 DEF Outcome
  <2> QED BY <1>3, <2>1, <2>2 DEF MayBecome, StoredIn
<1>4. ASSUME NEW id, NEW params, outcome \in tools_call(id, params) PROVE Goal
  <2>1. PICK o \in call_tool(field(params, "name", ""), field(params, "arguments", << >>)) :
            outcome = success_envelope(id, [text |-> o.text, isError |-> o.isError], o.rows)
    BY <1>4 DEF tools_call
  <2>2. /\ MayBecome(o.rows)
        /\ o.isError \in BOOLEAN
        /\ ~o.isError /\ "decision" \in DOMAIN o.text =>
             o.text.decision # Garbled /\ Row(o.text.decision) \in o.rows
    BY ToolsTellTheTruth
  <2>3. /\ outcome.rows = o.rows
        /\ outcome.response.result = [text |-> o.text, isError |-> o.isError]
        /\ "error" \notin DOMAIN outcome.response
    BY <2>1 DEF success_envelope
  <2>4. CASE o.isError = TRUE
    <3>1. "ok" \notin DOMAIN Outcome(outcome.response)
      BY <2>3, <2>4, OutcomeOfTool
    <3> QED BY <2>2, <2>3, <3>1 DEF StoredIn
  <2>5. CASE o.isError = FALSE
    <3>1. Outcome(outcome.response).ok.text = o.text
      BY <2>3, <2>5, OutcomeOfTool
    <3> QED BY <2>2, <2>3, <2>5, <3>1 DEF StoredIn
  <2> QED BY <2>2, <2>4, <2>5
<1>5. ASSUME NEW id, NEW method, NEW params, outcome \in dispatch(id, method, params)
      PROVE  Goal
  <2>1. CASE method = "initialize"
    <3>1. outcome = success_envelope(id, [serverInfo |-> "smart-dynamic-hedge"], rows)
      BY <1>5, <2>1 DEF dispatch
    <3>2. DOMAIN [serverInfo |-> "smart-dynamic-hedge"] = {"serverInfo"}
      OBVIOUS
    <3> QED BY <1>3, <3>1, <3>2
  <2>2. CASE method = "ping"
    <3>1. outcome = success_envelope(id, << >>, rows)
      BY <1>5, <2>2 DEF dispatch
    <3> QED BY <1>3, <3>1, ShortSequences
  <2>3. CASE method = "tools/list"
    <3>1. outcome = success_envelope(id, [tools |-> 6], rows)
      BY <1>5, <2>3 DEF dispatch
    <3>2. DOMAIN [tools |-> 6] = {"tools"}
      OBVIOUS
    <3> QED BY <1>3, <3>1, <3>2
  <2>4. CASE method = "tools/call"
    <3>1. outcome \in tools_call(id, params)
      BY <1>5, <2>4 DEF dispatch
    <3> QED BY <1>4, <3>1
  <2>5. CASE method \notin {"initialize", "ping", "tools/list", "tools/call"}
    <3>1. outcome = error_envelope(id, MethodNotFound)
      BY <1>5, <2>5 DEF dispatch
    <3> QED BY <1>2, <3>1
  <2> QED BY <2>1, <2>2, <2>3, <2>4, <2>5
<1>6. CASE line.kind = "blank"
  <2>1. outcome = Silence
    BY <1>6 DEF handle_line
  <2> QED BY <1>1, <2>1
<1>7. CASE line.kind = "garbage"
  <2>1. outcome = error_envelope(Null, ParseError)
    BY <1>7 DEF handle_line
  <2> QED BY <1>2, <2>1
<1>8. CASE line.kind = "message" /\ field(line, "id", NoId) = NoId
  <2>1. outcome = Silence
    BY <1>8 DEF handle_line
  <2> QED BY <1>1, <2>1
<1>9. CASE /\ line.kind \notin {"blank", "garbage"}
           /\ ~(line.kind = "message" /\ field(line, "id", NoId) = NoId)
  <2>1. handle_line(line) =
            dispatch(line.id, field(line, "method", ""), field(line, "params", << >>))
    BY <1>9 DEF handle_line
  <2> QED BY <1>5, <2>1
<1> QED BY <1>6, <1>7, <1>8, <1>9

(* Every request is answered, under its own number.                        *)
LEMMA DispatchAnswers ==
    ASSUME NEW id, NEW method, NEW params, NEW outcome \in dispatch(id, method, params)
    PROVE  "response" \in DOMAIN outcome /\ outcome.response.id = id
<1> DEFINE Goal == "response" \in DOMAIN outcome /\ outcome.response.id = id
<1>1. ASSUME NEW result, NEW table, outcome = success_envelope(id, result, table) PROVE Goal
  BY <1>1 DEF success_envelope
<1>2. ASSUME NEW code, outcome = error_envelope(id, code) PROVE Goal
  BY <1>2 DEF error_envelope
<1>3. \/ \E result, table : outcome = success_envelope(id, result, table)
      \/ \E code : outcome = error_envelope(id, code)
  <2>1. CASE method = "initialize"
    BY <2>1 DEF dispatch
  <2>2. CASE method = "ping"
    BY <2>2 DEF dispatch
  <2>3. CASE method = "tools/list"
    BY <2>3 DEF dispatch
  <2>4. CASE method = "tools/call"
    <3>1. outcome \in tools_call(id, params)
      BY <2>4 DEF dispatch
    <3> QED BY <3>1 DEF tools_call
  <2>5. CASE method \notin {"initialize", "ping", "tools/list", "tools/call"}
    BY <2>5 DEF dispatch
  <2> QED BY <2>1, <2>2, <2>3, <2>4, <2>5
<1> QED BY <1>1, <1>2, <1>3

(* A request of a client is answered under its number.                     *)
LEMMA RequestsAreAnswered ==
    ASSUME NEW id \in Nat, NEW method, NEW params,
           NEW outcome \in handle_line(request(id, method, params))
    PROVE  "response" \in DOMAIN outcome /\ outcome.response.id = id
<1> DEFINE line == request(id, method, params)
<1>1. /\ line.kind = "message" /\ line.id = id /\ line.method = method /\ line.params = params
      /\ DOMAIN line = {"kind", "id", "method", "params"}
  BY DEF request
<1> HIDE DEF line
<1>2. field(line, "id", NoId) = id /\ field(line, "method", "") = method
      /\ field(line, "params", << >>) = params
  BY <1>1 DEF field
<1>3. id # NoId
  BY MessageAssumption
<1>4. outcome \in dispatch(id, method, params)
  <2>1. handle_line(line) =
            dispatch(line.id, field(line, "method", ""), field(line, "params", << >>))
    BY <1>1, <1>2, <1>3 DEF handle_line
  <2> QED BY <1>1, <1>2, <2>1 DEF line
<1> QED BY <1>4, DispatchAnswers

-----------------------------------------------------------------------------
(* The numbers stay unique: a table grows by one row, under a free number. *)
LEMMA NumbersKept ==
    ASSUME NumbersInv, MayBecome(rows')
    PROVE  NumbersInv' /\ rows \subseteq rows'
<1>1. CASE rows' = rows
  BY <1>1 DEF NumbersInv
<1>2. ASSUME NEW symbol, NEW d \in NewDecisions(symbol), rows' = rows \cup {Row(d)}
      PROVE  NumbersInv' /\ rows \subseteq rows'
  <2>1. Cardinality(rows) \in Nat
    BY FS_CardinalityType DEF NumbersInv
  <2>2. Row(d).decision_id = Cardinality(rows) + 1
    BY RowFields DEF NewDecisions
  <2>3. Row(d) \notin rows
    BY <2>1, <2>2 DEF NumbersInv
  <2>4. IsFiniteSet(rows') /\ Cardinality(rows') = Cardinality(rows) + 1
    BY <1>2, <2>3, FS_AddElement DEF NumbersInv
  <2>5. ASSUME NEW r \in rows' PROVE r.decision_id \in 1 .. Cardinality(rows')
    <3>1. CASE r = Row(d)
      BY <2>1, <2>2, <2>4, <3>1
    <3>2. CASE r \in rows
      BY <2>1, <2>4, <3>2 DEF NumbersInv
    <3> QED BY <1>2, <3>1, <3>2
  <2>6. \A r \in rows : r.decision_id # Row(d).decision_id
    BY <2>1, <2>2 DEF NumbersInv
  <2>7. \A r, t \in rows' : r.decision_id = t.decision_id => r = t
    BY <1>2, <2>6 DEF NumbersInv
  <2> QED BY <1>2, <2>4, <2>5, <2>7 DEF NumbersInv
<1> QED BY <1>1, <1>2 DEF MayBecome

(* What is in a table stays in a larger one.                               *)
LEMMA StaysStored ==
    ASSUME NEW response, NEW table, NEW larger, table \subseteq larger, StoredIn(response, table)
    PROVE  StoredIn(response, larger)
BY DEF StoredIn

(* The hosts are told apart, and a client's requests have numbers.         *)
LEMMA HostFacts ==
    /\ Client(Ready) # NoBody /\ Client(Ready) # Other /\ Client(Ready).client = Ready
    /\ NoBody # Other
    /\ \A m \in ClientRequest :
          /\ Client(m) # NoBody /\ Client(m) # Other /\ Client(m).client = m /\ m # Ready
          /\ m.id \in Nat /\ m.kind = "message"
          /\ m = request(m.id, m.method, m.params)
    /\ request(1, "initialize", << >>) \in ClientRequest
    /\ \A id \in 1 .. MaxCalls : \A tool \in Calls :
          request(id, tool.method, tool.params) \in ClientRequest
<1>1. \A x : Client(x).client = x /\ Client(x) # Other
  <2> SUFFICES ASSUME NEW x PROVE Client(x).client = x /\ Client(x) # Other
    OBVIOUS
  <2>1. Client(x).client = x /\ "client" \in DOMAIN Client(x)
    BY DEF Client
  <2>2. "client" \notin DOMAIN Other
    BY DEF Other
  <2> QED BY <2>1, <2>2
<1>2. ASSUME NEW m \in ClientRequest
      PROVE  /\ m # Ready /\ m.id \in Nat /\ m.kind = "message"
             /\ m = request(m.id, m.method, m.params)
  <2>1. PICK id \in Nat : \E method, params : m = request(id, method, params)
    BY HostAssumption DEF ClientRequest
  <2>2. PICK method, params : m = request(id, method, params)
    BY <2>1
  <2>3. m.id = id /\ m.method = method /\ m.params = params /\ m.kind = "message"
        /\ "kind" \in DOMAIN m
    BY <2>2 DEF request
  <2>4. "kind" \notin DOMAIN Ready
    BY DEF Ready
  <2> QED BY <2>2, <2>3, <2>4
<1>3. \A m \in ClientRequest : Client(m) # NoBody
  BY HostAssumption
<1>4. Client(Ready) # NoBody /\ NoBody # Other
  BY HostAssumption
<1>5. /\ request(1, "initialize", << >>) \in ClientRequest
      /\ \A id \in 1 .. MaxCalls : \A tool \in Calls :
            request(id, tool.method, tool.params) \in ClientRequest
  BY DEF ClientRequest
<1> QED BY <1>1, <1>2, <1>3, <1>4, <1>5

(* Between a client and its server there is one line at most: the request, *)
(* the answer being made, or the answer in the pipe.                       *)
InPipes(message) ==
    \/ stdin = << message >> /\ stdout = << >> /\ server = Reading
    \/ /\ stdin = << >> /\ stdout = << >> /\ server.at = "answering"
       /\ server = Answering(server.response) /\ server.response.id = message.id
    \/ /\ stdin = << >> /\ server \in {Reading, Stopped}
       /\ stdout # << >> /\ stdout = << Head(stdout) >> /\ Head(stdout).id = message.id
    \/ stdin = << >> /\ stdout = << >> /\ server = Stopped

Hosts == {NoBody, Other, Client(Ready)} \cup {Client(m) : m \in ClientRequest}

PipesInv ==
    /\ host \in Hosts
    /\ next_id \in Nat \ {0}
    /\ server \in {Absent, Reading, Stopped} \/ server = Answering(server.response)
    /\ server \in {Absent, Stopped} => stdin = << >>
    /\ host # NoBody => server # Absent
    /\ host = NoBody => stdout = << >>
    /\ host = Client(Ready) => stdin = << >> /\ stdout = << >> /\ server \in {Reading, Stopped}
    /\ \A m \in ClientRequest : host = Client(m) => InPipes(m)

(* What is about to be told, is in the pipe, or was told, is stored.       *)
ToldInv ==
    /\ server.at = "answering" => StoredIn(server.response, rows)
    /\ (\E m \in ClientRequest : host = Client(m)) /\ stdout # << >> =>
          StoredIn(Head(stdout), rows)
    /\ exchange # NoExchange =>
          /\ exchange.outcome = Outcome(exchange.response)
          /\ exchange.response.id = exchange.request.id
          /\ StoredIn(exchange.response, rows)

SessionInv == NumbersInv /\ PipesInv /\ ToldInv

LEMMA ServerStates ==
    /\ Absent # Stopped /\ Absent # Reading /\ Reading # Stopped
    /\ Absent.at = "absent" /\ Reading.at = "reading" /\ Stopped.at = "stopped"
    /\ \A r : /\ Answering(r).at = "answering" /\ Answering(r).response = r
              /\ Answering(r) \notin {Absent, Reading, Stopped}
<1>1. Absent.at = "absent" /\ Reading.at = "reading" /\ Stopped.at = "stopped"
  BY DEF Absent, Reading, Stopped
<1>2. \A r : Answering(r).at = "answering" /\ Answering(r).response = r
  BY DEF Answering
<1> QED BY <1>1, <1>2

(* The server's own steps.                                                 *)
LEMMA ReadLineKeeps ==
    ASSUME SessionInv, ReadLine, UNCHANGED <<host, next_id, exchange>>
    PROVE  SessionInv'
<1>1. PICK outcome \in handle_line(Head(stdin)) :
          /\ rows' = outcome.rows
          /\ server' = IF "response" \in DOMAIN outcome
                       THEN Answering(outcome.response) ELSE Reading
  BY DEF ReadLine
<1>2. /\ server = Reading /\ stdin # << >> /\ stdin' = Tail(stdin) /\ stdout' = stdout
      /\ host' = host /\ next_id' = next_id /\ exchange' = exchange
  BY DEF ReadLine
<1>3. /\ MayBecome(rows')
      /\ "response" \in DOMAIN outcome => StoredIn(outcome.response, rows')
  BY <1>1, LinesTellTheTruth
<1>4. NumbersInv' /\ rows \subseteq rows'
  BY <1>3, NumbersKept DEF SessionInv
<1>5. host # Client(Ready)
  BY <1>2 DEF SessionInv, PipesInv
<1>6. ASSUME NEW m \in ClientRequest, host = Client(m)
      PROVE  InPipes(m)'
  <2>1. stdin = << m >> /\ stdout = << >>
    BY <1>2, <1>6, ServerStates DEF SessionInv, PipesInv, InPipes
  <2>2. Head(stdin) = m /\ stdin' = << >>
    BY <1>2, <2>1, ShortSequences
  <2>3. outcome \in handle_line(request(m.id, m.method, m.params)) /\ m.id \in Nat
    BY <2>2, HostFacts
  <2>4. "response" \in DOMAIN outcome /\ outcome.response.id = m.id
    BY <2>3, RequestsAreAnswered
  <2>5. server' = Answering(outcome.response) /\ server'.response = outcome.response
    BY <1>1, <2>4, ServerStates
  <2> QED BY <1>2, <2>1, <2>2, <2>4, <2>5, ServerStates DEF InPipes
<1>7. (server \in {Reading} \/ server = Answering(server.response))'
  BY <1>1, ServerStates
<1>8. PipesInv'
  BY <1>2, <1>5, <1>6, <1>7, ServerStates DEF SessionInv, PipesInv
<1>9. ToldInv'
  <2>1. server'.at = "answering" => StoredIn(server'.response, rows')
    BY <1>1, <1>3, ServerStates
  <2>2. (\E m \in ClientRequest : host = Client(m)) => stdout = << >>
    BY <1>2, ServerStates DEF SessionInv, PipesInv, InPipes
  <2>3. exchange # NoExchange => StoredIn(exchange.response, rows')
    BY <1>4, StaysStored DEF SessionInv, ToldInv
  <2> QED BY <1>2, <2>1, <2>2, <2>3 DEF SessionInv, ToldInv
<1> QED BY <1>4, <1>8, <1>9 DEF SessionInv

LEMMA ServerStops ==
    ASSUME SessionInv, Stop, server.at # "absent", UNCHANGED <<rows, stdout, host, next_id, exchange>>
    PROVE  SessionInv'
<1>1. server' = Stopped /\ stdin' = << >> /\ server # Absent
  BY ServerStates DEF Stop
<1>2. ASSUME NEW m \in ClientRequest, host = Client(m) PROVE InPipes(m)'
  BY <1>1, <1>2 DEF SessionInv, PipesInv, InPipes
<1>3. PipesInv'
  BY <1>1, <1>2, ServerStates DEF SessionInv, PipesInv
<1>4. ToldInv'
  BY <1>1, ServerStates DEF SessionInv, ToldInv
<1> QED BY <1>3, <1>4 DEF SessionInv, NumbersInv

LEMMA WriteLineKeeps ==
    ASSUME SessionInv, WriteLine(host = NoBody), UNCHANGED <<host, next_id, exchange>>
    PROVE  SessionInv'
<1>1. /\ server.at = "answering" /\ host # NoBody
      /\ stdout' = Append(stdout, server.response) /\ server' = Reading
      /\ rows' = rows /\ stdin' = stdin /\ host' = host /\ next_id' = next_id
      /\ exchange' = exchange
  BY DEF WriteLine
<1>2. server = Answering(server.response)
  BY <1>1, ServerStates DEF SessionInv, PipesInv
<1>3. ASSUME NEW m \in ClientRequest, host = Client(m)
      PROVE  /\ stdin = << >> /\ stdout' = << server.response >>
             /\ server.response.id = m.id
  <2>1. stdin = << >> /\ stdout = << >> /\ server.response.id = m.id
    BY <1>2, <1>3, ServerStates DEF SessionInv, PipesInv, InPipes
  <2> QED BY <1>1, <2>1, ShortSequences
<1>4. ASSUME NEW m \in ClientRequest, host = Client(m) PROVE InPipes(m)'
  <2>1. Head(stdout') = server.response
    BY <1>3, <1>4, ShortSequences
  <2> QED BY <1>1, <1>3, <1>4, <2>1 DEF InPipes
<1>5. host # Client(Ready)
  BY <1>2, ServerStates DEF SessionInv, PipesInv
<1>6. PipesInv'
  BY <1>1, <1>2, <1>4, <1>5, ServerStates DEF SessionInv, PipesInv
<1>7. ToldInv'
  <2>1. (\E m \in ClientRequest : host = Client(m)) => StoredIn(Head(stdout'), rows)
    BY <1>1, <1>3, ShortSequences DEF SessionInv, ToldInv
  <2> QED BY <1>1, <2>1, ServerStates DEF SessionInv, ToldInv
<1> QED BY <1>1, <1>6, <1>7 DEF SessionInv, NumbersInv

LEMMA ServerKeeps ==
    ASSUME SessionInv, ServerStep \/ ServerEnds
    PROVE  SessionInv'
<1>1. UNCHANGED <<host, next_id, exchange>>
  BY DEF ServerStep, ServerEnds
<1>2. CASE ReadLine
  BY <1>1, <1>2, ReadLineKeeps
<1>3. CASE WriteLine(host = NoBody)
  BY <1>1, <1>3, WriteLineKeeps
<1>4. CASE ReadFails \/ WriteFails(host = NoBody) \/ EndOfInput(host = NoBody) \/ ServerDies
  <2>1. Stop /\ server.at # "absent" /\ UNCHANGED <<rows, stdout>>
    BY <1>4, ServerStates DEF ReadFails, WriteFails, EndOfInput, ServerDies
  <2> QED BY <1>1, <2>1, ServerStops
<1> QED BY <1>2, <1>3, <1>4 DEF ServerStep, Serve, ServerEnds

(* The client's steps, and the other host's.                               *)
LEMMA SpawnKeeps == ASSUME SessionInv, Spawn PROVE SessionInv'
<1> DEFINE m0 == request(1, "initialize", << >>)
<1>1. /\ host = NoBody /\ server' = Reading /\ exchange' = NoExchange
      /\ rows' = rows /\ stdout' = stdout
      /\ next_id' = 2 /\ host' = Client(m0) /\ stdin' = << m0 >>
  BY DEF Spawn, NewServer, Send
<1>2. stdout = << >>
  BY <1>1 DEF SessionInv, PipesInv
<1>3. m0 \in ClientRequest
  BY HostFacts
<1> HIDE DEF m0
<1>4. ASSUME NEW m \in ClientRequest, host' = Client(m) PROVE InPipes(m)'
  <2>1. m = m0
    BY <1>1, <1>3, <1>4, HostFacts
  <2> QED BY <1>1, <1>2, <2>1 DEF InPipes
<1>5. host' # Client(Ready) /\ host' # NoBody
  BY <1>1, <1>3, HostFacts
<1>6. PipesInv'
  BY <1>1, <1>3, <1>4, <1>5, ServerStates DEF PipesInv, Hosts
<1>7. ToldInv'
  BY <1>1, <1>2, ServerStates DEF ToldInv
<1> QED BY <1>1, <1>6, <1>7 DEF SessionInv, NumbersInv

LEMMA CallKeeps == ASSUME SessionInv, NEW tool \in Calls, Call(tool) PROVE SessionInv'
<1> DEFINE m1 == request(next_id, tool.method, tool.params)
<1>1. /\ IsReady /\ next_id <= MaxCalls /\ server # Stopped
      /\ next_id' = next_id + 1 /\ host' = Client(m1) /\ stdin' = Append(stdin, m1)
      /\ rows' = rows /\ stdout' = stdout /\ server' = server /\ exchange' = exchange
  BY DEF Call, Send
<1>2. host = Client(Ready)
  BY <1>1, HostFacts DEF SessionInv, PipesInv, Hosts, IsReady, IsClient
<1>3. stdin = << >> /\ stdout = << >> /\ server = Reading
  BY <1>1, <1>2 DEF SessionInv, PipesInv
<1>4. m1 \in ClientRequest
  BY <1>1, HostFacts, HostAssumption DEF SessionInv, PipesInv
<1>5. stdin' = << m1 >>
  BY <1>1, <1>3, ShortSequences
<1> HIDE DEF m1
<1>6. ASSUME NEW m \in ClientRequest, host' = Client(m) PROVE InPipes(m)'
  <2>1. m = m1
    BY <1>1, <1>4, <1>6, HostFacts
  <2> QED BY <1>1, <1>3, <1>5, <2>1 DEF InPipes
<1>7. host' # Client(Ready) /\ host' # NoBody
  BY <1>1, <1>4, HostFacts
<1>8. PipesInv'
  BY <1>1, <1>3, <1>4, <1>6, <1>7, ServerStates DEF SessionInv, PipesInv, Hosts
<1>9. ToldInv'
  BY <1>1, <1>3, ServerStates DEF SessionInv, ToldInv
<1> QED BY <1>1, <1>8, <1>9 DEF SessionInv, NumbersInv

LEMMA TakeAnswerKeeps == ASSUME SessionInv, TakeAnswer PROVE SessionInv'
<1>1. /\ Waits /\ stdout # << >> /\ stdout' = Tail(stdout)
      /\ exchange' = [request |-> host.client, response |-> Head(stdout),
                      outcome |-> Outcome(Head(stdout))]
      /\ host' = Client(Ready)
      /\ rows' = rows /\ stdin' = stdin /\ server' = server /\ next_id' = next_id
  BY DEF TakeAnswer
<1>2. PICK m \in ClientRequest : host = Client(m)
  BY <1>1, HostFacts DEF SessionInv, PipesInv, Hosts, Waits, IsClient
<1>3. /\ stdin = << >> /\ stdout = << Head(stdout) >> /\ server \in {Reading, Stopped}
      /\ Head(stdout).id = m.id
  BY <1>1, <1>2 DEF SessionInv, PipesInv, InPipes
<1>4. stdout' = << >>
  BY <1>1, <1>3, ShortSequences
<1>5. host.client = m
  BY <1>2, HostFacts
<1>6. /\ exchange'.request = m /\ exchange'.response = Head(stdout)
      /\ exchange'.outcome = Outcome(Head(stdout))
  BY <1>1, <1>5
<1>7. StoredIn(Head(stdout), rows)
  BY <1>1, <1>2 DEF SessionInv, ToldInv
<1>8. \A o \in ClientRequest : host' # Client(o)
  BY <1>1, HostFacts
<1>9. host' # NoBody
  BY <1>1, HostFacts
<1>10. PipesInv'
  BY <1>1, <1>3, <1>4, <1>8, <1>9, ServerStates DEF SessionInv, PipesInv, Hosts
<1>11. ToldInv'
  BY <1>1, <1>3, <1>4, <1>6, <1>7, ServerStates DEF SessionInv, ToldInv
<1> QED BY <1>1, <1>10, <1>11 DEF SessionInv, NumbersInv

(* The host is gone: whatever is left is not its business any more.        *)
LEMMA HostGoneKeeps ==
    ASSUME SessionInv, HostGone, UNCHANGED <<rows, exchange>>,
           UNCHANGED <<stdin, server>> \/ (Stop /\ host = Client(Ready))
    PROVE  SessionInv'
<1>1. host' = NoBody /\ stdout' = << >> /\ next_id' = 1
  BY DEF HostGone
<1>2. /\ host' # Client(Ready)
      /\ \A m \in ClientRequest : host' # Client(m)
  BY <1>1, HostFacts
<1>3. CASE UNCHANGED <<stdin, server>>
  <2>1. PipesInv'
    BY <1>1, <1>2, <1>3 DEF SessionInv, PipesInv, Hosts
  <2>2. ToldInv'
    BY <1>1, <1>3 DEF SessionInv, ToldInv
  <2> QED BY <2>1, <2>2 DEF SessionInv, NumbersInv
<1>4. CASE Stop
  <2>1. PipesInv'
    BY <1>1, <1>2, <1>4, ServerStates DEF Stop, SessionInv, PipesInv, Hosts
  <2>2. ToldInv'
    BY <1>1, <1>4, ServerStates DEF Stop, SessionInv, ToldInv
  <2> QED BY <2>1, <2>2 DEF SessionInv, NumbersInv
<1> QED BY <1>3, <1>4

LEMMA OtherKeeps ==
    ASSUME SessionInv, OtherStarts \/ (\E line \in Lines : OtherWrites(line)) \/ OtherReads
    PROVE  SessionInv'
<1>1. /\ host' = Other /\ rows' = rows /\ next_id' = next_id
      /\ exchange' = exchange \/ exchange' = NoExchange
      /\ \/ server' = server
         \/ server' = Reading
      /\ server' \in {Absent, Stopped} => stdin' = stdin
      /\ server' # Absent
  <2>1. CASE OtherStarts
    BY <2>1, ServerStates DEF OtherStarts, NewServer
  <2>2. ASSUME host = Other PROVE server # Absent
    BY <2>2, HostFacts DEF SessionInv, PipesInv
  <2>3. CASE \E line \in Lines : OtherWrites(line)
    BY <2>2, <2>3 DEF OtherWrites
  <2>4. CASE OtherReads
    BY <2>2, <2>4 DEF OtherReads
  <2> QED BY <2>1, <2>3, <2>4
<1>2. /\ host' # Client(Ready) /\ host' # NoBody
      /\ \A m \in ClientRequest : host' # Client(m)
  BY <1>1, HostFacts
<1>3. PipesInv'
  BY <1>1, <1>2, ServerStates DEF SessionInv, PipesInv, Hosts
<1>4. ToldInv'
  BY <1>1, <1>2, ServerStates DEF SessionInv, ToldInv
<1> QED BY <1>1, <1>3, <1>4 DEF SessionInv, NumbersInv

LEMMA SessionAlways == Spec => []SessionInv
<1>1. Init => SessionInv
  <2> SUFFICES ASSUME Init PROVE SessionInv
    OBVIOUS
  <2>1. /\ rows = {} /\ stdin = << >> /\ stdout = << >> /\ server = Absent
        /\ host = NoBody /\ next_id = 1 /\ exchange = NoExchange
    BY DEF Init, ServerInit, StoreInit
  <2>2. NumbersInv
    BY <2>1, FS_EmptySet DEF NumbersInv
  <2>3. /\ host # Client(Ready)
        /\ \A m \in ClientRequest : host # Client(m)
    BY <2>1, HostFacts
  <2>4. PipesInv
    BY <2>1, <2>3 DEF PipesInv, Hosts
  <2>5. ToldInv
    BY <2>1, ServerStates DEF ToldInv
  <2> QED BY <2>2, <2>4, <2>5 DEF SessionInv
<1>2. SessionInv /\ [Next]_vars => SessionInv'
  <2> SUFFICES ASSUME SessionInv, [Next]_vars PROVE SessionInv'
    OBVIOUS
  <2>1. CASE ServerStep \/ ServerEnds
    BY <2>1, ServerKeeps
  <2>2. CASE Spawn
    BY <2>2, SpawnKeeps
  <2>3. ASSUME NEW tool \in Calls, Call(tool) PROVE SessionInv'
    BY <2>3, CallKeeps
  <2>4. CASE TakeAnswer
    BY <2>4, TakeAnswerKeeps
  <2>5. CASE CallFails \/ TakeEof \/ HostDies
    BY <2>5, HostGoneKeeps DEF CallFails, TakeEof, HostDies
  <2>6. CASE DropClient
    <3>1. host = Client(Ready)
      BY <2>6, HostFacts DEF DropClient, IsReady, IsClient, SessionInv, PipesInv, Hosts
    <3> QED BY <2>6, <3>1, HostGoneKeeps DEF DropClient
  <2>7. CASE OtherStarts \/ (\E line \in Lines : OtherWrites(line)) \/ OtherReads
    BY <2>7, OtherKeeps
  <2>8. CASE UNCHANGED vars
    BY <2>8 DEF vars, serverVars, SessionInv, NumbersInv, PipesInv, ToldInv, InPipes
  <2> QED BY <2>1, <2>2, <2>3, <2>4, <2>5, <2>6, <2>7, <2>8 DEF Next
<1> QED BY <1>1, <1>2, PTL DEF Spec

(* "A strict request-then-read-one-line pairing is correct": nobody has to *)
(* compare the number of an answer with the number of its request.         *)
THEOREM AnswersMatch == Spec => []AnswerIsForRequest
<1>1. SessionInv => AnswerIsForRequest
  <2> SUFFICES ASSUME SessionInv PROVE AnswerIsForRequest
    OBVIOUS
  <2>1. IsReady => host = Client(Ready)
    BY HostFacts DEF SessionInv, PipesInv, Hosts, IsReady, IsClient
  <2> QED BY <2>1 DEF AnswerIsForRequest, SessionInv, PipesInv, ToldInv
<1> QED BY <1>1, SessionAlways, PTL

(* ARCHITECTURE, step 6, at the host's end: a decision it was told of      *)
(* replays from the table, whatever happens to the server that told it.    *)
THEOREM ToldReplays == Spec => []ToldIsStored
<1>1. SessionInv => ToldIsStored
  <2> SUFFICES ASSUME SessionInv, exchange # NoExchange,
                      "ok" \in DOMAIN exchange.outcome,
                      "text" \in DOMAIN exchange.outcome.ok,
                      "decision" \in DOMAIN exchange.outcome.ok.text
               PROVE  get(exchange.outcome.ok.text.decision.decision_id)
                        = [payload |-> exchange.outcome.ok.text.decision,
                           stored_content_hash_valid |-> TRUE]
    BY DEF ToldIsStored
  <2> DEFINE decision == exchange.outcome.ok.text.decision
             row == CHOOSE r \in rows : r.decision_id = decision.decision_id
  <2>1. decision # Garbled /\ Row(decision) \in rows
    BY DEF SessionInv, ToldInv, StoredIn
  <2> HIDE DEF decision
  <2>2. row = Row(decision)
    <3>1. Row(decision).decision_id = decision.decision_id
      BY RowFields
    <3>2. row \in rows /\ row.decision_id = decision.decision_id
      BY <2>1, <3>1
    <3> QED BY <2>1, <3>1, <3>2 DEF SessionInv, NumbersInv
  <2>3. ~PrimaryKeyFree(decision.decision_id)
    BY <2>1, RowFields DEF PrimaryKeyFree
  <2>4. row.payload_json = decision /\ row.content_hash = hash_payload(decision)
    BY <2>2, RowFields
  <2> HIDE DEF row
  <2>5. get(decision.decision_id) =
            [payload |-> row.payload_json,
             stored_content_hash_valid |-> hash_payload(row.payload_json) = row.content_hash]
    BY <2>1, <2>3, <2>4 DEF get, row
  <2> QED BY <2>4, <2>5 DEF decision
<1> QED BY <1>1, SessionAlways, PTL

-----------------------------------------------------------------------------
(* The third part: a host that does not wait for its answers.              *)
IsList(s) == \E S : s \in Seq(S)

LEMMA OneSet ==
    ASSUME NEW s, NEW t, IsList(s), IsList(t), NEW x
    PROVE  \E S : s \in Seq(S) /\ t \in Seq(S) /\ x \in S
<1>1. PICK S : s \in Seq(S)
  BY DEF IsList
<1>2. PICK T : t \in Seq(T)
  BY DEF IsList
<1> DEFINE U == S \cup T \cup {x}
<1>3. s \in Seq(U) /\ t \in Seq(U) /\ x \in U
  <2>1. S \subseteq U /\ T \subseteq U /\ x \in U
    OBVIOUS
  <2> HIDE DEF U
  <2> QED BY <1>1, <1>2, <2>1, SeqMonotonic
<1> QED BY <1>3

LEMMA ListFacts ==
    /\ IsList(<< >>)
    /\ Len(<< >>) = 0
    /\ \A x : IsList(<< x >>) /\ Len(<< x >>) = 1
    /\ \A s : IsList(s) => Len(s) \in Nat /\ s \o << >> = s
    /\ \A s, x : IsList(s) => IsList(Append(s, x)) /\ Append(s, x) = s \o << x >>
    /\ \A s, t : IsList(s) /\ IsList(t) => IsList(s \o t)
    /\ \A s, t, u : IsList(s) /\ IsList(t) /\ IsList(u) => (s \o t) \o u = s \o (t \o u)
    /\ \A s : IsList(s) /\ s # << >> =>
          IsList(Tail(s)) /\ s = << Head(s) >> \o Tail(s) /\ Len(s) = Len(Tail(s)) + 1
<1>1. IsList(<< >>) /\ Len(<< >>) = 0
  BY EmptySeq DEF IsList
<1>2. ASSUME NEW x PROVE IsList(<< x >>) /\ Len(<< x >>) = 1
  <2>1. << x >> \in Seq({x})
    OBVIOUS
  <2> QED BY <2>1 DEF IsList
<1>3. ASSUME NEW s, IsList(s) PROVE Len(s) \in Nat /\ s \o << >> = s
  BY <1>3, LenProperties, ConcatEmptySeq DEF IsList
<1>4. ASSUME NEW s, NEW x, IsList(s)
      PROVE  IsList(Append(s, x)) /\ Append(s, x) = s \o << x >>
  <2>1. PICK S : s \in Seq(S) /\ x \in S
    BY <1>4, <1>1, OneSet
  <2> QED BY <2>1, AppendProperties, AppendIsConcat DEF IsList
<1>5. ASSUME NEW s, NEW t, IsList(s), IsList(t) PROVE IsList(s \o t)
  <2>1. PICK S : s \in Seq(S) /\ t \in Seq(S)
    BY <1>5, OneSet
  <2> QED BY <2>1, ConcatProperties DEF IsList
<1>6. ASSUME NEW s, NEW t, NEW u, IsList(s), IsList(t), IsList(u)
      PROVE  (s \o t) \o u = s \o (t \o u)
  <2>1. PICK S : s \in Seq(S) /\ t \in Seq(S)
    BY <1>6, OneSet
  <2>2. PICK T : u \in Seq(T)
    BY <1>6 DEF IsList
  <2> DEFINE U == S \cup T
  <2>3. s \in Seq(U) /\ t \in Seq(U) /\ u \in Seq(U)
    <3>1. S \subseteq U /\ T \subseteq U
      OBVIOUS
    <3> HIDE DEF U
    <3> QED BY <2>1, <2>2, <3>1, SeqMonotonic
  <2> QED BY <2>3, ConcatAssociative
<1>7. ASSUME NEW s, IsList(s), s # << >>
      PROVE  IsList(Tail(s)) /\ s = << Head(s) >> \o Tail(s) /\ Len(s) = Len(Tail(s)) + 1
  <2>1. PICK S : s \in Seq(S)
    BY <1>7 DEF IsList
  <2>2. /\ Head(s) \in S /\ Tail(s) \in Seq(S) /\ Len(Tail(s)) = Len(s) - 1
        /\ \A i \in 1 .. Len(Tail(s)) : Tail(s)[i] = s[i + 1]
    BY <1>7, <2>1, HeadTailProperties
  <2>3. << Head(s) >> \in Seq(S) /\ Len(<< Head(s) >>) = 1 /\ << Head(s) >>[1] = s[1]
    BY <1>7, <2>1, <2>2
  <2> DEFINE h == << Head(s) >>
  <2> HIDE DEF h
  <2>4. /\ h \o Tail(s) \in Seq(S)
        /\ Len(h \o Tail(s)) = Len(h) + Len(Tail(s))
        /\ \A i \in 1 .. Len(h) + Len(Tail(s)) :
              (h \o Tail(s))[i] = IF i <= Len(h) THEN h[i] ELSE Tail(s)[i - Len(h)]
    BY <2>2, <2>3, ConcatProperties DEF h
  <2>5. Len(h) = 1 /\ h[1] = s[1] /\ Len(s) \in Nat
    BY <2>1, <2>3, LenProperties DEF h
  <2>6. ASSUME NEW i \in 1 .. Len(s) PROVE s[i] = (h \o Tail(s))[i]
    <3>1. CASE i = 1
      BY <2>2, <2>4, <2>5, <3>1
    <3>2. CASE i # 1
      <4>1. i - 1 \in 1 .. Len(Tail(s)) /\ (i - 1) + 1 = i
        BY <2>2, <2>5, <3>2
      <4>2. Tail(s)[i - 1] = s[i]
        BY <2>2, <4>1
      <4> QED BY <2>2, <2>4, <2>5, <3>2, <4>2
    <3> QED BY <3>1, <3>2
  <2>7. Len(s) = Len(h \o Tail(s))
    BY <2>2, <2>4, <2>5
  <2>8. s = h \o Tail(s)
    BY <2>1, <2>4, <2>6, <2>7, SeqEqual
  <2> QED BY <2>2, <2>5, <2>8 DEF h, IsList
<1>8. \A s : IsList(s) => Len(s) \in Nat /\ s \o << >> = s
  BY <1>3, Zenon
<1>9. \A s, x : IsList(s) => IsList(Append(s, x)) /\ Append(s, x) = s \o << x >>
  BY <1>4, Zenon
<1>10. \A s, t : IsList(s) /\ IsList(t) => IsList(s \o t)
  BY <1>5, Zenon
<1>11. \A s, t, u : IsList(s) /\ IsList(t) /\ IsList(u) => (s \o t) \o u = s \o (t \o u)
  <2> TAKE s, t, u
  <2> HAVE IsList(s) /\ IsList(t) /\ IsList(u)
  <2> QED BY <1>6
<1>12. \A s : IsList(s) /\ s # << >> =>
          IsList(Tail(s)) /\ s = << Head(s) >> \o Tail(s) /\ Len(s) = Len(Tail(s)) + 1
  BY <1>7, Zenon
<1> QED BY <1>1, <1>2, <1>8, <1>9, <1>10, <1>11, <1>12, Zenon

LEMMA Associative ==
    ASSUME NEW s, NEW t, NEW u, IsList(s), IsList(t), IsList(u)
    PROVE  (s \o t) \o u = s \o (t \o u)
BY ListFacts

(* How many answers are due grows line by line.                            *)
LEMMA DueGrows ==
    ASSUME NEW lines, NEW n \in Nat
    PROVE  /\ IsFiniteSet(Due(lines, n)) /\ Cardinality(Due(lines, n)) \in Nat
           /\ Asks(lines[n + 1]) =>
                /\ Due(lines, n + 1) = Due(lines, n) \cup {n + 1}
                /\ Cardinality(Due(lines, n + 1)) = Cardinality(Due(lines, n)) + 1
           /\ ~Asks(lines[n + 1]) => Due(lines, n + 1) = Due(lines, n)
<1>1. 1 .. n + 1 = (1 .. n) \cup {n + 1} /\ n + 1 \notin 1 .. n
  OBVIOUS
<1>2. IsFiniteSet(Due(lines, n)) /\ Cardinality(Due(lines, n)) \in Nat
  <2>1. IsFiniteSet(1 .. n)
    BY FS_Interval
  <2>2. Due(lines, n) \in SUBSET (1 .. n)
    BY DEF Due
  <2>3. IsFiniteSet(Due(lines, n))
    BY <2>1, <2>2, FS_Subset
  <2> QED BY <2>3, FS_CardinalityType
<1>3. CASE Asks(lines[n + 1])
  <2>1. Due(lines, n + 1) = Due(lines, n) \cup {n + 1} /\ n + 1 \notin Due(lines, n)
      BY <1>1, <1>3 DEF Due
  <2> QED BY <1>2, <1>3, <2>1, FS_AddElement
<1>4. CASE ~Asks(lines[n + 1])
  BY <1>1, <1>2, <1>4 DEF Due
<1> QED BY <1>2, <1>3, <1>4

LEMMA DueLater ==
    ASSUME NEW lines, NEW n \in Nat, NEW m \in Nat, m \in Due(lines, m), n < m
    PROVE  Cardinality(Due(lines, n)) < Cardinality(Due(lines, m))
<1>1. Due(lines, n) \cup {m} \subseteq Due(lines, m) /\ m \notin Due(lines, n)
  BY DEF Due
<1>2. /\ IsFiniteSet(Due(lines, n)) /\ Cardinality(Due(lines, n)) \in Nat
      /\ IsFiniteSet(Due(lines, m)) /\ Cardinality(Due(lines, m)) \in Nat
  BY DueGrows
<1>3. Cardinality(Due(lines, n) \cup {m}) = Cardinality(Due(lines, n)) + 1
  BY <1>1, <1>2, FS_AddElement
<1>4. Cardinality(Due(lines, n) \cup {m}) <= Cardinality(Due(lines, m))
  BY <1>1, <1>2, FS_Subset
<1> QED BY <1>2, <1>3, <1>4

(* What is due for the first lines is the same in a list that begins with  *)
(* them.                                                                   *)
LEMMA DueOfPrefix ==
    ASSUME NEW lines, NEW longer, NEW n \in Nat, \A i \in 1 .. n : longer[i] = lines[i]
    PROVE  \A m \in 0 .. n : Due(longer, m) = Due(lines, m)
BY DEF Due

(* One more line is read, and its answer, if it asks for one, made.        *)
LEMMA InOrderWithLine ==
    ASSUME NEW told, IsList(told), NEW lines, NEW n \in Nat, InOrder(told, lines, n),
           Len(told) = Cardinality(Due(lines, n)), NEW last
    PROVE  /\ Asks(lines[n + 1]) /\ last.id = AskedId(lines[n + 1]) =>
                /\ InOrder(told \o << last >>, lines, n + 1)
                /\ Len(told \o << last >>) = Cardinality(Due(lines, n + 1))
           /\ ~Asks(lines[n + 1]) =>
                /\ InOrder(told, lines, n + 1)
                /\ Len(told) = Cardinality(Due(lines, n + 1))
<1>1. CASE ~Asks(lines[n + 1])
  BY <1>1, DueGrows DEF InOrder
<1>2. ASSUME Asks(lines[n + 1]), last.id = AskedId(lines[n + 1])
      PROVE  /\ InOrder(told \o << last >>, lines, n + 1)
             /\ Len(told \o << last >>) = Cardinality(Due(lines, n + 1))
  <2> DEFINE more == told \o << last >>
             c == Cardinality(Due(lines, n))
  <2>1. PICK S : told \in Seq(S) /\ last \in S
    BY ListFacts, OneSet
  <2>2. /\ Len(more) = Len(told) + 1
        /\ \A i \in 1 .. Len(told) : more[i] = told[i]
        /\ more[Len(told) + 1] = last
    <3>1. more = Append(told, last)
      BY ListFacts
    <3> HIDE DEF more
    <3> QED BY <2>1, <3>1, AppendProperties
  <2>3. /\ Due(lines, n + 1) = Due(lines, n) \cup {n + 1}
        /\ Cardinality(Due(lines, n + 1)) = c + 1 /\ c \in Nat
    BY <1>2, DueGrows
  <2> HIDE DEF more
  <2>4. ASSUME NEW m \in Due(lines, n + 1)
        PROVE  more[Cardinality(Due(lines, m))].id = AskedId(lines[m])
    <3>1. CASE m = n + 1
      BY <1>2, <2>2, <2>3, <3>1
    <3>2. CASE m \in Due(lines, n)
      <4>1. m \in 1 .. n /\ m \in Due(lines, m)
        BY <3>2 DEF Due
      <4>2. Due(lines, m) \subseteq Due(lines, n)
        BY <4>1 DEF Due
      <4>3. /\ IsFiniteSet(Due(lines, n)) /\ IsFiniteSet(Due(lines, m))
            /\ Cardinality(Due(lines, m)) \in Nat
        BY <4>1, DueGrows
      <4>4. Cardinality(Due(lines, m)) <= c
        BY <4>2, <4>3, FS_Subset
      <4>5. Cardinality(Due(lines, m)) # 0
        BY <4>1, <4>3, FS_EmptySet
      <4>6. told[Cardinality(Due(lines, m))].id = AskedId(lines[m])
        BY <3>2, <4>4 DEF InOrder
      <4>7. Cardinality(Due(lines, m)) \in 1 .. Len(told)
        BY <4>3, <4>4, <4>5
      <4> QED BY <2>2, <4>6, <4>7
    <3> QED BY <2>3, <3>1, <3>2
  <2>5. InOrder(more, lines, n + 1)
    BY <2>2, <2>3, <2>4 DEF InOrder
  <2> QED BY <2>2, <2>3, <2>5 DEF more
<1> QED BY <1>1, <1>2

(* Whatever more is read without an answer, and whatever answers at the    *)
(* end are lost, what was told is in order.                                *)
LEMMA InOrderCutShort ==
    ASSUME NEW told, NEW fewer, IsList(told), IsList(fewer), Len(fewer) <= Len(told),
           \A i \in 1 .. Len(fewer) : fewer[i] = told[i],
           NEW lines, NEW n \in Nat, NEW more \in Nat, n <= more, InOrder(told, lines, n)
    PROVE  InOrder(fewer, lines, more)
<1>1. Len(told) \in Nat /\ Len(fewer) \in Nat
  BY ListFacts
<1>2. /\ IsFiniteSet(Due(lines, n)) /\ Cardinality(Due(lines, n)) \in Nat
      /\ IsFiniteSet(Due(lines, more)) /\ Cardinality(Due(lines, more)) \in Nat
  BY DueGrows
<1>3. Due(lines, n) \subseteq Due(lines, more)
  BY DEF Due
<1>4. Cardinality(Due(lines, n)) <= Cardinality(Due(lines, more))
  BY <1>2, <1>3, FS_Subset
<1>5. Len(fewer) <= Cardinality(Due(lines, more))
  BY <1>1, <1>2, <1>4 DEF InOrder
<1>6. ASSUME NEW m \in Due(lines, more), Cardinality(Due(lines, m)) <= Len(fewer)
      PROVE  fewer[Cardinality(Due(lines, m))].id = AskedId(lines[m])
  <2>1. m \in Nat /\ m \in Due(lines, m)
    BY DEF Due
  <2>2. IsFiniteSet(Due(lines, m)) /\ Cardinality(Due(lines, m)) \in Nat
    BY <2>1, DueGrows
  <2>3. m \in Due(lines, n)
    <3>1. CASE m <= n
      BY <3>1 DEF Due
    <3>2. CASE n < m
      <4>1. Cardinality(Due(lines, n)) < Cardinality(Due(lines, m))
        BY <2>1, <3>2, DueLater
      <4> QED BY <1>1, <1>2, <1>6, <2>2, <4>1 DEF InOrder
    <3> QED BY <2>1, <3>1, <3>2
  <2>4. Cardinality(Due(lines, m)) # 0
    BY <2>1, <2>2, FS_EmptySet
  <2>5. Cardinality(Due(lines, m)) \in 1 .. Len(fewer)
    BY <1>1, <1>6, <2>2, <2>4
  <2>6. told[Cardinality(Due(lines, m))].id = AskedId(lines[m])
    BY <1>1, <1>6, <2>2, <2>3 DEF InOrder
  <2> QED BY <2>5, <2>6
<1> QED BY <1>5, <1>6 DEF InOrder

(* A line of a host is answered if it asks for it, under the id it has to.  *)
LEMMA LinesAreAnswered ==
    ASSUME NEW line \in Lines, line.kind # "bytes", NEW outcome \in handle_line(line)
    PROVE  /\ "response" \in DOMAIN outcome <=> Asks(line)
           /\ Asks(line) => outcome.response.id = AskedId(line)
<1>1. line.kind \in {"blank", "garbage", "message"} /\ ("id" \in DOMAIN line => line.kind = "message")
  BY LineAssumption
<1>2. CASE line.kind = "blank"
  <2>1. outcome = Silence /\ ~Asks(line)
    BY <1>1, <1>2 DEF handle_line, Asks, field
  <2> QED BY <2>1 DEF Silence
<1>3. CASE line.kind = "garbage"
  <2>1. outcome = error_envelope(Null, ParseError) /\ Asks(line) /\ AskedId(line) = Null
    BY <1>3 DEF handle_line, Asks, AskedId
  <2> QED BY <2>1 DEF error_envelope
<1>4. CASE line.kind = "message" /\ field(line, "id", NoId) = NoId
  <2>1. outcome = Silence /\ ~Asks(line)
    BY <1>4 DEF handle_line, Asks
  <2> QED BY <2>1 DEF Silence
<1>5. CASE line.kind = "message" /\ field(line, "id", NoId) # NoId
  <2>1. /\ handle_line(line) =
              dispatch(line.id, field(line, "method", ""), field(line, "params", << >>))
        /\ Asks(line) /\ AskedId(line) = line.id
    BY <1>5 DEF handle_line, Asks, AskedId
  <2>2. outcome \in dispatch(line.id, field(line, "method", ""), field(line, "params", << >>))
    BY <2>1
  <2>3. "response" \in DOMAIN outcome /\ outcome.response.id = line.id
    BY <2>2, DispatchAnswers, Zenon
  <2> QED BY <2>1, <2>3
<1> QED BY <1>1, <1>2, <1>3, <1>4, <1>5

(* What a host that does not wait was told, may read, or is about to be    *)
(* told.                                                                   *)
Told ==
    heard \o stdout \o (IF server.at = "answering" THEN << server.response >> ELSE << >>)

(* What is in the pipe to the server are the last lines that were said.    *)
LastAreInPipe ==
    /\ said \in Seq(Lines) /\ stdin \in Seq(Lines) /\ Len(stdin) <= Len(said)
    /\ \A i \in 1 .. Len(stdin) : stdin[i] = said[Len(said) - Len(stdin) + i]

OrderInv ==
    /\ host = NoBody => said = << >> /\ heard = << >>
    /\ host = Other => LastAreInPipe /\ IsList(heard) /\ IsList(stdout)
    /\ AnswersInOrder

LEMMA AnswersTold ==
    AnswersInOrder <=>
        (host = Other =>
            /\ InOrder(Told, said, Len(said) - Len(stdin))
            /\ server # Stopped => Len(Told) = Cardinality(Due(said, Len(said) - Len(stdin))))
BY DEF AnswersInOrder, Told

LEMMA ToldIsList ==
    IsList(heard) /\ IsList(stdout) =>
        /\ IsList(Told)
        /\ server.at # "answering" => Told = heard \o stdout
        /\ server.at = "answering" => Told = (heard \o stdout) \o << server.response >>
<1> SUFFICES ASSUME IsList(heard), IsList(stdout)
             PROVE  /\ IsList(Told)
                    /\ server.at # "answering" => Told = heard \o stdout
                    /\ server.at = "answering" => Told = (heard \o stdout) \o << server.response >>
  OBVIOUS
<1>1. IsList(heard \o stdout)
  BY ListFacts
<1>2. CASE server.at = "answering"
  <2>1. Told = (heard \o stdout) \o << server.response >>
    BY <1>2 DEF Told
  <2>2. IsList(<< server.response >>)
    BY ListFacts
  <2>3. IsList((heard \o stdout) \o << server.response >>)
    BY <1>1, <2>2, ListFacts
  <2> QED BY <1>2, <2>1, <2>3
<1>3. CASE server.at # "answering"
  <2>1. Told = (heard \o stdout) \o << >>
    BY <1>3 DEF Told
  <2>2. (heard \o stdout) \o << >> = heard \o stdout
    BY <1>1, ListFacts
  <2> QED BY <1>1, <1>3, <2>1, <2>2
<1> QED BY <1>2, <1>3

LEMMA OrderReadLine ==
    ASSUME SessionInv, OrderInv, ReadLine, UNCHANGED <<host, said, heard>>
    PROVE  OrderInv'
<1> SUFFICES ASSUME host = Other
             PROVE  /\ LastAreInPipe' /\ IsList(heard') /\ IsList(stdout')
                    /\ AnswersInOrder'
  BY HostFacts, AnswersTold DEF OrderInv, AnswersInOrder
<1> DEFINE line == Head(stdin)
           n == Len(said) - Len(stdin)
<1>1. PICK outcome \in handle_line(line) :
          server' = IF "response" \in DOMAIN outcome
                    THEN Answering(outcome.response) ELSE Reading
  BY DEF ReadLine
<1>2. /\ server = Reading /\ stdin # << >> /\ line.kind # "bytes"
      /\ stdin' = Tail(stdin) /\ stdout' = stdout /\ host' = host /\ said' = said /\ heard' = heard
  BY DEF ReadLine
<1>3. LastAreInPipe /\ IsList(heard) /\ IsList(stdout)
  BY DEF OrderInv
<1>4. /\ Len(said) \in Nat /\ Len(stdin) \in Nat \ {0} /\ n \in Nat
      /\ line \in Lines /\ line = stdin[1] /\ stdin[1] = said[n + 1]
  <2>1. Len(said) \in Nat /\ Len(stdin) \in Nat \ {0}
    BY <1>2, <1>3, EmptySeq, LenProperties DEF LastAreInPipe
  <2>2. line \in Lines /\ line = stdin[1]
    BY <1>2, <1>3, HeadTailProperties DEF LastAreInPipe
  <2> QED BY <1>3, <2>1, <2>2 DEF LastAreInPipe
<1>5. /\ stdin' \in Seq(Lines) /\ Len(stdin') = Len(stdin) - 1
      /\ \A i \in 1 .. Len(stdin') : stdin'[i] = stdin[i + 1]
  BY <1>2, <1>3, HeadTailProperties DEF LastAreInPipe
<1>6. LastAreInPipe'
  <2>1. ASSUME NEW i \in 1 .. Len(stdin')
        PROVE  stdin'[i] = said[Len(said) - Len(stdin') + i]
    <3>1. i + 1 \in 1 .. Len(stdin) /\ n + (i + 1) = Len(said) - Len(stdin') + i
      BY <1>4, <1>5
    <3>2. stdin[i + 1] = said[n + (i + 1)]
      BY <1>3, <3>1 DEF LastAreInPipe
    <3> QED BY <1>5, <3>1, <3>2
  <2> QED BY <1>2, <1>3, <1>4, <1>5, <2>1 DEF LastAreInPipe
<1>7. Len(said') - Len(stdin') = n + 1
  BY <1>2, <1>4, <1>5
<1>8. /\ "response" \in DOMAIN outcome <=> Asks(said[n + 1])
      /\ Asks(said[n + 1]) => outcome.response.id = AskedId(said[n + 1])
  BY <1>2, <1>4, LinesAreAnswered
<1>9. /\ InOrder(Told, said, n) /\ Len(Told) = Cardinality(Due(said, n))
      /\ IsList(Told) /\ Told = heard \o stdout
  <2>1. server # Stopped /\ server.at # "answering"
    BY <1>2, ServerStates
  <2> QED BY <1>3, <2>1, AnswersTold, ToldIsList DEF OrderInv
<1> HIDE DEF n, line
<1>10. InOrder(Told', said, n + 1) /\ Len(Told') = Cardinality(Due(said, n + 1))
  <2>1. CASE Asks(said[n + 1])
    <3>1. server'.at = "answering" /\ server'.response = outcome.response
      BY <1>1, <1>8, <2>1, ServerStates
    <3>2. Told' = Told \o << outcome.response >>
      BY <1>2, <1>9, <3>1 DEF Told
    <3>3. /\ InOrder(Told \o << outcome.response >>, said, n + 1)
          /\ Len(Told \o << outcome.response >>) = Cardinality(Due(said, n + 1))
      <4> DEFINE last == outcome.response
      <4>1. n \in Nat /\ last.id = AskedId(said[n + 1])
        BY <1>4, <1>8, <2>1
      <4> HIDE DEF last
      <4>2. /\ InOrder(Told \o << last >>, said, n + 1)
            /\ Len(Told \o << last >>) = Cardinality(Due(said, n + 1))
        BY <1>9, <2>1, <4>1, InOrderWithLine
      <4> QED BY <4>2 DEF last
    <3> QED BY <3>2, <3>3, Zenon
  <2>2. CASE ~Asks(said[n + 1])
    <3>1. server'.at # "answering"
      BY <1>1, <1>8, <2>2, ServerStates
    <3>2. Told' = (heard \o stdout) \o << >>
      BY <1>2, <3>1 DEF Told
    <3>3. Told' = Told
      BY <1>9, <3>2, ListFacts
    <3> QED BY <1>4, <1>9, <2>2, <3>3, InOrderWithLine
  <2> QED BY <2>1, <2>2
<1>11. AnswersInOrder'
  <2>1. (AnswersInOrder <=>
            (host = Other =>
                /\ InOrder(Told, said, Len(said) - Len(stdin))
                /\ server # Stopped =>
                     Len(Told) = Cardinality(Due(said, Len(said) - Len(stdin)))))'
    BY AnswersTold, PTL
  <2> QED BY <1>2, <1>7, <1>10, <2>1
<1> QED BY <1>2, <1>3, <1>6, <1>11

(* A server that stops leaves out the answer it was making, at most, and   *)
(* the lines it has not read.                                              *)
LEMMA OrderStops ==
    ASSUME SessionInv, OrderInv, Stop, UNCHANGED <<stdout, host, said, heard>>
    PROVE  OrderInv'
<1> SUFFICES ASSUME host = Other
             PROVE  LastAreInPipe' /\ IsList(heard') /\ IsList(stdout') /\ AnswersInOrder'
  BY HostFacts, AnswersTold DEF OrderInv, AnswersInOrder
<1> DEFINE n == Len(said) - Len(stdin)
           fewer == heard \o stdout
<1>1. /\ server' = Stopped /\ stdin' = << >> /\ stdout' = stdout /\ host' = host
      /\ said' = said /\ heard' = heard
  BY DEF Stop
<1>2. LastAreInPipe /\ IsList(heard) /\ IsList(stdout) /\ InOrder(Told, said, n)
  BY AnswersTold DEF OrderInv
<1>3. Len(said) \in Nat /\ n \in Nat /\ n <= Len(said) /\ Len(stdin') = 0
  BY <1>1, <1>2, EmptySeq, LenProperties DEF LastAreInPipe
<1>4. LastAreInPipe'
  BY <1>1, <1>2, <1>3, EmptySeq DEF LastAreInPipe
<1>5. IsList(Told) /\ IsList(fewer)
  BY <1>2, ToldIsList, ListFacts
<1>6. Len(fewer) <= Len(Told) /\ \A i \in 1 .. Len(fewer) : fewer[i] = Told[i]
  <2>1. CASE server.at # "answering"
    <3>1. Told = fewer /\ Len(fewer) \in Nat
      BY <1>2, <1>5, <2>1, ToldIsList, ListFacts
    <3> QED BY <3>1
  <2>2. CASE server.at = "answering"
    <3> DEFINE last == server.response
    <3>1. Told = fewer \o << last >>
      BY <1>2, <2>2, ToldIsList
    <3> HIDE DEF last, fewer
    <3>2. PICK S : fewer \in Seq(S) /\ last \in S
      BY <1>5, OneSet
    <3>3. Told = Append(fewer, last)
      BY <1>5, <3>1, ListFacts
    <3> QED BY <3>2, <3>3, AppendProperties, LenProperties
  <2> QED BY <2>1, <2>2
<1>7. Told' = fewer
  <2>1. Told' = fewer \o << >>
    BY <1>1, ServerStates DEF Told
  <2> QED BY <1>5, <2>1, ListFacts
<1> HIDE DEF n, fewer
<1>8. InOrder(fewer, said, Len(said))
  BY <1>2, <1>3, <1>5, <1>6, InOrderCutShort
<1>9. AnswersInOrder'
  <2>1. (AnswersInOrder <=>
            (host = Other =>
                /\ InOrder(Told, said, Len(said) - Len(stdin))
                /\ server # Stopped =>
                     Len(Told) = Cardinality(Due(said, Len(said) - Len(stdin)))))'
    BY AnswersTold, PTL
  <2>2. Len(said') - Len(stdin') = Len(said)
    BY <1>1, <1>3
  <2>3. InOrder(Told', said', Len(said') - Len(stdin'))
    BY <1>1, <1>7, <1>8, <2>2
  <2> QED BY <1>1, <2>1, <2>3
<1> QED BY <1>1, <1>2, <1>4, <1>9

(* An answer goes from the server to the pipe, and from there to the host. *)
LEMMA OrderMoves ==
    ASSUME SessionInv, OrderInv, host = Other,
           \/ WriteLine(host = NoBody) /\ UNCHANGED <<host, said, heard>>
           \/ OtherReads
    PROVE  OrderInv'
<1>1. host' = Other /\ said' = said /\ stdin' = stdin
  BY DEF WriteLine, OtherReads
<1>2. LastAreInPipe /\ IsList(heard) /\ IsList(stdout)
  BY DEF OrderInv
<1>3. LastAreInPipe'
  BY <1>1, <1>2 DEF LastAreInPipe
<1>4. /\ IsList(heard') /\ IsList(stdout') /\ Told' = Told
      /\ server' # Stopped => server # Stopped
  <2>1. CASE WriteLine(host = NoBody) /\ UNCHANGED <<host, said, heard>>
    <3> DEFINE last == server.response
    <3>1. /\ server.at = "answering" /\ server' = Reading /\ heard' = heard
          /\ stdout' = Append(stdout, last)
      BY <2>1 DEF WriteLine
    <3>2. Told = (heard \o stdout) \o << last >>
      BY <1>2, <3>1, ToldIsList
    <3> HIDE DEF last
    <3>3. IsList(stdout') /\ stdout' = stdout \o << last >> /\ IsList(<< last >>)
      BY <1>2, <3>1, ListFacts
    <3>4. (heard \o stdout) \o << last >> = heard \o stdout'
      <4>1. (heard \o stdout) \o << last >> = heard \o (stdout \o << last >>)
        <5> DEFINE only == << last >>
        <5>1. IsList(only)
          BY <3>3
        <5> HIDE DEF only
        <5>2. (heard \o stdout) \o only = heard \o (stdout \o only)
          BY <1>2, <5>1, Associative
        <5> QED BY <5>2 DEF only
      <4> QED BY <3>3, <4>1
    <3>5. Told' = heard \o stdout'
      <4>1. Told' = (heard \o stdout') \o << >>
        BY <3>1, ServerStates DEF Told
      <4>2. IsList(heard \o stdout')
        BY <1>2, <3>3, ListFacts
      <4> QED BY <4>1, <4>2, ListFacts
    <3>6. server # Stopped
      BY <3>1, ServerStates
    <3> QED BY <1>2, <3>1, <3>2, <3>3, <3>4, <3>5, <3>6
  <2>2. CASE OtherReads
    <3> DEFINE first == Head(stdout)
               rest == Tail(stdout)
               next == IF server.at = "answering" THEN << server.response >> ELSE << >>
    <3>1. /\ stdout # << >> /\ stdout' = rest /\ heard' = Append(heard, first)
          /\ server' = server
      BY <2>2 DEF OtherReads
    <3>2. IsList(rest) /\ stdout = << first >> \o rest
      BY <1>2, <3>1, ListFacts
    <3>3. Told = (heard \o stdout) \o next /\ Told' = (heard' \o rest) \o next
      BY <3>1 DEF Told
    <3> HIDE DEF first, rest, next
    <3>4. IsList(heard') /\ heard' = heard \o << first >> /\ IsList(<< first >>)
      BY <1>2, <3>1, ListFacts
    <3>5. (heard \o << first >>) \o rest = heard \o (<< first >> \o rest)
      <4> DEFINE only == << first >>
      <4>1. IsList(only)
        BY <3>4
      <4> HIDE DEF only
      <4>2. (heard \o only) \o rest = heard \o (only \o rest)
        BY <1>2, <3>2, <4>1, Associative
      <4> QED BY <4>2 DEF only
    <3> QED BY <3>1, <3>2, <3>3, <3>4, <3>5
  <2> QED BY <2>1, <2>2
<1>5. AnswersInOrder'
  <2>1. (AnswersInOrder <=>
            (host = Other =>
                /\ InOrder(Told, said, Len(said) - Len(stdin))
                /\ server # Stopped =>
                     Len(Told) = Cardinality(Due(said, Len(said) - Len(stdin)))))'
    BY AnswersTold, PTL
  <2> QED BY <1>1, <1>4, <2>1, AnswersTold DEF OrderInv
<1> QED BY <1>1, <1>3, <1>4, <1>5, HostFacts DEF OrderInv

LEMMA OrderOtherWrites ==
    ASSUME SessionInv, OrderInv, NEW line \in Lines, OtherWrites(line)
    PROVE  OrderInv'
<1> DEFINE n == Len(said) - Len(stdin)
<1>1. /\ host = Other /\ host' = Other /\ server' = server /\ stdout' = stdout /\ heard' = heard
      /\ stdin' = Append(stdin, line) /\ said' = Append(said, line)
  BY DEF OtherWrites
<1>2. LastAreInPipe /\ IsList(heard) /\ IsList(stdout)
  BY <1>1 DEF OrderInv
<1>3. /\ Len(said) \in Nat /\ Len(stdin) \in Nat /\ n \in Nat /\ n <= Len(said)
      /\ stdin' \in Seq(Lines) /\ said' \in Seq(Lines)
      /\ Len(stdin') = Len(stdin) + 1 /\ Len(said') = Len(said) + 1
      /\ \A i \in 1 .. Len(stdin) : stdin'[i] = stdin[i]
      /\ \A i \in 1 .. Len(said) : said'[i] = said[i]
      /\ stdin'[Len(stdin) + 1] = line /\ said'[Len(said) + 1] = line
  BY <1>1, <1>2, AppendProperties, LenProperties DEF LastAreInPipe
<1>4. Len(said') - Len(stdin') = n
  BY <1>3
<1>5. LastAreInPipe'
  <2>1. ASSUME NEW i \in 1 .. Len(stdin')
        PROVE  stdin'[i] = said'[Len(said') - Len(stdin') + i]
    <3>1. CASE i = Len(stdin) + 1
      <4>1. Len(said') - Len(stdin') + i = Len(said) + 1
        BY <1>3, <3>1
      <4> QED BY <1>3, <3>1, <4>1
    <3>2. CASE i # Len(stdin) + 1
      <4>1. i \in 1 .. Len(stdin) /\ n + i \in 1 .. Len(said)
        BY <1>3, <3>2
      <4>2. stdin[i] = said[n + i]
        BY <1>2, <4>1 DEF LastAreInPipe
      <4> QED BY <1>3, <1>4, <4>1, <4>2
    <3> QED BY <3>1, <3>2
  <2> QED BY <1>3, <2>1 DEF LastAreInPipe
<1>6. Told' = Told
  BY <1>1 DEF Told
<1> HIDE DEF n
<1>7. \A m \in 0 .. n : Due(said', m) = Due(said, m)
  <2>1. \A i \in 1 .. n : said'[i] = said[i]
    BY <1>3
  <2> QED BY <1>3, <2>1, DueOfPrefix
<1>8. InOrder(Told, said, n) => InOrder(Told, said', n)
  <2> SUFFICES ASSUME InOrder(Told, said, n) PROVE InOrder(Told, said', n)
    OBVIOUS
  <2>1. Due(said', n) = Due(said, n)
    BY <1>3, <1>7
  <2>2. ASSUME NEW m \in Due(said', n), Cardinality(Due(said', m)) <= Len(Told)
        PROVE  Told[Cardinality(Due(said', m))].id = AskedId(said'[m])
    <3>1. m \in 1 .. n /\ m \in Due(said, n)
      BY <2>1 DEF Due
    <3>2. Due(said', m) = Due(said, m) /\ said'[m] = said[m]
      BY <1>3, <1>7, <3>1
    <3>3. Told[Cardinality(Due(said, m))].id = AskedId(said[m])
      BY <2>2, <3>1, <3>2 DEF InOrder
    <3> QED BY <3>2, <3>3
  <2> QED BY <2>1, <2>2 DEF InOrder
<1>9. AnswersInOrder'
  <2>1. (AnswersInOrder <=>
            (host = Other =>
                /\ InOrder(Told, said, Len(said) - Len(stdin))
                /\ server # Stopped =>
                     Len(Told) = Cardinality(Due(said, Len(said) - Len(stdin)))))'
    BY AnswersTold, PTL
  <2>2. /\ InOrder(Told, said, n)
        /\ server # Stopped => Len(Told) = Cardinality(Due(said, n))
    BY <1>1, AnswersTold DEF OrderInv, n
  <2>3. Due(said', n) = Due(said, n)
    BY <1>3, <1>7
  <2> QED BY <1>1, <1>4, <1>6, <1>8, <2>1, <2>2, <2>3
<1> QED BY <1>1, <1>2, <1>5, <1>9, HostFacts DEF OrderInv

LEMMA OrderOtherStarts ==
    ASSUME SessionInv, OrderInv, OtherStarts
    PROVE  OrderInv'
<1>1. /\ host = NoBody /\ host' = Other /\ server' = Reading /\ server \in {Absent, Stopped}
      /\ stdin' = stdin /\ stdout' = stdout /\ said' = said /\ heard' = heard
  BY DEF OtherStarts, NewServer
<1>2. stdin' = << >> /\ stdout' = << >> /\ said' = << >> /\ heard' = << >>
  BY <1>1 DEF OrderInv, SessionInv, PipesInv
<1>3. IsList(heard') /\ IsList(stdout') /\ IsList(heard' \o stdout')
  BY <1>2, ListFacts
<1>4. Len(said') = 0 /\ Len(stdin') = 0 /\ said' \in Seq(Lines) /\ stdin' \in Seq(Lines)
  BY <1>2, EmptySeq
<1>5. LastAreInPipe'
  BY <1>4 DEF LastAreInPipe
<1>6. Told' = << >>
  <2>1. Told' = (heard' \o stdout') \o << >>
    BY <1>1, ServerStates DEF Told
  <2>2. heard' \o stdout' = << >>
    <3>1. heard' \o stdout' = heard' \o << >>
      BY <1>2
    <3> QED BY <1>2, <1>3, <3>1, ListFacts
  <2> QED BY <1>3, <2>1, <2>2, ListFacts
<1>7. Len(said') - Len(stdin') = 0 /\ Len(Told') = 0
  BY <1>4, <1>6, ListFacts
<1>8. Due(said', 0) = {} /\ Cardinality({}) = 0
  BY FS_EmptySet DEF Due
<1>9. InOrder(Told', said', 0)
  BY <1>7, <1>8 DEF InOrder
<1>10. AnswersInOrder'
  <2>1. (AnswersInOrder <=>
            (host = Other =>
                /\ InOrder(Told, said, Len(said) - Len(stdin))
                /\ server # Stopped =>
                     Len(Told) = Cardinality(Due(said, Len(said) - Len(stdin)))))'
    BY AnswersTold, PTL
  <2> QED BY <1>7, <1>8, <1>9, <2>1
<1> QED BY <1>1, <1>3, <1>5, <1>10, HostFacts DEF OrderInv

(* The steps of a client, and the end of any host.                         *)
LEMMA OrderOfOthers ==
    ASSUME OrderInv, host' # Other,
           host' = NoBody => (said' = << >> /\ heard' = << >>) \/ UNCHANGED <<host, said, heard>>
    PROVE  OrderInv'
BY DEF OrderInv, AnswersInOrder

LEMMA OrderKept ==
    ASSUME SessionInv, OrderInv, [Next]_vars
    PROVE  OrderInv'
<1>1. CASE ServerStep \/ ServerEnds
  <2>1. UNCHANGED <<host, said, heard>>
    BY <1>1 DEF ServerStep, ServerEnds
  <2>2. CASE ReadLine
    BY <2>1, <2>2, OrderReadLine
  <2>3. CASE WriteLine(host = NoBody)
    <3>1. CASE host = Other
      BY <2>1, <2>3, <3>1, OrderMoves
    <3>2. CASE host # Other
      BY <2>1, <3>2, OrderOfOthers
    <3> QED BY <3>1, <3>2
  <2>4. CASE ReadFails \/ WriteFails(host = NoBody) \/ EndOfInput(host = NoBody) \/ ServerDies
    BY <2>1, <2>4, OrderStops DEF ReadFails, WriteFails, EndOfInput, ServerDies
  <2> QED BY <1>1, <2>2, <2>3, <2>4 DEF ServerStep, Serve, ServerEnds
<1>2. CASE Spawn \/ TakeAnswer \/ \E tool \in Calls : Call(tool)
  <2>1. \E m : host' = Client(m) /\ m \in ClientRequest \cup {Ready}
    <3>1. CASE Spawn
      BY <3>1, HostFacts DEF Spawn, Send
    <3>2. CASE TakeAnswer
      BY <3>2 DEF TakeAnswer
    <3>3. ASSUME NEW tool \in Calls, Call(tool) PROVE host' \in {Client(m) : m \in ClientRequest}
      <4>1. next_id \in 1 .. MaxCalls
        BY <3>3, HostAssumption DEF Call, SessionInv, PipesInv
      <4> QED BY <3>3, <4>1, HostFacts DEF Call, Send
    <3> QED BY <1>2, <3>1, <3>2, <3>3
  <2>2. host' # Other /\ host' # NoBody
    BY <2>1, HostFacts
  <2> QED BY <2>2, OrderOfOthers
<1>3. CASE CallFails \/ TakeEof \/ DropClient \/ HostDies
  <2>1. host' = NoBody /\ said' = << >> /\ heard' = << >>
    BY <1>3 DEF CallFails, TakeEof, DropClient, HostDies, HostGone
  <2> QED BY <2>1, HostFacts, OrderOfOthers
<1>4. CASE OtherStarts
  BY <1>4, OrderOtherStarts
<1>5. ASSUME NEW line \in Lines, OtherWrites(line) PROVE OrderInv'
  BY <1>5, OrderOtherWrites
<1>6. CASE OtherReads
  BY <1>6, OrderMoves DEF OtherReads
<1>7. CASE UNCHANGED vars
  BY <1>7 DEF vars, serverVars, OrderInv, AnswersInOrder, LastAreInPipe
<1> QED BY <1>1, <1>2, <1>3, <1>4, <1>5, <1>6, <1>7 DEF Next

(* JSON-RPC 2.0, of run_stdio and handle_line: whatever a host pipelines,  *)
(* each line that asks for an answer gets one, in the order of the lines.  *)
THEOREM AnswersKeepOrder == Spec => []AnswersInOrder
<1>1. Init => OrderInv
  BY HostFacts DEF Init, OrderInv, AnswersInOrder
<1>2. SessionInv /\ OrderInv /\ [Next]_vars => OrderInv'
  BY OrderKept
<1>3. OrderInv => AnswersInOrder
  BY DEF OrderInv
<1> QED BY <1>1, <1>2, <1>3, SessionAlways, PTL DEF Spec
=============================================================================
