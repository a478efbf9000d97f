--------------------------- MODULE DecisionHistory ---------------------------
(***************************************************************************)
(* The decision store as its users meet it: any number of processes append *)
(* to it and read it back, while the file may be damaged behind its back   *)
(* (THREAT_MODEL, "Tampering with decision history").                      *)
(***************************************************************************)
EXTENDS DecisionStore

CONSTANTS
    Decision,    \* payloads a process may append; two may carry one identifier
    Symbol,
    Limits,      \* limits asked of recent()
    NoAnswer,    \* nothing was read by the last step
    NoHash,      \* a content_hash that is the digest of no payload
    MaxDamaged   \* bound: rows that are changed from outside, once each

ASSUME DecisionAssumption ==
    /\ \A p \in Decision : p.created_at \in Int /\ p # Garbled
    /\ \A p \in Decision \cup {Garbled} : hash_payload(p) # NoHash

ASSUME LimitAssumption == Limits \subseteq Int

(* What a read answers differs from what it says when it finds nothing.    *)
ASSUME AnswerAssumption ==
    /\ NotFound # Garbled
    /\ \A p \in Decision, valid \in BOOLEAN :
          [payload |-> p, stored_content_hash_valid |-> valid] \notin {NotFound, Garbled}

VARIABLES
    appended,    \* history: the payloads append() accepted
    damaged,     \* history: identifiers of the rows changed from outside
    asked,       \* what the last read asked for
    answer       \* what it was told

historyVars == <<rows, appended, damaged, asked, answer>>

Ids == {p.decision_id : p \in Decision}

HistoryInit ==
    /\ StoreInit
    /\ appended = {}
    /\ damaged = {}
    /\ asked = NoAnswer
    /\ answer = NoAnswer

NothingRead == asked' = NoAnswer /\ answer' = NoAnswer

AppendDecision(p) ==
    /\ AppendRow(p)
    /\ appended' = appended \cup {p}
    /\ NothingRead
    /\ UNCHANGED damaged

(* Rows that need have no more in common with this one than the key.       *)
Resembling(row) ==
    [decision_id  : {row.decision_id},
     created_at   : {p.created_at : p \in Decision},
     symbol       : Symbol,
     content_hash : {hash_payload(p) : p \in Decision} \cup {NoHash},
     payload_json : Decision \cup {Garbled}]

(* Any columns of a row but its key are changed by something else than the *)
(* program: half a page lost, a stray UPDATE, somebody who rewrites the    *)
(* text together with its hash.  No row is taken away.                      *)
Damage(row) ==
    /\ row.decision_id \notin damaged /\ Cardinality(damaged) < MaxDamaged
    /\ \E changed \in Resembling(row) : rows' = (rows \ {row}) \cup {changed}
    /\ damaged' = damaged \cup {row.decision_id}
    /\ NothingRead
    /\ UNCHANGED appended

Replay(id) ==
    /\ asked' = [id |-> id]
    /\ answer' = get(id)
    /\ UNCHANGED <<rows, appended, damaged>>

Recent(limit, symbols) ==
    /\ asked' = [limit |-> limit, symbols |-> symbols]
    /\ answer' \in recent(limit, symbols)
    /\ UNCHANGED <<rows, appended, damaged>>

HistoryNext ==
    \/ \E p \in Decision : AppendDecision(p)
    \/ \E row \in rows : Damage(row)
    \/ \E id \in Ids : Replay(id)
    \/ \E limit \in Limits, symbols \in {Symbol} \cup {{s} : s \in Symbol} :
          Recent(limit, symbols)

HistorySpec == HistoryInit /\ [][HistoryNext]_historyVars

-----------------------------------------------------------------------------
IsReplay == answer # NoAnswer /\ "id" \in DOMAIN asked
IsHistory == answer # NoAnswer /\ "limit" \in DOMAIN asked

(* A column of the row of p is as it was appended.                         *)
Kept(p, column) ==
    \E row \in rows : row.decision_id = p.decision_id /\ row[column] = Row(p)[column]

(* What a replay may say of the row of p.                                  *)
RightAbout(p, told) ==
    /\ Kept(p, "payload_json") /\ Kept(p, "content_hash") =>
          told.stored_content_hash_valid /\ told.payload = p
    /\ Kept(p, "payload_json") # Kept(p, "content_hash") => ~told.stored_content_hash_valid

(* LLR-072: an identifier is unknown exactly when nothing was appended     *)
(* under it; a replay whose row kept its text and its hash is valid and    *)
(* returns what was appended, and one whose row lost either of the two is  *)
(* not, whatever became of the other columns.  A text and a hash changed   *)
(* together may pass: THREAT_MODEL.md:66-68 says so.                       *)
ReplayVerdictIsRight ==
    IsReplay =>
        LET original == {p \in appended : p.decision_id = asked.id}
        IN  /\ answer = NotFound <=> original = {}
            /\ answer \notin {NotFound, Garbled} =>
                 \A p \in original : RightAbout(p, answer)

(* While nothing is damaged, a history is the newest decisions asked for:  *)
(* in order, as many as the limit allows, and none left out that is newer  *)
(* than one shown (a busy symbol cannot crowd another one out).            *)
HistoryIsNewest ==
    IsHistory /\ damaged = {} =>
        LET shown == ToSet(answer.history)
            wanted == {p \in appended : p.symbol \in asked.symbols}
        IN  /\ shown \subseteq wanted
            /\ \A p \in wanted \ shown, q \in shown : p.created_at <= q.created_at
            /\ \A i, j \in DOMAIN answer.history : i < j =>
                  answer.history[i].created_at >= answer.history[j].created_at
            /\ Len(answer.history) =
                  IF Cardinality(wanted) < ClampedLimit(asked.limit)
                  THEN Cardinality(wanted) ELSE ClampedLimit(asked.limit)

(* HLR-060, immutability: an appended decision keeps its row, untouched by *)
(* whatever the program does later, a second append of its identifier      *)
(* included.                                                               *)
AppendedIsImmutable ==
    \A p \in appended : p.decision_id \in damaged \/ Row(p) \in rows

(* LLR-072, of every read: a decision that is read back is one that was    *)
(* appended, or the reader is told that it is not.                         *)
HistoryIsVerified ==
    IsHistory /\ answer # Garbled => ToSet(answer.history) \subseteq appended
=============================================================================
