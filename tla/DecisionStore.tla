---------------------------- MODULE DecisionStore ----------------------------
(***************************************************************************)
(* The SQLite table of decisions.  Every operation opens a connection of   *)
(* its own, so each is one atomic step on the table, whichever thread or   *)
(* process performs it; new() creates what is missing and changes nothing  *)
(* else, so a restart keeps the rows.                                      *)
(*                                                                         *)
(* A stored text stands for the JSON value it parses to.  The hash is taken *)
(* over the canonical form of that value, so a text that differs in layout *)
(* only is the same payload here as it is to the code.                     *)
(***************************************************************************)
EXTENDS Integers, FiniteSets, SequencesExt

CONSTANTS
    Garbled,    \* a stored text that is not JSON
    NotFound,   \* get's answer for an identifier without a row
    MaxRecent   \* the largest limit recent() accepts, 200 in the code

ASSUME RecentAssumption == MaxRecent \in Nat \ {0}

VARIABLE rows   \* the table: a set of rows

(* SHA-256 of the canonical form, collisions aside.                         *)
hash_payload(payload) == [sha256 |-> payload]

Row(payload) ==
    [decision_id  |-> payload.decision_id,
     created_at   |-> payload.created_at,
     symbol       |-> payload.symbol,
     content_hash |-> hash_payload(payload),
     payload_json |-> payload]

StoreInit == rows = {}

PrimaryKeyFree(id) == \A r \in rows : r.decision_id # id

Mut_InsertOrReplace(payload) ==
    rows' = {r \in rows : r.decision_id # payload.decision_id} \cup {Row(payload)}

AppendRow(payload) ==
    /\ PrimaryKeyFree(payload.decision_id)
    /\ rows' = rows \cup {Row(payload)}

Mut_TrustStoredHash(id) ==
    LET row == CHOOSE r \in rows : r.decision_id = id
    IN  IF PrimaryKeyFree(id) THEN NotFound
        ELSE IF row.payload_json = Garbled THEN Garbled
        ELSE [payload |-> row.payload_json, stored_content_hash_valid |-> TRUE]

(* get: the stored payload, with the verdict on its re-computed hash.       *)
get(id) ==
    LET row == CHOOSE r \in rows : r.decision_id = id
    IN  IF PrimaryKeyFree(id) THEN NotFound
        ELSE IF row.payload_json = Garbled THEN Garbled
        ELSE [payload |-> row.payload_json,
              stored_content_hash_valid |->
                  hash_payload(row.payload_json) = row.content_hash]

(* An unreasonable limit is brought into range.                            *)
ClampedLimit(limit) ==
    IF limit < 1 THEN 1 ELSE IF limit > MaxRecent THEN MaxRecent ELSE limit

(* The first limit rows of some order that puts the newest first; rows of  *)
(* the same time may come in either order.                                 *)
NewestFirst(candidates, limit) ==
    LET orders == {s \in SetToSeqs(candidates) :
                      \A i, j \in DOMAIN s : i < j => s[i].created_at >= s[j].created_at}
    IN  {SubSeq(s, 1, IF Len(s) < limit THEN Len(s) ELSE limit) : s \in orders}

Mut_LimitBeforeSymbol(limit, symbols) ==
    LET Wanted(row) == row.symbol \in symbols
    IN  {SelectSeq(s, Wanted) : s \in NewestFirst(rows, ClampedLimit(limit))}

(* The rows recent() may select, for one symbol ({symbol}) or for all.     *)
SelectRecent(limit, symbols) ==
    NewestFirst({r \in rows : r.symbol \in symbols}, ClampedLimit(limit))

(* recent: the payloads of the selected rows as they are stored, or nothing *)
(* at all when one of them is not JSON.                                    *)
recent(limit, symbols) ==
    {IF \E i \in DOMAIN s : s[i].payload_json = Garbled THEN Garbled
     ELSE [history |-> [i \in DOMAIN s |-> s[i].payload_json]] :
        s \in SelectRecent(limit, symbols)}
=============================================================================
