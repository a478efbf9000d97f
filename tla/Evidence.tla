-------------------------------- MODULE Evidence --------------------------------
(***************************************************************************)
(* Items of evidence, and how a row of the evidence file, an observation   *)
(* of FRED and an entry of a feed become one.  None of the three sources   *)
(* can fail a snapshot: what goes wrong becomes an item of its own, or      *)
(* nothing.                                                                *)
(*                                                                         *)
(* Identifiers are tuples of what the code formats into one string, texts  *)
(* sequences of words, qualities and values hundredths.  Cutting a long    *)
(* text short is left out.                                                 *)
(***************************************************************************)
EXTENDS Integers, SequencesExt, FeedText

CONSTANTS
    Absent, Null, Mistyped,   \* a key that is not there, null, or not of its type
    True, False, Zero,        \* true, false and 0, as JSON has them
    NoData,                   \* the "." of an observation without a value
    Reason,                   \* words of the error of a request, the other side's among them:
                              \* it names the address it was redirected to
    MAX_SERIES, MAX_FEEDS, MAX_ITEMS   \* 20, 10 and 20 in the code

ASSUME CapAssumption == {MAX_SERIES, MAX_FEEDS, MAX_ITEMS} \subseteq Nat

EvidenceItem(id, kind, title, text, value, quality, untrusted) ==
    [evidence_id |-> id, kind |-> kind, title |-> title, text |-> text,
     value |-> value, quality |-> quality, untrusted_text |-> untrusted]

Clamp(v, lo, hi) == Max({lo, Min({v, hi})})

IsSequence(s) == s \in Seq(Range(s))

(* The members of S up to n, the smallest first: the places of a list at   *)
(* which a filter leaves something.                                        *)
Ascending(S, n) ==
    LET up[k \in 0 .. n] ==
            IF k = 0 THEN <<>> ELSE IF k \in S THEN Append(up[k - 1], k) ELSE up[k - 1]
    IN  up[n]

-----------------------------------------------------------------------------
(* The evidence file.  Whatever is wrong with it, it is read as no rows.   *)
NoFile == [state |-> "unreadable", rows |-> <<>>]

(* row_applies_to_symbol, in any case of letters.                          *)
row_applies_to_symbol(row, symbol) ==
    \/ row.symbols \in {Absent, Mistyped}
    \/ row.symbols = {}
    \/ row.symbols \cap {"*", symbol} # {}

Mut_TrustUnlessMarked(row) == row.untrusted_text = True

(* Untrusted unless the row says false, or zero.                           *)
IsUntrusted(row) == row.untrusted_text \notin {False, Zero}

Given_or(v, default) == IF v = Absent THEN default ELSE v

FileItem(row, index) ==
    EvidenceItem(
        IF row.evidence_id \in {Absent, Null, ""} THEN <<"file", index>>
        ELSE <<"own", row.evidence_id>>,
        Given_or(row.kind, "external"),
        row.title, row.text, Given_or(row.value, Null),
        IF row.quality \in {Absent, Null, Mistyped} THEN 50 ELSE Clamp(row.quality, 0, 100),
        IsUntrusted(row))

(* load_evidence_file: the rows that are objects and about the symbol.     *)
load_evidence_file(file, symbol) ==
    LET Kept(row) == IF row = Mistyped THEN FALSE ELSE row_applies_to_symbol(row, symbol)
        kept == Ascending({i \in DOMAIN file.rows : Kept(file.rows[i])}, Len(file.rows))
    IN  [k \in DOMAIN kept |-> FileItem(file.rows[kept[k]], kept[k] - 1)]

-----------------------------------------------------------------------------
(* FRED: one item for a series, whether it answers or not.                 *)
FredError(series) ==
    EvidenceItem(<<"fred-error", series>>, "data_quality", <<"retrieval error", series>>,
                 Reason, Null, 100, FALSE)

missing_key_evidence ==
    EvidenceItem(<<"fred-missing-key">>, "data_quality", <<"connector disabled">>,
                 <<"no key">>, Null, 100, FALSE)

(* The first observation, if the answer has one: "." stands for no data.    *)
observation_evidence(series, observation) ==
    EvidenceItem(<<"fred", series, IF observation.date = Absent THEN "latest" ELSE observation.date>>,
                 "macro", <<"FRED", series>>, <<>>,
                 IF observation.value \in {Absent, Null, Mistyped, NoData} THEN Null
                 ELSE observation.value,
                 90, FALSE)

-----------------------------------------------------------------------------
(* Feeds: an item for an entry, or one for a feed that cannot be fetched.   *)
FeedError(feed) ==
    EvidenceItem(<<"rss-error", feed - 1>>, "data_quality", <<"retrieval error">>,
                 Reason, Null, 100, FALSE)

entry_evidence(feed, index, symbol, entry) ==
    EvidenceItem(<<"rss", feed - 1, index - 1>>, "news",
                 <<symbol>> \o (IF entry.title = <<>> THEN <<"RSS item">> ELSE entry.title),
                 entry.description, Null, 45, TRUE)

FeedItems(feed, symbol, doc, max_items_per_feed) ==
    LET entries == extract_feed_entries(doc, Clamp(max_items_per_feed, 0, MAX_ITEMS))
    IN  [i \in DOMAIN entries |-> entry_evidence(feed, i, symbol, entries[i])]

capped(list, limit) == UpTo(limit, list)
=================================================================================
