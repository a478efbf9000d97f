-------------------------------- MODULE FeedText --------------------------------
(***************************************************************************)
(* How the entries of an RSS or an Atom feed are found in its text.        *)
(*                                                                         *)
(* A document is a sequence of pieces of markup.  A tag has a name and a   *)
(* prefix; a text or a CDATA section stands for the words it decodes to,   *)
(* and has no bracket and no markup of its own; a comment holds an open tag *)
(* and no end tag; a declaration is a DOCTYPE with an internal subset      *)
(* ("subset") or without one ("declaration").                              *)
(***************************************************************************)
EXTENDS Naturals, Sequences, FiniteSetsExt, Results

CONSTANT Longer(_)   \* the names that begin with a name and go on

Pieces ==
    {"open", "close", "empty", "text", "cdata", "comment", "declaration", "subset"}

Piece(kind, name) == [kind |-> kind, name |-> name, prefix |-> ""]

First(S) == IF S = {} THEN None ELSE Some(Min(S))

(* skip_special looks for a subset behind the start of any declaration, and *)
(* so for the first bracket in the rest of the document: a declaration      *)
(* without a subset swallows everything up to the first section with one.   *)
Swallowed(doc) ==
    UNION {LET bracketed == {j \in DOMAIN doc : j > i /\ doc[j].kind \in {"cdata", "subset"}}
           IN  IF bracketed = {} THEN {} ELSE i .. Min(bracketed) :
              i \in {j \in DOMAIN doc : doc[j].kind = "declaration"}}

(* next_open_tag, of those with one of the names, whatever the prefix.     *)
next_open_tag(doc, from, names) ==
    First({i \in DOMAIN doc \ Swallowed(doc) :
              i >= from /\ doc[i].kind \in {"open", "empty"} /\ doc[i].name \in names})

(* An end tag is looked for without the delimiter behind its name: one that *)
(* goes on where the name of the tag ends will do, whether it goes on with *)
(* more of a name or is the prefix of another.                             *)
PassesFor(end, tag) ==
    LET started == {tag.name} \cup Longer(tag.name)
    IN  \/ end.prefix = tag.prefix /\ end.name \in started
        \/ tag.prefix = "" /\ end.prefix \in started

CloseOf(doc, i) ==
    First({j \in DOMAIN doc : j > i /\ doc[j].kind = "close" /\ PassesFor(doc[j], doc[i])})

(* find_first_matching_element: what the element contains, nothing if it is *)
(* not there, empty or never closed.                                       *)
Element(block, names) ==
    LET tag   == next_open_tag(block, 1, names)
        close == CloseOf(block, Value(tag))
    IN  IF ~Given(tag) THEN <<>>
        ELSE IF block[Value(tag)].kind = "empty" \/ ~Given(close) THEN <<>>
        ELSE SelectSeq(SubSeq(block, Value(tag) + 1, Value(close) - 1),
                       LAMBDA piece : piece.kind \in {"text", "cdata"})

Words(pieces) == [i \in DOMAIN pieces |-> pieces[i].name]

FeedEntry(block) ==
    [title       |-> Words(Element(block, {"title"})),
     description |-> Words(Element(block, {"description", "summary"}))]

(* extract_blocks: one block after another.  A block that is never closed  *)
(* ends the search, one that is empty by its tag is passed over.            *)
extract_blocks(doc, name) ==
    LET found[from \in 1 .. Len(doc) + 1] ==
            LET tag   == next_open_tag(doc, from, {name})
                close == CloseOf(doc, Value(tag))
            IN  IF ~Given(tag) THEN <<>>
                ELSE IF doc[Value(tag)].kind = "empty" THEN found[Value(tag) + 1]
                ELSE IF ~Given(close) THEN <<>>
                ELSE <<FeedEntry(SubSeq(doc, Value(tag) + 1, Value(close) - 1))>>
                     \o found[Value(close) + 1]
    IN  found[1]

UpTo(n, s) == SubSeq(s, 1, Min({n, Len(s)}))

Mut_ItemsOnly(doc, max_items) == UpTo(max_items, extract_blocks(doc, "item"))

(* Items if there are any, else entries, and at most so many.              *)
extract_feed_entries(doc, max_items) ==
    LET items == UpTo(max_items, extract_blocks(doc, "item"))
    IN  IF items # <<>> THEN items ELSE UpTo(max_items, extract_blocks(doc, "entry"))

-----------------------------------------------------------------------------
(* What a feed is meant to say, and the text a site makes of it; in every   *)
(* entry may be other elements in front of those that are read.            *)
Rendered(name, words, kind) ==
    IF words = <<>> THEN <<>>
    ELSE <<Piece("open", name)>> \o [i \in DOMAIN words |-> Piece(kind, words[i])]
         \o <<Piece("close", name)>>

Feed(prolog, name, kind, within, entries) ==
    LET Block(e) == <<Piece("open", name)>> \o within \o Rendered("title", e.title, kind)
                    \o Rendered("description", e.description, kind) \o <<Piece("close", name)>>
        blocks[i \in 0 .. Len(entries)] ==
            IF i = 0 THEN <<>> ELSE blocks[i - 1] \o Block(entries[i])
    IN  prolog \o <<Piece("open", "rss"), Piece("comment", "item"), Piece("open", "title"),
                    Piece("text", "channel"), Piece("close", "title"), Piece("empty", name)>>
        \o blocks[Len(entries)] \o <<Piece("close", "rss")>>
=================================================================================
