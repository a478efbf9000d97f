------------------------------ MODULE HttpRequest ------------------------------
(***************************************************************************)
(* What the dashboard reads from a connection: read_request, and the       *)
(* readers of a query.  A text is a sequence of pieces: words, and the     *)
(* characters that decoding looks at.  The request line and the headers    *)
(* are given as they fall apart at their separators.                       *)
(***************************************************************************)
EXTENDS Integers, SequencesExt

CONSTANTS
    MAX_HEADER_BYTES,   \* 16384 in the code
    MAX_HEADERS,        \* 100 in the code
    MAX_SYMBOL,         \* 12 in the code
    SymbolPieces,       \* the pieces a symbol may be made of
    Escape,             \* the piece that two hexadecimal digits stand for
    Numeral             \* the integer a text stands for, for texts of digits

ASSUME NumeralAssumption == \A text \in DOMAIN Numeral : Numeral[text] \in Int

Malformed == [malformed |-> TRUE]
Missing == <<"no such parameter">>

SizeOf(lines) == FoldLeft(LAMBDA sum, line : sum + line.bytes, 0, lines)

(* percent_decode: a sign that no two digits follow stays what it is.      *)
percent_decode(text) ==
    LET from[i \in 1 .. Len(text) + 1] ==
            IF i > Len(text) THEN <<>>
            ELSE IF text[i] = "+" THEN <<" ">> \o from[i + 1]
            ELSE IF /\ text[i] = "%" /\ i + 2 <= Len(text)
                    /\ <<text[i + 1], text[i + 2]>> \in DOMAIN Escape
                 THEN <<Escape[<<text[i + 1], text[i + 2]>>]>> \o from[i + 3]
            ELSE <<text[i]>> \o from[i + 1]
    IN  from[1]

(* parse_query: of two values for a key the later one holds.               *)
parse_query(pairs) ==
    FoldLeft(LAMBDA query, pair :
                 (percent_decode(pair.key) :> percent_decode(pair.value)) @@ query,
             <<>>, pairs)

(* read_request: a line of less than two words is malformed; the headers   *)
(* are counted one by one, and their bytes with those of the request line. *)
read_request(raw) ==
    IF \/ raw.words < 2
       \/ SizeOf(raw.headers) + raw.bytes > MAX_HEADER_BYTES
       \/ Len(raw.headers) > MAX_HEADERS
    THEN Malformed
    ELSE [method |-> raw.method, path |-> raw.path, query |-> parse_query(raw.pairs)]

Parameter(request, key) ==
    IF <<key>> \in DOMAIN request.query THEN request.query[<<key>>] ELSE Missing

valid_symbol(text) == Len(text) \in 1 .. MAX_SYMBOL /\ Range(text) \subseteq SymbolPieces

parse_bool_flag(text) == text \in {<<"true">>, <<"1">>, <<"yes">>, <<"True">>, <<"TRUE">>}

parse_positive_i64(text, default) == IF text \in DOMAIN Numeral THEN Numeral[text] ELSE default
================================================================================
