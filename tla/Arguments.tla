------------------------------- MODULE Arguments -------------------------------
(***************************************************************************)
(* The command line: one pass removes --config from wherever it stands,    *)
(* the first of the remaining tokens is the command, and FlagCursor reads  *)
(* the rest as pairs of a flag and its value, in order.  A token is        *)
(*                                                                         *)
(*   [form |-> "word", text]              anything without leading dashes  *)
(*   [form |-> "flag", name, text]        --name                           *)
(*   [form |-> "pair", name, value, text] --name=value                     *)
(*                                                                         *)
(* Whatever follows a flag is its value, dashes or not.  A value is a      *)
(* text; Float gives the number of those texts that name one.              *)
(***************************************************************************)
EXTENDS Results, Integers, Sequences, SequencesExt

CONSTANTS
    Float,       \* texts that parse as an f64 |-> the number
    WholeTexts,  \* those of them that parse as an i64
    Upper(_),    \* str::to_uppercase
    U32Max       \* (the model's own: TLC's integers have 32 bits)

ASSUME TextAssumption == WholeTexts \subseteq DOMAIN Float /\ U32Max \in Nat

-----------------------------------------------------------------------------
Within(v, low, high) == IF v < low THEN low ELSE IF v > high THEN high ELSE v

Overrides == {"symbol", "strike", "vol", "days", "current-shares", "contracts"}
Siblings == {"intelligence-binary", "guard-binary"}

(* The flags each command's closure has an arm for.                        *)
Known == [name \in {"once", "loop", "replay", "recent", "self-test", "serve", "guard-demo",
                    "portfolio", "backtest", "autonomous"} |->
    CASE name = "once" -> Overrides \cup {"model"}
      [] name = "loop" -> Overrides \cup {"model", "interval"}
      [] name \in {"replay", "portfolio"} -> {}
      [] name = "recent" -> {"limit", "symbol"}
      [] name = "self-test" -> {"symbol"}
      [] name = "serve" -> {"host", "port"}
      [] name = "guard-demo" -> Overrides \cup Siblings
      [] name = "backtest" -> {"symbol", "days", "start"}
      [] name = "autonomous" -> Overrides \cup Siblings \cup
            {"model", "interval", "max-iterations", "max-consecutive-errors", "stop-file"}]

(* parse_f64, parse_i64 with the clamps of the call, and the port's u16.   *)
Number(text, integral, low, high) ==
    IF text \notin DOMAIN Float \/ (integral /\ text \notin WholeTexts) THEN Fail("InvalidNumber")
    ELSE [value |-> IF integral THEN Within(Float[text], low, high) ELSE Float[text]]

(* What an arm makes of its value.                                         *)
Take(command, name, text) ==
    CASE name = "days" /\ command = "backtest" -> Number(text, TRUE, 0, 100000)
      [] name \in {"strike", "vol", "days", "current-shares", "interval"} ->
            Number(text, FALSE, 0, 0)
      [] name \in {"contracts", "limit"} -> Number(text, TRUE, -2147483647, 2147483647)
      [] name = "max-iterations" -> Number(text, TRUE, 0, U32Max)
      [] name = "max-consecutive-errors" -> Number(text, TRUE, 1, U32Max)
      [] name = "port" ->
            IF text \in WholeTexts /\ Float[text] \in 0..65535
            THEN [value |-> Float[text]] ELSE Fail("InvalidNumber")
      [] OTHER -> [value |-> text]

-----------------------------------------------------------------------------
(* FlagCursor::run: a pair that is not known, or whose value is refused,   *)
(* ends it; a flag waits for the token after it, and is judged with it.    *)
Cursor == [waiting |-> None, taken |-> <<>>, positionals |-> <<>>]

Handle(command, cursor, name, text) ==
    LET taken == Take(command, name, text)
    IN  IF name \notin Known[command] THEN Fail("UnknownFlag")
        ELSE IF Failed(taken) THEN taken
        ELSE [cursor EXCEPT !.waiting = None, !.taken = (name :> taken.value) @@ @]

Mut_FirstWins(command, tail) ==
    LET Step(cursor, token) ==
            IF Failed(cursor) THEN cursor
            ELSE IF Given(cursor.waiting)
            THEN LET next == Handle(command, cursor, Value(cursor.waiting), token.text)
                 IN  IF Failed(next) THEN next ELSE [next EXCEPT !.taken = cursor.taken @@ @]
            ELSE CASE token.form = "pair" -> Handle(command, cursor, token.name, token.value)
                   [] token.form = "flag" -> [cursor EXCEPT !.waiting = Some(token.name)]
                   [] token.form = "word" -> [cursor EXCEPT !.positionals = Append(@, token.text)]
        end == FoldLeft(Step, Cursor, tail)
    IN  IF ~Failed(end) /\ Given(end.waiting) THEN Fail("MissingValueFor") ELSE end

Run(command, tail) ==
    LET Step(cursor, token) ==
            IF Failed(cursor) THEN cursor
            ELSE IF Given(cursor.waiting)
            THEN Handle(command, cursor, Value(cursor.waiting), token.text)
            ELSE CASE token.form = "pair" -> Handle(command, cursor, token.name, token.value)
                   [] token.form = "flag" -> [cursor EXCEPT !.waiting = Some(token.name)]
                   [] token.form = "word" -> [cursor EXCEPT !.positionals = Append(@, token.text)]
        end == FoldLeft(Step, Cursor, tail)
    IN  IF ~Failed(end) /\ Given(end.waiting) THEN Fail("MissingValueFor") ELSE end

(* The first pass: --config and its value are taken out, the last one      *)
(* counts, and it does not see that it may stand for another flag's value. *)
WithoutConfig(argv) ==
    LET Step(scan, token) ==
            IF scan.waiting THEN [scan EXCEPT !.waiting = FALSE, !.config = Some(token.text)]
            ELSE IF token.form = "flag" /\ token.name = "config" THEN [scan EXCEPT !.waiting = TRUE]
            ELSE IF token.form = "pair" /\ token.name = "config"
            THEN [scan EXCEPT !.config = Some(token.value)]
            ELSE [scan EXCEPT !.rest = Append(@, token)]
    IN  FoldLeft(Step, [waiting |-> FALSE, config |-> None, rest |-> <<>>], argv)

(* What a command starts from where a flag is not given.                   *)
Default(command, name) ==
    CASE name = "symbol" -> IF command = "recent" THEN None ELSE Some("SPY")
      [] name = "interval" -> Some(15)
      [] name = "limit" -> Some(20)
      [] name = "days" /\ command = "backtest" -> Some(30)
      [] name = "max-consecutive-errors" -> Some(3)
      [] OTHER -> None

Field(command, taken, name) ==
    IF name \notin DOMAIN taken THEN Default(command, name)
    ELSE IF name # "symbol" THEN Some(taken[name])
    ELSE IF command = "recent" /\ taken[name] = "" THEN None ELSE Some(Upper(taken[name]))

(* parse_args.  build-core and mcp look at nothing after their name.       *)
parse_args(argv) ==
    LET scan == WithoutConfig(argv)
        command == scan.rest[1].text
        read == Run(command, Tail(scan.rest))
        Parsed(fields, positionals) ==
            [config |-> scan.config, command |-> command, fields |-> fields,
             positionals |-> positionals]
    IN  IF scan.waiting THEN Fail("MissingValueFor")
        ELSE IF scan.rest = <<>> THEN Fail("MissingCommand")
        ELSE IF command \in {"build-core", "mcp"} THEN Parsed(<<>>, <<>>)
        ELSE IF command \notin DOMAIN Known THEN Fail("UnknownCommand")
        ELSE IF Failed(read) THEN read
        ELSE IF command = "replay" /\ read.positionals = <<>> THEN Fail("MissingPositional")
        ELSE Parsed([name \in Known[command] |-> Field(command, read.taken, name)],
                    IF command = "portfolio"
                    THEN [i \in DOMAIN read.positionals |-> Upper(read.positionals[i])]
                    ELSE read.positionals)

-----------------------------------------------------------------------------
(* What a command line says, without a pass over it: the places where its  *)
(* pieces start are the one set of places closed under "the next piece".   *)
Starts(tail) ==
    LET Width(i) == IF tail[i].form = "flag" THEN 2 ELSE 1
    IN  CHOOSE places \in SUBSET (1..Len(tail)) :
            \A i \in 1..Len(tail) :
                i \in places <=> (i = 1 \/ \E j \in places : j < i /\ j + Width(j) = i)

SaidAt(tail, i) ==
    [name |-> tail[i].name,
     text |-> IF tail[i].form = "pair" THEN tail[i].value ELSE tail[i + 1].text]

(* Every flag has its value and a command that takes it, every number is   *)
(* one, and each flag means what its last mention says.                    *)
MeansItsTail(command, tail, parsed) ==
    LET flags == {i \in Starts(tail) : tail[i].form # "word"}
        Complete(i) == tail[i].form = "flag" => i < Len(tail)
        Sound(i) == /\ Complete(i)
                    /\ tail[i].name \in Known[command]
                    /\ ~Failed(Take(command, tail[i].name, SaidAt(tail, i).text))
        words == SelectSeq([i \in DOMAIN tail |-> IF i \in Starts(tail) \ flags
                                                  THEN tail[i].text ELSE "-"],
                           LAMBDA t : t # "-")
    IN  IF \E i \in flags : ~Sound(i) THEN Failed(parsed)
        ELSE IF command = "replay" /\ words = <<>> THEN Failed(parsed)
        ELSE /\ ~Failed(parsed)
             /\ \A name \in Known[command] :
                    LET said == {i \in flags : tail[i].name = name}
                    IN  parsed.fields[name] =
                            IF said = {} THEN Default(command, name)
                            ELSE LET last == CHOOSE i \in said : \A j \in said : j <= i
                                 IN  Field(command,
                                           name :> Take(command, name, SaidAt(tail, last).text).value,
                                           name)
             /\ Len(parsed.positionals) = Len(words)
================================================================================
