------------------------------ MODULE McpServer ------------------------------
(***************************************************************************)
(* The program as an MCP server on its standard input and output: one line *)
(* is one JSON-RPC message, handled to its end before the next is read.    *)
(*                                                                         *)
(* What a tool computes is its outcomes here (the modules Engine and       *)
(* DecisionStore have the insides): its text, whether it failed, and the   *)
(* table of decisions it leaves behind.  A line is                         *)
(*   blank      nothing but white space                                    *)
(*   garbage    text that is not JSON                                      *)
(*   bytes      not UTF-8                                                  *)
(*   message    a JSON value; one that is not an object with an "id", an   *)
(*              array of messages too, has none of the fields              *)
(***************************************************************************)
EXTENDS DecisionStore

CONSTANTS
    Upper,             \* to_uppercase, on the symbols a host may name
    Contracts,         \* the configured contracts, by symbol
    NoId,              \* a message without an "id"
    Null,              \* the id of an answer to what cannot be read
    NoDecision,        \* the empty identifier
    Mistyped,          \* an argument of another type than the tool's
    MaxDecisions       \* bound: decisions the engine makes

(* The numbers a client gives its requests are not the absence of one, and *)
(* a decision is JSON.                                                     *)
ASSUME MessageAssumption ==
    /\ NoId \notin Nat
    /\ Garbled \notin [decision_id : 1 .. MaxDecisions, created_at : 1 .. MaxDecisions,
                       symbol : DOMAIN Contracts]

VARIABLES
    stdin, stdout,     \* the two pipes
    server             \* what the process is doing

serverVars == <<rows, stdin, stdout, server>>

Reading == [at |-> "reading"]
Stopped == [at |-> "stopped"]
Absent == [at |-> "absent"]
Answering(response) == [at |-> "answering", response |-> response]

ServerInit ==
    /\ StoreInit
    /\ stdin = <<>>
    /\ stdout = <<>>
    /\ server = Absent

-----------------------------------------------------------------------------
(* The tools.                                                              *)
Ok(text) == [text |-> text, isError |-> FALSE, rows |-> rows]
Err(why) == [text |-> [failure |-> why], isError |-> TRUE, rows |-> rows]

(* arg_str, arg_f64, arg_i64: what is missing or of another type has its   *)
(* default.                                                                *)
arg(arguments, key, default) ==
    IF key \in DOMAIN arguments /\ arguments[key] # Mistyped THEN arguments[key] ELSE default

(* The decisions the engine may make next.                                 *)
NewDecisions(symbol) ==
    {d \in [decision_id : 1 .. MaxDecisions, created_at : 1 .. MaxDecisions,
            symbol : {symbol} \cap DOMAIN Contracts] :
        d.decision_id = Cardinality(rows) + 1 /\ d.created_at = d.decision_id}

Mut_TellBeforeStoring(symbol) ==
    {Err("no recommendation")} \cup {Ok([decision |-> d]) : d \in NewDecisions(symbol)}

(* The engine fails at any of its steps, or has stored the decision.       *)
get_market_recommendation(symbol) ==
    {Err("no recommendation")} \cup
    {[text |-> [decision |-> d], isError |-> FALSE, rows |-> rows \cup {Row(d)}] :
        d \in NewDecisions(symbol)}

(* The contract priced: the symbol's own, or the defaults of one, under    *)
(* everything the host may say, and never with a date of expiry.           *)
build_contract(symbol, arguments) ==
    LET base == IF symbol \in DOMAIN Contracts THEN Contracts[symbol]
                ELSE [multiplier |-> 100, band |-> 0, days |-> 30, contracts |-> 0, expiry |-> Null]
    IN  [base EXCEPT !.days = arg(arguments, "days_to_expiry", 30),
                     !.contracts = arg(arguments, "contracts", 1),
                     !.expiry = Null]

(* The core alone: no market data, no adviser, nothing stored.             *)
price_option(symbol, arguments) ==
    {Err("core"), Ok([priced |-> build_contract(symbol, arguments)])}

replay_decision(id) ==
    {IF get(id) \in {NotFound, Garbled} THEN Err("not found") ELSE Ok([replay |-> get(id)])}

list_recent_decisions(limit, symbols) ==
    {IF h = Garbled THEN Err("not JSON") ELSE Ok(h) : h \in recent(limit, symbols)}

call_tool(name, arguments) ==
    LET symbol == Upper[arg(arguments, "symbol", "SPY")]
        filter == arg(arguments, "symbol", "")
        id == arg(arguments, "decision_id", NoDecision)
    IN  CASE name = "health" -> {Ok([broker_order_endpoint_present |-> FALSE])}
          [] name = "get_market_recommendation" -> get_market_recommendation(symbol)
          [] name = "price_option" -> price_option(symbol, arguments)
          [] name = "replay_decision" ->
                IF id = NoDecision THEN {Err("decision_id is required")} ELSE replay_decision(id)
          [] name = "list_recent_decisions" ->
                list_recent_decisions(arg(arguments, "limit", 10),
                                      IF filter = "" THEN DOMAIN Contracts ELSE {Upper[filter]})
          [] name = "get_policy_snapshot" -> {Ok([live_execution_allowed |-> FALSE])}
          [] OTHER -> {Err("unknown tool")}

-----------------------------------------------------------------------------
(* The protocol.                                                           *)
ParseError == -32700
MethodNotFound == -32601

Silence == [rows |-> rows]
success_envelope(id, result, table) ==
    [response |-> [id |-> id, result |-> result], rows |-> table]
error_envelope(id, code) ==
    [response |-> [id |-> id, error |-> code], rows |-> rows]

field(message, key, default) == IF key \in DOMAIN message THEN message[key] ELSE default

(* The result of a tool, a failure like any other, is a result.            *)
tools_call(id, params) ==
    {success_envelope(id, [text |-> o.text, isError |-> o.isError], o.rows) :
        o \in call_tool(field(params, "name", ""), field(params, "arguments", <<>>))}

dispatch(id, method, params) ==
    CASE method = "initialize" -> {success_envelope(id, [serverInfo |-> "smart-dynamic-hedge"], rows)}
      [] method = "ping" -> {success_envelope(id, <<>>, rows)}
      [] method = "tools/list" -> {success_envelope(id, [tools |-> 6], rows)}
      [] method = "tools/call" -> tools_call(id, params)
      [] OTHER -> {error_envelope(id, MethodNotFound)}

Mut_UnknownIsIgnored(line) ==
    CASE line.kind = "blank" -> {Silence}
      [] line.kind = "garbage" -> {error_envelope(Null, ParseError)}
      [] line.kind = "message" /\ (field(line, "id", NoId) = NoId
            \/ field(line, "method", "") \notin {"ping", "tools/list", "tools/call"}) -> {Silence}
      [] OTHER -> dispatch(line.id, line.method, field(line, "params", <<>>))

Mut_ComplainOfNotifications(line) ==
    CASE line.kind = "blank" -> {Silence}
      [] line.kind = "garbage" -> {error_envelope(Null, ParseError)}
      [] line.kind = "message" /\ field(line, "id", NoId) = NoId -> {error_envelope(Null, -32600)}
      [] OTHER -> dispatch(line.id, field(line, "method", ""), field(line, "params", <<>>))

(* What may come of one line: an answer or silence, and the table.         *)
handle_line(line) ==
    CASE line.kind = "blank" -> {Silence}
      [] line.kind = "garbage" -> {error_envelope(Null, ParseError)}
      [] line.kind = "message" /\ field(line, "id", NoId) = NoId -> {Silence}
      [] OTHER -> dispatch(line.id, field(line, "method", ""), field(line, "params", <<>>))

-----------------------------------------------------------------------------
(* run_stdio: a line is handled, and its answer written, before the next.  *)
ReadLine ==
    /\ server = Reading
    /\ stdin # <<>>
    /\ Head(stdin).kind # "bytes"
    /\ stdin' = Tail(stdin)
    /\ \E outcome \in handle_line(Head(stdin)) :
          /\ rows' = outcome.rows
          /\ server' = IF "response" \in DOMAIN outcome
                       THEN Answering(outcome.response) ELSE Reading
    /\ UNCHANGED stdout

(* What nobody will read is gone; what was written is in the pipe.         *)
Stop == server' = Stopped /\ stdin' = <<>>

(* A line that is not text ends the server, as the end of its input does.  *)
ReadFails ==
    /\ server = Reading
    /\ stdin # <<>>
    /\ Head(stdin).kind = "bytes"
    /\ Stop
    /\ UNCHANGED <<rows, stdout>>

EndOfInput(hostIsGone) ==
    /\ server = Reading
    /\ stdin = <<>>
    /\ hostIsGone
    /\ Stop
    /\ UNCHANGED <<rows, stdout>>

WriteLine(hostIsGone) ==
    /\ server.at = "answering"
    /\ ~hostIsGone
    /\ stdout' = Append(stdout, server.response)
    /\ server' = Reading
    /\ UNCHANGED <<rows, stdin>>

(* Nobody reads any more.                                                  *)
WriteFails(hostIsGone) ==
    /\ server.at = "answering"
    /\ hostIsGone
    /\ Stop
    /\ UNCHANGED <<rows, stdout>>

(* The process dies, whatever it is doing.                                 *)
ServerDies ==
    /\ server.at \in {"reading", "answering"}
    /\ Stop
    /\ UNCHANGED <<rows, stdout>>
=============================================================================
