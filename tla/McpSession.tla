------------------------------ MODULE McpSession ------------------------------
(***************************************************************************)
(* A server with the host at the other end of its pipes.  The host is an   *)
(* McpClient, which writes one request and takes the next line for its     *)
(* answer, or another program that writes what it likes whenever it likes. *)
(* Either may end at any time; then another server is started, on the same *)
(* table of decisions.                                                     *)
(***************************************************************************)
EXTENDS McpServer

CONSTANTS
    Calls,              \* tool calls a client makes
    Lines,              \* lines another host writes
    NoBody,             \* there is no host
    MaxCalls, MaxLines, MaxSpawns   \* bounds of the model

VARIABLES
    host,        \* who is at the other end, and what for
    next_id,     \* of the client
    spawns,      \* servers started so far
    said,        \* history: the lines another host wrote
    heard,       \* history: the answers it read
    exchange     \* history: the client's last request with its answer

vars == <<serverVars, host, next_id, spawns, said, heard, exchange>>

Client(message) == [client |-> message]
Other == [other |-> TRUE]
Ready == [ready |-> TRUE]
NoExchange == [none |-> TRUE]

request(id, method, params) ==
    [kind |-> "message", id |-> id, method |-> method, params |-> params]

(* The requests a client may make.                                         *)
ClientRequest ==
    {request(1, "initialize", <<>>)} \cup
    {request(id, tool.method, tool.params) : id \in 1 .. MaxCalls, tool \in Calls}

ASSUME HostAssumption ==
    /\ MaxCalls \in Nat
    /\ NoBody \notin {Other, Client(Ready)} \cup {Client(message) : message \in ClientRequest}

(* Only a message has fields.                                              *)
ASSUME LineAssumption ==
    \A line \in Lines :
        /\ line.kind \in {"blank", "garbage", "bytes", "message"}
        /\ "id" \in DOMAIN line => line.kind = "message"

Init ==
    /\ ServerInit
    /\ host = NoBody
    /\ next_id = 1
    /\ spawns = 0
    /\ said = <<>>
    /\ heard = <<>>
    /\ exchange = NoExchange

IsClient == host # NoBody /\ host # Other
Waits == IsClient /\ host.client # Ready
IsReady == IsClient /\ host.client = Ready

(* The host's end of the pipes is closed; what it knew goes with it.       *)
HostGone ==
    /\ host' = NoBody
    /\ stdout' = <<>>
    /\ next_id' = 1
    /\ said' = <<>>
    /\ heard' = <<>>

-----------------------------------------------------------------------------
NewServer ==
    /\ host = NoBody
    /\ server \in {Absent, Stopped}
    /\ spawns < MaxSpawns
    /\ spawns' = spawns + 1
    /\ server' = Reading
    /\ exchange' = NoExchange
    /\ UNCHANGED <<rows, stdout, said, heard>>

(* call: a new number, the request written, and the wait for a line.       *)
Send(id, method, params) ==
    /\ next_id' = id + 1
    /\ host' = Client(request(id, method, params))

Mut_SpawnWithoutWaiting ==
    /\ NewServer
    /\ next_id' = 2
    /\ host' = Client(Ready)
    /\ stdin' = <<request(1, "initialize", <<>>)>>

(* McpClient::spawn, with the handshake.                                   *)
Spawn ==
    /\ NewServer
    /\ Send(1, "initialize", <<>>)
    /\ stdin' = <<request(1, "initialize", <<>>)>>

Call(tool) ==
    /\ IsReady
    /\ next_id <= MaxCalls
    /\ server # Stopped
    /\ Send(next_id, tool.method, tool.params)
    /\ stdin' = Append(stdin, request(next_id, tool.method, tool.params))
    /\ UNCHANGED <<rows, stdout, server, spawns, said, heard, exchange>>

(* The server is not there to read what is written.                        *)
CallFails ==
    /\ IsReady
    /\ server = Stopped
    /\ HostGone
    /\ UNCHANGED <<rows, stdin, server, spawns, exchange>>

(* call_tool: what the caller is told.                                     *)
Outcome(response) ==
    IF "error" \in DOMAIN response THEN [protocol |-> response.error]
    ELSE IF "isError" \in DOMAIN response.result /\ response.result.isError
    THEN [tool |-> response.result.text]
    ELSE [ok |-> response.result]

(* The next line is the answer, whichever request it names.                *)
TakeAnswer ==
    /\ Waits
    /\ stdout # <<>>
    /\ stdout' = Tail(stdout)
    /\ exchange' = [request |-> host.client, response |-> Head(stdout),
                    outcome |-> Outcome(Head(stdout))]
    /\ host' = Client(Ready)
    /\ UNCHANGED <<rows, stdin, server, next_id, spawns, said, heard>>

(* UnexpectedEof: the server closed its output.                            *)
TakeEof ==
    /\ Waits
    /\ stdout = <<>>
    /\ server = Stopped
    /\ HostGone
    /\ UNCHANGED <<rows, stdin, server, spawns, exchange>>

(* Drop, between two calls: the child is killed.                           *)
DropClient ==
    /\ IsReady
    /\ HostGone
    /\ Stop
    /\ UNCHANGED <<rows, spawns, exchange>>

(* The process of the host dies, and kills nobody: the server is left with *)
(* pipes without another end.                                              *)
HostDies ==
    /\ host # NoBody
    /\ HostGone
    /\ UNCHANGED <<rows, stdin, server, spawns, exchange>>

-----------------------------------------------------------------------------
OtherStarts ==
    /\ NewServer
    /\ host' = Other
    /\ UNCHANGED <<stdin, next_id>>

OtherWrites(line) ==
    /\ host = Other
    /\ Len(said) < MaxLines
    /\ server # Stopped
    /\ stdin' = Append(stdin, line)
    /\ said' = Append(said, line)
    /\ UNCHANGED <<rows, stdout, server, host, next_id, spawns, heard, exchange>>

OtherReads ==
    /\ host = Other
    /\ stdout # <<>>
    /\ stdout' = Tail(stdout)
    /\ heard' = Append(heard, Head(stdout))
    /\ UNCHANGED <<rows, stdin, server, host, next_id, spawns, said, exchange>>

-----------------------------------------------------------------------------
Serve ==
    \/ ReadLine
    \/ ReadFails
    \/ WriteLine(host = NoBody)
    \/ WriteFails(host = NoBody)
    \/ EndOfInput(host = NoBody)

ServerStep ==
    /\ Serve
    /\ UNCHANGED <<host, next_id, spawns, said, heard, exchange>>

ServerEnds ==
    /\ ServerDies
    /\ UNCHANGED <<host, next_id, spawns, said, heard, exchange>>

Next ==
    \/ Spawn
    \/ \E tool \in Calls : Call(tool)
    \/ CallFails
    \/ TakeAnswer
    \/ TakeEof
    \/ DropClient
    \/ HostDies
    \/ OtherStarts
    \/ \E line \in Lines : OtherWrites(line)
    \/ OtherReads
    \/ ServerStep
    \/ ServerEnds

(* The tools that run the core, whose time limit may wait for ever.        *)
RunsCore(line) ==
    /\ field(line, "method", "") = "tools/call"
    /\ field(line.params, "name", "") \in {"get_market_recommendation", "price_option"}

InTheCore == server = Reading /\ stdin # <<>> /\ RunsCore(Head(stdin))

(* A server that can take a step takes it, unless the step is the core's,  *)
(* and so does a client that waits.                                        *)
Spec ==
    /\ Init /\ [][Next]_vars
    /\ WF_vars(ServerStep /\ ~InTheCore) /\ WF_vars(TakeAnswer) /\ WF_vars(TakeEof)

-----------------------------------------------------------------------------
(* The comment of the client, "a strict request-then-read-one-line pairing *)
(* is correct": the line taken for an answer names the request it answers, *)
(* though nobody compares the two, and nothing is left in the pipe for the *)
(* next request to take.                                                   *)
AnswerIsForRequest ==
    /\ exchange # NoExchange => exchange.response.id = exchange.request.id
    /\ IsReady => stdout = <<>> /\ stdin = <<>>

(* The lines that ask for an answer, among the first n, and the id it has  *)
(* to have: the line's own, or null if the line cannot be read.            *)
Asks(line) == line.kind = "garbage" \/ field(line, "id", NoId) # NoId
AskedId(line) == IF line.kind = "garbage" THEN Null ELSE line.id
Due(lines, n) == {m \in 1 .. n : Asks(lines[m])}

(* The k-th answer is the one of the k-th line that asks for one.          *)
InOrder(told, lines, n) ==
    /\ Len(told) <= Cardinality(Due(lines, n))
    /\ \A m \in Due(lines, n) :
          LET k == Cardinality(Due(lines, m))
          IN  k <= Len(told) => told[k].id = AskedId(lines[m])

(* JSON-RPC 2.0 of a host that does not wait: each line that asks for an   *)
(* answer gets one, in the order of the lines, and nothing else is said;   *)
(* a server that stops may leave the last of them out.                     *)
AnswersInOrder ==
    host = Other =>
        LET consumed == Len(said) - Len(stdin)
            next == IF server.at = "answering" THEN <<server.response>> ELSE <<>>
            told == heard \o stdout \o next
        IN  /\ InOrder(told, said, consumed)
            /\ server # Stopped => Len(told) = Cardinality(Due(said, consumed))

(* ARCHITECTURE, decision lifecycle, step 6, at this end: a decision a     *)
(* host was told of is in the table and replays, be the server that told   *)
(* it killed at once.                                                      *)
ToldIsStored ==
    exchange # NoExchange =>
        LET result == exchange.outcome
        IN  "ok" \in DOMAIN result /\ "text" \in DOMAIN result.ok
            /\ "decision" \in DOMAIN result.ok.text =>
               LET decision == result.ok.text.decision
               IN  get(decision.decision_id)
                     = [payload |-> decision, stored_content_hash_valid |-> TRUE]

(* mcp-client/lib.rs:2-3, one request is written per call and "exactly one  *)
(* newline-delimited response" read, without a time limit: a client that   *)
(* waits is answered, or learns that the server is gone; only a core that  *)
(* never returns keeps it waiting.                                         *)
ClientIsAnswered == <>[](Waits /\ InTheCore) \/ (Waits ~> ~Waits)
=============================================================================
