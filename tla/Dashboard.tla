------------------------------ MODULE Dashboard ------------------------------
(***************************************************************************)
(* The dashboard: one thread per connection, all of them sharing one       *)
(* engine and one cache of the last recommendation per symbol.  The threads *)
(* are the engine's callers here.                                          *)
(*                                                                         *)
(* The cache is locked for a look-up and for a store, and not in between:  *)
(* while one thread computes, others look up, compute and store as well.   *)
(***************************************************************************)
EXTENDS Engine, HttpRequest

CONSTANTS
    cache_seconds,   \* how long a cached decision is served
    Requests,        \* what clients may send
    Upper            \* the symbol that a valid text names, whatever its case

ASSUME CacheAssumption == cache_seconds \in Nat

VARIABLES
    web,      \* per thread, the request it is handling
    cache,    \* per symbol, the cached decision and when it was put there
    served    \* history: the last answer, and what it answered

dashboardVars == <<engineVars, web, cache, served>>

Free == [at |-> "free"]
Empty == [empty |-> TRUE]
Nobody == [nobody |-> TRUE]

DashboardInit ==
    /\ EngineInit
    /\ web = [c \in Caller |-> Free]
    /\ cache = [s \in Symbol |-> Empty]
    /\ served = Nobody

-----------------------------------------------------------------------------
(* The route table of handle; a path is the segments between its slashes.  *)
Root == <<>>
Health == <<"api", "health">>
Recommendation == <<"api", "recommendation">>
History == <<"api", "history">>
IsReplay(path) == Len(path) = 3 /\ path[1] = "api" /\ path[2] = "replay"

SymbolText(request) ==
    LET text == Parameter(request, "symbol")
    IN  IF text = Missing THEN <<"SPY">> ELSE text

(* A text that passes for a symbol is one, once it is in upper case.       *)
ASSUME UpperAssumption ==
    \A raw \in Requests :
        LET request == read_request(raw)
        IN  request # Malformed /\ valid_symbol(SymbolText(request)) =>
                Upper[SymbolText(request)] \in Symbol

(* A history may be asked for without a symbol, or with an empty one.      *)
AllSymbols(request) == Parameter(request, "symbol") \in {Missing, <<>>}

(* The status of an answer that needs neither engine nor cache, else 0.    *)
Refusal(request) ==
    IF request = Malformed THEN 400
    ELSE IF request.method # "GET" THEN 405
    ELSE IF request.path \in {Root, Health} THEN 200
    ELSE IF request.path = Recommendation
         THEN IF valid_symbol(SymbolText(request)) THEN 0 ELSE 422
    ELSE IF request.path = History
         THEN IF AllSymbols(request) \/ valid_symbol(SymbolText(request)) THEN 0 ELSE 422
    ELSE IF IsReplay(request.path) THEN 0 ELSE 404

(* Cache::get: whatever is there and not older than the time to live.      *)
Hit(symbol) ==
    /\ cache[symbol] # Empty
    /\ clock - cache[symbol].inserted_at <= cache_seconds

(* One answer to a connection, which is closed then: decisions, or none.   *)
Show(c, decisions) ==
    /\ web' = [web EXCEPT ![c] = Free]
    /\ served' = [request |-> web[c].request, arrived |-> web[c].arrived,
                  status |-> 200, decisions |-> decisions]

Respond(c, status) ==
    /\ web' = [web EXCEPT ![c] = Free]
    /\ served' = [status |-> status, decisions |-> <<>>]

(* A connection whose request has been read, or could not be.              *)
Arrive(c, raw) ==
    /\ web[c] = Free
    /\ web' = [web EXCEPT ![c] =
                  [at |-> "routing", request |-> read_request(raw), arrived |-> clock]]
    /\ UNCHANGED <<engineVars, cache, served>>

Routed(c) == web[c].at = "routing" /\ Refusal(web[c].request) = 0

AnswerAtOnce(c) ==
    /\ web[c].at = "routing" /\ Refusal(web[c].request) # 0
    /\ Respond(c, Refusal(web[c].request))
    /\ UNCHANGED <<engineVars, cache>>

(* route_history: what recent() finds, or nothing when a row is not JSON.  *)
ShowHistory(c) ==
    /\ Routed(c) /\ web[c].request.path = History
    /\ LET request == web[c].request
           limit   == parse_positive_i64(Parameter(request, "limit"), 20)
           symbols == IF AllSymbols(request) THEN Symbol ELSE {Upper[SymbolText(request)]}
       IN  \E found \in recent(limit, symbols) :
              IF found = Garbled THEN Respond(c, 500) ELSE Show(c, found.history)
    /\ UNCHANGED <<engineVars, cache>>

(* route_replay: unknown identifiers have a status of their own.           *)
ShowReplay(c) ==
    /\ Routed(c) /\ IsReplay(web[c].request.path)
    /\ LET found == get(web[c].request.path[3])
       IN  IF found = NotFound THEN Respond(c, 404)
           ELSE IF found = Garbled THEN Respond(c, 500)
           ELSE Show(c, <<found.payload>>)
    /\ UNCHANGED <<engineVars, cache>>

-----------------------------------------------------------------------------
(* route_recommendation, from here on.                                     *)
Recommends(c) == Routed(c) /\ web[c].request.path = Recommendation
Wanted(request) == Upper[SymbolText(request)]
WantsFresh(request) == parse_bool_flag(Parameter(request, "fresh"))

Mut_ServeCachedToAll(c) ==
    /\ Recommends(c)
    /\ Hit(Wanted(web[c].request))
    /\ Show(c, <<cache[Wanted(web[c].request)].decision>>)
    /\ UNCHANGED <<engineVars, cache>>

ServeCached(c) ==
    /\ Recommends(c) /\ ~WantsFresh(web[c].request)
    /\ Hit(Wanted(web[c].request))
    /\ Show(c, <<cache[Wanted(web[c].request)].decision>>)
    /\ UNCHANGED <<engineVars, cache>>

(* A miss, or a request that wants no cached answer: compute one.          *)
Compute(c) ==
    /\ Recommends(c)
    /\ WantsFresh(web[c].request) \/ ~Hit(Wanted(web[c].request))
    /\ Start(c, Wanted(web[c].request))
    /\ web' = [web EXCEPT ![c].at = "computing"]
    /\ UNCHANGED <<cache, served>>

(* One step of the engine on behalf of the request.  When it ends without  *)
(* a decision the thread answers 400, and is done.                         *)
EngineWorks(c) ==
    /\ web[c].at = "computing"
    /\ Snapshot(c) \/ RunCore(c) \/ AdviserAnswers(c) \/ AdviserFails(c) \/ Store(c)
    /\ IF call'[c] = Idle THEN Respond(c, 400) ELSE UNCHANGED <<web, served>>
    /\ UNCHANGED cache

Mut_ReturnUnstored(c) ==
    /\ web[c].at = "computing"
    /\ call[c].step \in {"append", "return"}
    /\ Leave(c)
    /\ web' = [web EXCEPT ![c] =
                  [at |-> "caching", request |-> @.request, arrived |-> @.arrived,
                   decision |-> call[c].decision]]
    /\ UNCHANGED <<clock, binary, next_id, rows, released, origin, cache, served>>

EngineReturns(c) ==
    /\ web[c].at = "computing"
    /\ Return(c)
    /\ web' = [web EXCEPT ![c] =
                  [at |-> "caching", request |-> @.request, arrived |-> @.arrived,
                   decision |-> call[c].decision]]
    /\ UNCHANGED <<cache, served>>

(* Cache::put, over whatever is there, and the answer.                     *)
CacheAndServe(c) ==
    /\ web[c].at = "caching"
    /\ cache' = [cache EXCEPT ![Wanted(web[c].request)] =
                    [decision |-> web[c].decision, inserted_at |-> clock]]
    /\ Show(c, <<web[c].decision>>)
    /\ UNCHANGED engineVars

(* The server dies: its threads and its cache are gone.                    *)
ServerCrash ==
    /\ Crash(Caller)
    /\ web' = [c \in Caller |-> Free]
    /\ cache' = [s \in Symbol |-> Empty]
    /\ UNCHANGED served

(* Time goes by; what a rebuild of the core does is left to the engine.    *)
Elsewhere == Tick /\ UNCHANGED <<web, cache, served>>

DashboardNext ==
    \/ \E c \in Caller :
          \/ \E raw \in Requests : Arrive(c, raw)
          \/ AnswerAtOnce(c)
          \/ ShowHistory(c)
          \/ ShowReplay(c)
          \/ ServeCached(c)
          \/ Compute(c)
          \/ EngineWorks(c)
          \/ EngineReturns(c)
          \/ CacheAndServe(c)
    \/ ServerCrash
    \/ Elsewhere

DashboardSpec == DashboardInit /\ [][DashboardNext]_dashboardVars

-----------------------------------------------------------------------------
(* THREAT_MODEL, "every displayed decision has provenance": a decision that *)
(* is shown, computed, cached, replayed or in a history, can be replayed   *)
(* with a valid hash, and is one for the symbol that was asked for, if any. *)
AskedFor(request, decision) ==
    \/ IsReplay(request.path) /\ decision.decision_id = request.path[3]
    \/ request.path = History /\ AllSymbols(request)
    \/ request.path \in {History, Recommendation} /\ decision.symbol = Wanted(request)

ShownIsReplayable ==
    served # Nobody =>
        \A i \in DOMAIN served.decisions :
            LET decision == served.decisions[i]
            IN  /\ get(decision.decision_id)
                       = [payload |-> decision, stored_content_hash_valid |-> TRUE]
                /\ AskedFor(served.request, decision)

(* LLR-152, the bypass: whoever says fresh=true, in whatever spelling the  *)
(* query allows, gets a decision that was begun after the request arrived, *)
(* as far as its date tells, or none, whatever other threads are doing.    *)
FreshIsFresh ==
    served # Nobody =>
        \A i \in DOMAIN served.decisions :
            LET request == served.request
            IN  request.path = Recommendation /\ Parameter(request, "fresh") = <<"true">> =>
                    served.decisions[i].created_at >= to_iso_string(served.arrived)
=============================================================================
