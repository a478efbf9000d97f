-------------------------------- MODULE Program --------------------------------
(***************************************************************************)
(* The program from its command line to its exit status: the arguments are *)
(* read, the configuration is loaded, the engine is built if the command   *)
(* needs one, the command does its work and prints, and the process ends   *)
(* with 0, with 2 and an error, or in a panic.  What the work itself is    *)
(* made of (recommendations, sessions, cycles, reports) is in the other    *)
(* modules; here each piece of it succeeds or fails.                       *)
(***************************************************************************)
EXTENDS Configuration, FiniteSets

CONSTANTS
    Invocations,     \* [argv, env]: how the program may be started
    Uris,            \* texts of model URIs |-> [scheme, identifier]
    Infinite,        \* the interval no Duration can hold
    Timestamps,      \* texts parse_flexible takes
    MaxRounds        \* bound of the model: how often a loop goes round

VARIABLES
    invoked,     \* the arguments and the environment
    parsed,      \* what parse_args made of them
    loaded,      \* what load_config returned
    adviser,     \* which adviser was built
    store,       \* the file of the database, once it is opened
    pc,
    did,         \* what the process has done so far that others can see
    printed,     \* what is on standard output, in order
    exit         \* the exit status, once there is one

vars == <<invoked, parsed, loaded, adviser, store, pc, did, printed, exit>>

Env == invoked.env
Command == parsed.command
FieldOf(name) == parsed.fields[name]
Variable(name) == IF name \in DOMAIN Env THEN Some(Env[name]) ELSE None

Init ==
    /\ invoked \in Invocations
    /\ parsed = None /\ loaded = None /\ adviser = None /\ store = None
    /\ pc = "arguments"
    /\ did = {} /\ printed = <<>> /\ exit = None

Exit(status) == pc' = "exited" /\ exit' = Some(status)
Continue(step) == pc' = step /\ exit' = exit

ParseArguments ==
    /\ pc = "arguments"
    /\ parsed' = parse_args(invoked.argv)
    /\ IF Failed(parsed') THEN Exit(2) ELSE Continue("configure")
    /\ UNCHANGED <<invoked, loaded, adviser, store, did, printed>>

-----------------------------------------------------------------------------
(* resolve_config_path: the flag, else the variable, empty or not.         *)
resolve_config_path == IF Given(parsed.config) THEN parsed.config ELSE Variable("SMART_HEDGE_CONFIG")

(* resolve_sibling_binary, of the commands that start other servers.       *)
SiblingsAreNamed ==
    Command \in {"guard-demo", "autonomous"} =>
        /\ Given(FieldOf("intelligence-binary")) \/ "MARKET_INTELLIGENCE_MCP_BIN" \in DOMAIN Env
        /\ Given(FieldOf("guard-binary")) \/ "TRADE_GUARD_MCP_BIN" \in DOMAIN Env

FirstStep ==
    CASE Command = "build-core" -> "build"
      [] Command = "self-test" -> "core self-test"
      [] Command \in {"portfolio", "backtest"} -> "report"
      [] OTHER -> "engine"

(* The head of every command: configuration first, then what it needs.     *)
Configure ==
    /\ pc = "configure"
    /\ IF ~SiblingsAreNamed THEN Exit(2) /\ UNCHANGED loaded
       ELSE /\ loaded' = load_config(resolve_config_path, Env)
            /\ IF Failed(loaded') THEN Exit(2) ELSE Continue(FirstStep)
    /\ UNCHANGED <<invoked, parsed, adviser, store, did, printed>>

(* build_provider: the synthetic one needs nothing, the other needs keys.  *)
ProviderIsBuilt ==
    LET kind == Lower(loaded.config.provider)
    IN  \/ kind = "synthetic"
        \/ kind \in {"alpaca", "alpaca-readonly", "alpaca_readonly"}
           /\ "ALPACA_KEYS" \in DOMAIN Env

Heuristic == [kind |-> "heuristic", model |-> "heuristic"]
HasKey == "OPENAI_API_KEY" \in DOMAIN Env

(* build_advisor with OpenAIAdvisor::new: the configured name, or the      *)
(* variable where it is empty, but never the placeholder.                  *)
build_advisor ==
    LET kind == Lower(loaded.config.model)
        name == IF loaded.config.name = "" THEN Else(Variable("OPENAI_MODEL"), "")
                ELSE loaded.config.name
    IN  IF kind \in {"heuristic", "none", "local"} THEN Heuristic
        ELSE IF kind \notin {"openai", "responses"} THEN Fail("UnknownAdvisorKind")
        ELSE IF name \in {"", "configure-with-OPENAI_MODEL"} \/ ~HasKey
        THEN Fail("AdvisorConstructionFailed")
        ELSE [kind |-> "openai", model |-> name]

(* ModelUri::parse and build_advisor_from_uri: a scheme without a          *)
(* separator is a scheme, an empty one is refused.                         *)
build_advisor_from_uri(uri) ==
    IF uri.scheme \in {"heuristic", "none", "local"} THEN Heuristic
    ELSE IF uri.scheme \in {"openai", "responses"} /\ uri.identifier # "" /\ HasKey
    THEN [kind |-> "openai", model |-> uri.identifier]
    ELSE Fail("AdvisorConstructionFailed")

build_advisor_by_name(name) ==
    IF name \in DOMAIN loaded.config.models
    THEN build_advisor_from_uri(Uris[loaded.config.models[name]])
    ELSE IF name = "default" THEN build_advisor ELSE Fail("UnknownAdvisorKind")

(* build_engine, SmartHedgeEngine::new and with_components: provider,      *)
(* adviser, then the database, which this creates if it is not there.      *)
BuildEngine ==
    LET routed == Command \in {"once", "loop", "autonomous"} /\ Given(FieldOf("model"))
        built == IF routed THEN build_advisor_by_name(Value(FieldOf("model"))) ELSE build_advisor
        panics == Command \in {"loop", "autonomous"} /\ Value(FieldOf("interval")) = Infinite
    IN  /\ pc = "engine"
        /\ \/ Exit(2) /\ UNCHANGED <<adviser, store, did>>
           \/ /\ ProviderIsBuilt /\ ~Failed(built)
              /\ adviser' = built
              /\ store' = Some(Located(resolve_project_path(loaded.config_dir,
                                                            loaded.config.sqlite_path)))
              /\ did' = did \cup {"opened"}
              /\ IF panics THEN Exit(101) ELSE Continue("work")
        /\ UNCHANGED <<invoked, parsed, loaded, printed>>

-----------------------------------------------------------------------------
Prints(result) == printed' = Append(printed, result)

(* The commands that run or build the core themselves.  The core of        *)
(* self-test writes to the program's own output, which it inherits; a core *)
(* that ends well has said its own PASS there.                             *)
RunCoreDirectly ==
    /\ pc \in {"build", "core self-test"}
    /\ did' = did \cup {"core"}
    /\ \/ Exit(2) /\ UNCHANGED printed
       \/ pc = "core self-test" /\ Prints("PASS of the core") /\ Continue("engine")
       \/ pc = "build" /\ Prints("binary") /\ Exit(0)
    /\ UNCHANGED <<invoked, parsed, loaded, adviser, store>>

(* cmd_portfolio and cmd_backtest: see ReportCommands.                     *)
MakeReport ==
    LET start == IF Command = "backtest" THEN FieldOf("start") ELSE None
    IN  /\ pc = "report"
        /\ \/ Exit(2) /\ UNCHANGED <<did, printed>>
           \/ /\ Given(start) => Value(start) \in Timestamps
              /\ did' = did \cup {"market", "core"}
              /\ Prints("report") /\ Exit(0)
        /\ UNCHANGED <<invoked, parsed, loaded, adviser, store>>

(* One recommendation, stored before it is returned; or its error, by      *)
(* which time the market, the core and the model may have been asked.      *)
Recommend ==
    /\ pc = "work" /\ Command \in {"once", "loop", "self-test", "guard-demo"}
    /\ Command = "loop" => Len(printed) < MaxRounds
    /\ \/ /\ Exit(2) /\ UNCHANGED printed
          /\ did' \in {did, did \cup {"market"}, did \cup {"market", "core"}}
       \/ /\ did' = did \cup {"market", "core", "stored"}
          /\ CASE Command = "once" -> Prints("decision") /\ Exit(0)
               [] Command = "loop" -> Prints("line") /\ Continue("work")
               [] Command = "self-test" -> Continue("verify") /\ UNCHANGED printed
               [] Command = "guard-demo" -> Continue("guard") /\ UNCHANGED printed
    /\ UNCHANGED <<invoked, parsed, loaded, adviser, store>>

Mut_PassAnyway ==
    /\ pc = "verify"
    /\ \E valid \in BOOLEAN :
          /\ did' = did \cup {IF valid THEN "verified" ELSE "refuted"}
          /\ Prints("PASS")
          /\ Exit(IF valid THEN 0 ELSE 2)
    /\ UNCHANGED <<invoked, parsed, loaded, adviser, store>>

(* The end of cmd_self_test: what was just stored replays as valid.        *)
Verify ==
    /\ pc = "verify"
    /\ \E valid \in BOOLEAN :
          /\ did' = did \cup {IF valid THEN "verified" ELSE "refuted"}
          /\ IF valid THEN Prints("PASS") /\ Exit(0) ELSE Exit(2) /\ UNCHANGED printed
    /\ UNCHANGED <<invoked, parsed, loaded, adviser, store>>

(* The rest of run_guard_cycle: no trade, a rejection, a fill, or an error. *)
GuardDemo ==
    /\ pc = "guard"
    /\ \/ Exit(2) /\ UNCHANGED printed /\ did' \in {did, did \cup {"ordered"}}
       \/ Prints("decision") /\ Exit(0) /\ did' \in {did, did \cup {"ordered"}}
    /\ UNCHANGED <<invoked, parsed, loaded, adviser, store>>

(* replay and recent only read.                                            *)
ReadStore ==
    /\ pc = "work" /\ Command \in {"replay", "recent"}
    /\ \/ Exit(2) /\ UNCHANGED printed
       \/ Prints("decisions") /\ Exit(0)
    /\ UNCHANGED <<invoked, parsed, loaded, adviser, store, did>>

(* autonomous, serve and mcp go on until they are stopped or fail.         *)
Serve ==
    /\ pc = "work" /\ Command \in {"serve", "mcp", "autonomous"}
    /\ Len(printed) < MaxRounds
    /\ \/ Exit(2) /\ UNCHANGED <<did, printed>>
       \/ Command # "serve" /\ Exit(0) /\ UNCHANGED <<did, printed>>
       \/ /\ Continue("work") /\ Prints("line")
          /\ did' = did \cup {"market", "core", "stored"}
                        \cup (IF Command = "autonomous" THEN {"ordered"} ELSE {"served"})
    /\ UNCHANGED <<invoked, parsed, loaded, adviser, store>>

Next ==
    \/ ParseArguments \/ Configure \/ BuildEngine
    \/ RunCoreDirectly \/ MakeReport \/ Recommend \/ Verify \/ GuardDemo
    \/ ReadStore \/ Serve

Spec == Init /\ [][Next]_vars

-----------------------------------------------------------------------------
Endless == {"loop", "serve", "mcp", "autonomous"}

(* LLR-140: a command line means what its pieces say, or is refused.  Where *)
(* --config stands makes no difference, unless it stands for a value.      *)
ArgumentsAreMeant ==
    pc # "arguments" =>
        LET rest == WithoutConfig(invoked.argv).rest
        IN  rest # <<>> /\ rest[1].text \in DOMAIN Known =>
                WithoutConfig(invoked.argv).waiting
                    \/ MeansItsTail(rest[1].text, Tail(rest), parsed)

(* LLR-022, LLR-023: every setting comes from the topmost layer that makes *)
(* it; a setting no layer makes any more is an error and not a default.    *)
Loads == loaded # None /\ ~Failed(loaded)

Setting(path) == Layered(resolve_config_path, Env, path)

LayersAreOrdered ==
    Loads =>
        /\ \A path \in Texts : IsText(Setting(path))
        /\ loaded.config.provider = Setting(<<"provider", "kind">>).text
        /\ loaded.config.model = Setting(<<"model", "kind">>).text
        /\ loaded.config.name = Setting(<<"model", "name">>).text
        /\ loaded.config.binary = Setting(<<"core", "binary">>).text
        /\ loaded.config.sqlite_path = Setting(<<"storage", "sqlite_path">>).text
        /\ \A symbol \in DOMAIN loaded.config.contracts :
              loaded.config.contracts[symbol].contracts =
                  LET size == Setting(<<"contracts", symbol, "contracts">>)
                  IN  IF IsNumber(size) THEN size.number ELSE 0

(* LLR-020, LLR-021: nothing is run, asked, stored, served or ordered, by  *)
(* any command, unless all layers together say paper, and paper only.      *)
NothingWithoutPaper ==
    did # {} => /\ Lower(Setting(<<"mode">>).text) = "paper"
                /\ Setting(<<"policy", "paper_only">>).flag

(* What the program itself printed: all but the core's line.               *)
OwnResults == {i \in DOMAIN printed : printed[i] # "PASS of the core"}

(* The error paths of main and the end of cmd_self_test: a command that is  *)
(* not a loop says its own result once, when it has all of it, and then it  *)
(* ends well; one that fails has said none; the program's PASS is said of   *)
(* what was verified, behind the core's.                                   *)
FailureSaysNothing ==
    Given(exit) /\ (Failed(parsed) \/ Command \notin Endless) =>
        /\ Value(exit) = 0 <=> OwnResults # {}
        /\ \A i, j \in OwnResults : i = j
        /\ \A i \in OwnResults : printed[i] = "PASS" =>
              i = 2 /\ {"core", "stored", "verified"} \subseteq did

(* What LLR-142 says of self-test, "failing loudly [...] rather than       *)
(* printing a partial pass".  It does not hold: a later check may fail when *)
(* the core has printed its "self-test: PASS" to the same output.           *)
NoPartialPass ==
    Given(exit) /\ ~Failed(parsed) /\ Command = "self-test" =>
        Value(exit) = 0 \/ printed = <<>>

(* LLR-024: a configured path is relative to the directory of the file it  *)
(* stands in.                                                              *)
StoreIsWhereConfigured ==
    Given(store) =>
        LET raw == Spelled[loaded.config.sqlite_path]
        IN  Value(store) = Located(IF raw.absolute THEN raw
                                   ELSE [loaded.config_dir EXCEPT !.parts = @ \o raw.parts])

================================================================================
