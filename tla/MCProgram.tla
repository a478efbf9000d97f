------------------------------- MODULE MCProgram -------------------------------
(***************************************************************************)
(* The instances of Program: every command with every tail of at most two  *)
(* tokens of a small alphabet, some of three, and every command under each *)
(* of a few configuration files and environments.                          *)
(***************************************************************************)
EXTENDS Program

W(text) == [form |-> "word", text |-> text]
F(name) == [form |-> "flag", name |-> name, text |-> "--" \o name]
P(name, value) == [form |-> "pair", name |-> name, value |-> value, text |-> "--pair"]
T(text) == [text |-> text]
N(number) == [number |-> number]

MCInfinite == 1000000
MCFloat == [t \in {"7", "-1", "0", "1e2", "inf"} |->
    CASE t = "7" -> 7 [] t = "-1" -> -1 [] t = "0" -> 0 [] t = "1e2" -> 100 [] t = "inf" -> MCInfinite]
MCWhole == {"7", "-1", "0"}
MCUpper(text) == CASE text = "spy" -> "SPY" [] text = "qqq" -> "QQQ" [] OTHER -> text
MCLower(text) == CASE text \in {"Paper", "PAPER"} -> "paper"
                   [] text = "Alpaca" -> "alpaca" [] text = "ATM" -> "atm" [] OTHER -> text

-----------------------------------------------------------------------------
MCDefaults == Object(
    [mode |-> T("paper"),
     provider |-> Object([kind |-> T("synthetic"), evidence_file |-> T("data/evidence.json")]),
     model |-> Object([kind |-> T("heuristic"), name |-> T("configure-with-OPENAI_MODEL")]),
     core |-> Object([binary |-> T("")]),
     policy |-> Object([paper_only |-> [flag |-> TRUE]]),
     storage |-> Object([sqlite_path |-> T("store/db")]),
     contracts |-> Object([SPY |-> Object(
        [option_type |-> T("put"), strike |-> N(100), implied_volatility |-> N(20),
         days_to_expiry |-> N(30), contracts |-> N(1), current_shares |-> N(0)])])])

MCNotJson == [notjson |-> TRUE]

MCFileText ==
    ("alpaca.json" :> Object([provider |-> Object([kind |-> T("Alpaca")]), mode |-> T("PAPER")])) @@
    ("conf/spy.json" :> Object([contracts |-> Object(
        [SPY |-> Object([strike |-> T("ATM"), implied_volatility |-> N(25)]),
         QQQ |-> Object([strike |-> N(50), implied_volatility |-> N(30), expiry |-> T("2027-01-15")])])])) @@
    ("bare.json" :> Object([contracts |-> Object([QQQ |-> Object([strike |-> N(50)])])])) @@
    ("live.json" :> Object([mode |-> T("live")])) @@
    ("loose.json" :> Object([policy |-> Object([paper_only |-> [flag |-> FALSE]])])) @@
    ("list.json" :> [list |-> <<>>]) @@
    ("broken.json" :> MCNotJson) @@
    ("scalar.json" :> Object([provider |-> T("synthetic")])) @@
    ("models.json" :> Object([model |-> Object([kind |-> T("openai"), name |-> T(""),
        models |-> Object([fast |-> T("openai://gpt"), slow |-> T("heuristic"),
                           none |-> T("openai://"), bad |-> T("://gpt")])])])) @@
    ("shared.json" :> Object([storage |-> Object([sqlite_path |-> T("../shared/db")])])) @@
    ("conf/shared.json" :> Object([storage |-> Object([sqlite_path |-> T("../shared/db")])])) @@
    ("absolute.json" :> Object([storage |-> Object([sqlite_path |-> T("/var/db")])]))

MCSpelled ==
    [t \in DOMAIN MCFileText \cup {"store/db", "../shared/db", "/var/db", "", "absent.json"} |->
        CASE t = "conf/spy.json" -> Path(FALSE, <<"conf", "spy.json">>)
          [] t = "conf/shared.json" -> Path(FALSE, <<"conf", "shared.json">>)
          [] t = "store/db" -> Path(FALSE, <<"store", "db">>)
          [] t = "../shared/db" -> Path(FALSE, <<"..", "shared", "db">>)
          [] t = "/var/db" -> Path(TRUE, <<"var", "db">>)
          [] t = "" -> Path(FALSE, <<>>)
          [] OTHER -> Path(FALSE, <<t>>)]

MCWorkingDir == <<"home", "project">>

MCUris == [t \in {"openai://gpt", "heuristic", "openai://", "://gpt"} |->
    CASE t = "openai://gpt" -> [scheme |-> "openai", identifier |-> "gpt"]
      [] t = "heuristic" -> [scheme |-> "heuristic", identifier |-> ""]
      [] t = "openai://" -> [scheme |-> "openai", identifier |-> ""]
      [] t = "://gpt" -> [scheme |-> "", identifier |-> "gpt"]]

MCTimestamps == {"2024-01-01T00:00:00Z"}

-----------------------------------------------------------------------------
Commands == DOMAIN Known \cup {"build-core", "mcp", "trade"}

Alphabet ==
    {W("spy"), W("7"), W("inf"), W("2024-01-01T00:00:00Z"),
     F("symbol"), F("days"), F("interval"), F("limit"), F("model"), F("port"), F("start"),
     F("bogus"), F("config"), F("max-iterations"),
     P("symbol", "qqq"), P("symbol", ""), P("days", "1e2"), P("contracts", "-1"), P("port", "-1"),
     P("max-consecutive-errors", "0"), P("model", "default"), P("bogus", "1"),
     P("config", "conf/spy.json")}

Few == {W("7"), F("symbol"), F("config"), P("symbol", "spy"), P("interval", "7")}

Tails == SeqOf(Alphabet, 2) \cup [1..3 -> Few]

Home == [MARKET_INTELLIGENCE_MCP_BIN |-> "mi", TRADE_GUARD_MCP_BIN |-> "tg"]

Environments ==
    {<<>>, Home,
     [SMART_HEDGE_CONFIG |-> "conf/spy.json"] @@ Home,
     [SMART_HEDGE_CONFIG |-> ""] @@ Home,
     [SMART_HEDGE_PROVIDER |-> "alpaca", ALPACA_KEYS |-> "k", SMART_HEDGE_DB |-> "../shared/db"] @@ Home,
     [SMART_HEDGE_PROVIDER |-> "", SMART_HEDGE_CORE |-> "/bin/core"] @@ Home,
     [SMART_HEDGE_MODEL_KIND |-> "openai", OPENAI_MODEL |-> "gpt", OPENAI_API_KEY |-> "k"] @@ Home,
     [OPENAI_MODEL |-> "", OPENAI_API_KEY |-> "k", SMART_HEDGE_MODEL_KIND |-> "responses"] @@ Home,
     [SMART_HEDGE_PROVIDER |-> "synthetic", ALPACA_KEYS |-> "k", OPENAI_API_KEY |-> "k"] @@ Home}

Files == DOMAIN MCFileText \cup {"absent.json"}

MCInvocations ==
    {[argv |-> <<W(c)>> \o t, env |-> Home] : c \in Commands, t \in Tails}
        \cup {[argv |-> <<W(c)>> \o t, env |-> e] :
                c \in Commands, e \in Environments,
                t \in {<<>>} \cup {<<F("config"), W(f)>> : f \in Files}}
        \cup {[argv |-> <<P("config", "models.json"), W(c), P("model", m)>>, env |-> e] :
                c \in {"once", "loop", "autonomous"}, e \in Environments,
                m \in {"fast", "slow", "none", "bad", "default", "gone"}}
        \cup {[argv |-> t, env |-> Home] : t \in {<<>>, <<F("config")>>, <<F("symbol"), W("once")>>}}
================================================================================
