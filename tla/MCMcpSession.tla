----------------------------- MODULE MCMcpSession -----------------------------
(***************************************************************************)
(* Two symbols with contracts; a client that uses each tool and an unknown *)
(* method; a host that pipelines lines of every kind.                      *)
(***************************************************************************)
EXTENDS McpSession

MCUpper == [s \in {"spy", "SPY", "QQQ"} |-> IF s = "QQQ" THEN "QQQ" ELSE "SPY"]
MCContracts ==
    [s \in {"SPY"} |-> [multiplier |-> 100, band |-> 5, days |-> 9, contracts |-> 2, expiry |-> 7]]

Tool(tool, arguments) ==
    [method |-> "tools/call", params |-> [name |-> tool, arguments |-> arguments]]

MCCalls ==
    {Tool("get_market_recommendation", [symbol |-> "spy"]),
     Tool("price_option", [contracts |-> 3]),
     Tool("replay_decision", [decision_id |-> 1]),
     Tool("list_recent_decisions", [limit |-> Mistyped]),
     [method |-> "tools/list", params |-> <<>>],
     [method |-> "nothing/known", params |-> <<>>]}

Message(id, method, params) ==
    [kind |-> "message", id |-> id, method |-> method, params |-> params]

Recommend == Tool("get_market_recommendation", <<>>).params

MCLines ==
    {[kind |-> "blank"], [kind |-> "garbage"], [kind |-> "bytes"], [kind |-> "message"],
     [kind |-> "message", id |-> 4],
     Message(NoId, "tools/call", Recommend),
     Message(7, "tools/call", Recommend),
     Message(Null, "ping", <<>>),
     Message(8, "tools/call", Tool("health", <<>>).params),
     Message(8, "tools/call", Tool("get_policy_snapshot", <<>>).params),
     Message(8, "tools/call", [name |-> "place_order"]),
     Message(9, "tools/call", Tool("replay_decision", <<>>).params),
     Message(9, "tools/call", Tool("price_option", [symbol |-> "QQQ"]).params),
     Message(9, "tools/call", Tool("list_recent_decisions", [symbol |-> "spy", limit |-> 0]).params)}
=============================================================================
