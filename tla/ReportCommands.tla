----------------------------- MODULE ReportCommands -----------------------------
(***************************************************************************)
(* The two commands that price without an engine and store nothing: each   *)
(* gathers its whole result and prints it, or an error, once.              *)
(***************************************************************************)
EXTENDS Backtest, Portfolio

CONSTANTS Tested     \* symbols a user may ask a backtest for

vars == <<backtestVars, portfolioVars>>

cmd_backtest ==
    /\ \E symbol \in Tested : BacktestInit(symbol)
    /\ day = 0 /\ positions = <<>> /\ output = None
    /\ valuation = [todo |-> <<>>, now |-> None, step |-> "none"]

cmd_portfolio ==
    /\ PortfolioInit
    /\ test = [step |-> "none"] /\ held = 0 /\ days = <<>> /\ report = None
    /\ totals = [turnover |-> 0, trading |-> 0]

Init == cmd_backtest \/ cmd_portfolio

Next ==
    \/ test.step # "none" /\ BacktestNext /\ UNCHANGED portfolioVars
    \/ valuation.step # "none" /\ PortfolioNext /\ UNCHANGED backtestVars

Spec == Init /\ [][Next]_vars
================================================================================
