------------------------------- MODULE Portfolio -------------------------------
(***************************************************************************)
(* cmd_portfolio: build_portfolio prices one configured contract after the *)
(* other, each on a quote of its own but all at the one reading of the     *)
(* clock, and stops at the first that fails; summarize adds up the dollars *)
(* of what it found.  Of the Greeks that are scaled by the size of the     *)
(* position only the delta is modelled; the others are added likewise.     *)
(***************************************************************************)
EXTENDS Core, Sequences, SequencesExt

CONSTANTS
    Quoted,        \* symbols the provider has a quote for |-> doubled midpoints
    Asked,         \* lists of symbols a user may ask for
    LastDay        \* bound of the clock

VARIABLES
    day,           \* the clock, in days
    valuation,     \* symbols to price, the reading of the clock, the step
    positions,
    output         \* what the command prints

portfolioVars == <<day, valuation, positions, output>>

(* No symbols on the command line are all that are configured, in order.   *)
Selected(asked) == IF asked = <<>> THEN SetToSeq(DOMAIN Contracts) ELSE asked

PortfolioInit ==
    /\ day = 0
    /\ \E asked \in Asked :
          valuation = [todo |-> Selected(asked), now |-> None, step |-> "start"]
    /\ positions = <<>>
    /\ output = None

Prints(result) ==
    /\ output' = Some(result)
    /\ valuation' = [valuation EXCEPT !.step = "ended"]
    /\ UNCHANGED <<day, positions>>

(* An empty portfolio is refused, a provider must be there, then the clock  *)
(* is read.                                                                *)
Begin ==
    /\ valuation.step = "start"
    /\ IF valuation.todo = <<>> THEN Prints(Fail("UnknownSymbol"))
       ELSE \/ Prints(Fail("ProviderNotBuilt"))
            \/ /\ valuation' = [valuation EXCEPT !.now = Some(day), !.step = "next"]
               /\ UNCHANGED <<day, positions, output>>

Next_ == Head(valuation.todo)

Mut_ReadClockAgain(midpoint2) ==
    resolve_contract(Contracts, Next_, NoOverrides, midpoint2, day)

Resolved(midpoint2) ==
    resolve_contract(Contracts, Next_, NoOverrides, midpoint2, Value(valuation.now))

(* One position: market data, contract, core, each of which may fail.      *)
PriceOne ==
    /\ valuation.step = "next" /\ valuation.todo # <<>>
    /\ \/ Prints(Fail("MarketData")) \/ Prints(Fail("CoreError"))
       \/ /\ Next_ \in DOMAIN Quoted
          /\ \E midpoint2 \in Quoted[Next_] :
                LET contract == Resolved(midpoint2)
                IN  IF Failed(contract) THEN Prints(contract)
                    ELSE \E answer \in Answers(contract, Multiplier, midpoint2) :
                            IF Failed(answer) THEN Prints(answer)
                            ELSE /\ positions' = Append(positions,
                                        [symbol |-> Next_, days |-> contract.days_to_expiry,
                                         core |-> answer])
                                 /\ valuation' = [valuation EXCEPT !.todo = Tail(@)]
                                 /\ UNCHANGED <<day, output>>

summarize(found) ==
    [position_count |-> Len(found),
     dollar_delta2 |-> FoldLeft(LAMBDA sum, p : sum + p.core.position * p.core.midpoint2, 0, found),
     stock_notional2 |-> FoldLeft(LAMBDA sum, p : sum + p.core.notional2, 0, found)]

Summarize ==
    /\ valuation.step = "next" /\ valuation.todo = <<>>
    /\ Prints([positions |-> positions, summary |-> summarize(positions)])

(* The day ends while the positions are priced.                            *)
DayPasses ==
    /\ day < LastDay /\ day' = day + 1
    /\ UNCHANGED <<valuation, positions, output>>

PortfolioNext == Begin \/ PriceOne \/ Summarize \/ DayPasses

-----------------------------------------------------------------------------
(* Positions are comparable: two that expire on the same date are priced   *)
(* as equally far from it, however long the run took (one now for all,     *)
(* lib.rs 84).                                                             *)
OneValuationTime ==
    \A p, q \in ToSet(positions) :
        Contracts[p.symbol].expiry = Contracts[q.symbol].expiry
            /\ Contracts[p.symbol].expiry # None
        => p.days = q.days
================================================================================
