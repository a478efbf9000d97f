--------------------------------- MODULE Core ---------------------------------
(***************************************************************************)
(* What is priced and who prices it.  resolve_contract makes a contract of *)
(* what is configured, what a call overrides, the quote and the clock; the *)
(* deterministic C++ core takes it as a command line of numbers and gives  *)
(* a hedge or a refusal.  Numbers are integers, prices in ticks, time in   *)
(* days, shares and deltas in quarters; two integers stand for the f64     *)
(* that are no number and that have no bound.  Before expiry the delta is  *)
(* whatever the pricing finds within the bounds of an option's delta; at   *)
(* expiry it is what the payoff says.                                      *)
(***************************************************************************)
EXTENDS Results, Integers, Sequences

CONSTANTS
    IntMax,        \* std::numeric_limits<int>::max(), or the model's own
    Contracts,     \* config.contracts: symbol |-> contract
    Multiplier,    \* of each of them
    NaN, Infinite,
    ClosingDay     \* texts of dates that parse |-> the day of that close

ContractType ==
    [strike : Seq(Int), expiry : Seq(STRING), option_type : STRING, exercise_style : STRING,
     implied_volatility : Int, days_to_expiry : Int, contracts : Int, current_shares : Int,
     base_no_trade_band_shares : Int]

ASSUME CoreAssumption ==
    /\ IntMax \in Nat /\ Multiplier \in Int
    /\ \A symbol \in DOMAIN Contracts : Contracts[symbol] \in ContractType

ASSUME FloatAssumption == NaN \in Int /\ Infinite \in Int /\ NaN # Infinite

IsNumeral(x) == x \notin {NaN, Infinite}

(* x.max(0.0), which takes NaN for zero.                                   *)
AtLeastZero(x) == IF x = NaN THEN 0 ELSE IF x = Infinite \/ x >= 0 THEN x ELSE 0

NoOverrides == [strike |-> None, vol |-> None, days |-> None, current_shares |-> None,
                contracts |-> None]

Overridden(contract, overrides) ==
    [contract EXCEPT
        !.strike = IF Given(overrides.strike) THEN overrides.strike ELSE @,
        !.implied_volatility = Else(overrides.vol, @),
        !.days_to_expiry = Else(overrides.days, @),
        !.current_shares = Else(overrides.current_shares, @),
        !.contracts = Else(overrides.contracts, @)]

(* days_to_expiry_from_date, and the static number of days without a date.  *)
DaysToExpiry(contract, now) ==
    IF Given(contract.expiry) THEN AtLeastZero(ClosingDay[Value(contract.expiry)] - now)
    ELSE AtLeastZero(contract.days_to_expiry)

(* midpoint.round(), of a doubled midpoint: halves go up.                  *)
AtTheMoney(midpoint2) == (midpoint2 + 1) \div 2

resolve_contract(contracts, symbol, overrides, midpoint2, now) ==
    LET contract == Overridden(contracts[symbol], overrides)
        strike == Else(contract.strike, AtTheMoney(midpoint2))
    IN  IF symbol \notin DOMAIN contracts THEN Fail("UnknownSymbol")
        ELSE IF Given(contract.expiry) /\ Value(contract.expiry) \notin DOMAIN ClosingDay
        THEN Fail("InvalidExpiryDate")
        ELSE IF contract.option_type \notin {"call", "put"} THEN Fail("InvalidOptionType")
        ELSE IF contract.exercise_style \notin {"american", "european"}
        THEN Fail("InvalidExerciseStyle")
        ELSE IF ~IsNumeral(strike) \/ strike <= 0 THEN Fail("InvalidStrike")
        ELSE [contract EXCEPT !.strike = Some(strike), !.expiry = None,
                              !.days_to_expiry = DaysToExpiry(contract, now)]
-----------------------------------------------------------------------------
(* parse_double takes finite numbers only, parse_int an int.               *)
Parses(contract) ==
    /\ \A x \in {contract.implied_volatility, contract.days_to_expiry, contract.current_shares,
                 contract.base_no_trade_band_shares} : IsNumeral(x)
    /\ contract.contracts \in -IntMax - 1..IntMax

(* validate, the parts that a resolved contract and the configuration can  *)
(* still get wrong; volatility is in hundredths.                           *)
validate(contract, midpoint2) ==
    /\ midpoint2 > 0
    /\ contract.implied_volatility > 0 /\ contract.implied_volatility < 1000
    /\ contract.days_to_expiry <= 36500
    /\ contract.base_no_trade_band_shares >= 0

(* calculate_price_greeks at expiry: in, out of, or exactly at the money.  *)
ExpiryDelta(contract, midpoint2) ==
    LET moneyness == midpoint2 - 2 * Value(contract.strike)
        exercised == IF contract.option_type = "call" THEN moneyness > 0 ELSE moneyness < 0
        size == IF exercised THEN 4 ELSE IF moneyness = 0 THEN 2 ELSE 0
    IN  IF contract.option_type = "call" THEN size ELSE -size

Deltas(contract, midpoint2) ==
    IF contract.days_to_expiry = 0 THEN {ExpiryDelta(contract, midpoint2)}
    ELSE IF contract.option_type = "call" THEN 0..4 ELSE -4..0

Size(x) == IF x >= 0 THEN x ELSE -x

(* calculate: the stock that offsets the position's delta, and the trade   *)
(* towards it unless that is inside the band.                              *)
calculate(contract, multiplier, midpoint2, delta) ==
    LET position == contract.contracts * multiplier * delta
        raw == -position - contract.current_shares
        trade == IF Size(raw) <= contract.base_no_trade_band_shares THEN 0 ELSE raw
    IN  [position |-> position, target |-> -position, raw |-> raw, recommended |-> trade,
         notional2 |-> Size(trade) * midpoint2, midpoint2 |-> midpoint2,
         current |-> contract.current_shares, band |-> contract.base_no_trade_band_shares]

(* Every answer the core may give: exit status 2, or a hedge.              *)
Answers(contract, multiplier, midpoint2) ==
    IF Parses(contract) /\ validate(contract, midpoint2)
    THEN {calculate(contract, multiplier, midpoint2, delta) : delta \in Deltas(contract, midpoint2)}
    ELSE {Fail("NonZeroExit")}
================================================================================
