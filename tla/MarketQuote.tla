----------------------------- MODULE MarketQuote -----------------------------
(***************************************************************************)
(* The arithmetic of a top-of-book quote and the way the read-only Alpaca  *)
(* adapter builds one.  Prices are integer ticks.  The midpoint is kept    *)
(* doubled, so that (bid + ask) / 2 needs no fractions; a spread in basis  *)
(* points is compared by cross-multiplication instead of being divided.    *)
(***************************************************************************)
EXTENDS Integers

CONSTANT Unparseable   \* the timestamp of a quote that TimestampUtc cannot parse

(* A quote: bid, ask and last trade in ticks, when it was taken, and the   *)
(* session the provider saw.                                               *)
QuoteType ==
    [bid : Int, ask : Int, last : Int, time : Int \cup {Unparseable},
     market_state : {"open", "closed"}]

(* Quote::midpoint, doubled: the middle of a sane book, else the last trade. *)
Midpoint2(q) ==
    IF q.bid > 0 /\ q.ask >= q.bid THEN q.bid + q.ask ELSE 2 * q.last

(* Quote::spread_bps is infinite for a crossed book or a worthless midpoint. *)
SpreadIsInfinite(q) == Midpoint2(q) <= 0 \/ q.ask < q.bid

(* spread_bps > limit, a spread of (ask - bid) / mid * 10000.               *)
SpreadExceeds(q, limit) ==
    \/ SpreadIsInfinite(q)
    \/ (q.ask - q.bid) * 2 * 10000 > limit * Midpoint2(q)

Mut_AgeEitherWay(q, now) == IF now >= q.time THEN now - q.time ELSE q.time - now

(* Seconds from the quote to now, never negative: a quote stamped in the   *)
(* future counts as brand new.  Only for a quote whose time was parsed.    *)
QuoteAge(q, now) == IF now >= q.time THEN now - q.time ELSE 0

(* quote_age > max_age; an unparseable time is infinitely old.              *)
IsStale(q, now, max_age) ==
    q.time = Unparseable \/ QuoteAge(q, now) > max_age

-----------------------------------------------------------------------------
(* build_quote: one side of the exchange's quote, with zero standing for a *)
(* missing price in bp and ap.  A missing side becomes the last bar's close *)
(* on that side alone.                                                      *)
SideOr(price, close) == IF price = 0 THEN close ELSE price

build_quote(book, close, market_state) ==
    [bid  |-> SideOr(book.bp, close),
     ask  |-> SideOr(book.ap, close),
     last |-> close,
     time |-> book.t,
     market_state |-> market_state]
=============================================================================
