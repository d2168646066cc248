------------------------------ MODULE CfdMath ------------------------------
(***************************************************************************)
(* The money of a CFD: the margins of an Order, what open locks in the     *)
(* channel, and what settle pays the taker out of it at a closing price.   *)
(* A BTC/USD contract is inverse: quantity USD are worth quantity/price    *)
(* BTC.                                                                    *)
(*                                                                         *)
(* Amounts are integers: multiples of the 8th decimal (one of Unit parts   *)
(* of a bitcoin), which is where the code rounds, and thousandths of that  *)
(* for what is locked.  The code's Decimal quotients have 28 digits; that  *)
(* a last digit could move a tie is left out.                              *)
(***************************************************************************)
EXTENDS Integers

CONSTANTS
    Unit,           \* parts a bitcoin is rounded to
    Prices,         \* open and closing prices; 0 stands for "no offer"
    Quantities,     \* contract sizes in USD
    Leverages,
    FarPrice        \* the liquidation price of a short position at leverage 1
                    \* (21_000_000)

ASSUME ConstantsAssumption ==
    /\ Unit \in Nat \ {0}
    /\ Prices \subseteq Nat /\ Quantities \subseteq Nat
    /\ Leverages \subseteq Nat \ {0} /\ FarPrice \in Nat \ {0}

Order == [position : {"Long", "Short"}, price : Prices,
          quantity : Quantities, leverage : Leverages]

VARIABLES
    order,          \* the order the cfd was opened with
    lost,           \* thousandths the conversion to u64 cut off
    close           \* the closing price of the moment

vars == <<order, lost, close>>

\* n / d, rounded with MidpointAwayFromZero, for d > 0.
Round(n, d) == IF n >= 0 THEN (2 * n + d) \div (2 * d)
                         ELSE -((d - 2 * n) \div (2 * d))

Margin(price, quantity, leverage) ==
    IF price = 0 \/ leverage = 0 THEN 0
    ELSE Round(quantity * Unit, price * leverage)

MarginTaker(o) == Margin(o.price, o.quantity, o.leverage)
MarginMaker(o) == Margin(o.price, o.quantity, 1)

\* Mutant: the taker's margin counts twice.
MarginTotalDouble(o) == 2 * MarginTaker(o) + MarginMaker(o)

MarginTotal(o) == MarginTaker(o) + MarginMaker(o)

\* Mutant: a linear contract.
UncappedPnlLinear(o, c) == Round(o.quantity * Unit * (o.price - c), o.price * o.price)

UncappedPnlLong(o, c) ==
    Round(o.quantity * Unit * (c - o.price), o.price * c)

\* Mutant: the profit of the other side.
UncappedPayoutSwapped(o, c) ==
    IF o.position = "Short" THEN MarginTaker(o) + UncappedPnlLong(o, c)
                            ELSE MarginTaker(o) - UncappedPnlLong(o, c)

UncappedPayout(o, c) ==
    IF o.position = "Long" THEN MarginTaker(o) + UncappedPnlLong(o, c)
                           ELSE MarginTaker(o) - UncappedPnlLong(o, c)

\* Mutant: losses are not capped.
CappedAbove(amount, top) == IF amount > top THEN top ELSE amount

Capped(amount, top) ==
    IF amount > top THEN top ELSE IF amount < 0 THEN 0 ELSE amount

Payout(o, c) ==
    IF o.price = 0 \/ c = 0 THEN 0
    ELSE Capped(UncappedPayout(o, c), MarginTotal(o))

\* The taker's margin in thousandths, and leverage times that for the maker.
LockedTaker(o) == 1000 * MarginTaker(o) - lost
LockedMaker(o) == LockedTaker(o) * o.leverage
Locked(o) == LockedTaker(o) + LockedMaker(o)

\* calculate_liquidation_price is price * leverage / (leverage +- 1), but for a
\* short position at leverage 1, whatever its opening price, a fixed far price.
Unleveraged(o) == o.position = "Short" /\ o.leverage = 1

BeyondLiquidation(o, c) ==
    IF o.position = "Long" THEN c * (o.leverage + 1) <= o.price * o.leverage
    ELSE IF Unleveraged(o) THEN c >= FarPrice
    ELSE c * (o.leverage - 1) >= o.price * o.leverage

\* The f64 product that is converted may be a hair below the whole number.
Init ==
    /\ order \in Order /\ close \in Prices
    /\ lost \in IF MarginTaker(order) = 0 THEN {0} ELSE {0, 1}

PriceMoves == close' \in Prices /\ UNCHANGED <<order, lost>>

Next == PriceMoves

Spec == Init /\ [][Next]_vars

-----------------------------------------------------------------------------
(* Properties *)

\* The variables have their types.
TypeOK == order \in Order /\ lost \in {0, 1} /\ close \in Prices

\* The taker never owes money and never gets more than both margins.
PayoutWithinMargins ==
    0 <= Payout(order, close) /\ Payout(order, close) <= MarginTotal(order)

\* Margin and profit are rounded separately: what is paid out may exceed what
\* was locked, but only by the rounding of the two margins.
OverpaidByRoundingOnly ==
    2 * (1000 * Payout(order, close) - Locked(order))
        <= (order.leverage + 1) * 1002

\* A position beyond its liquidation price is worth no more than one unit of
\* rounding; a short one at leverage 1, for which calculate_short_liquidation_price
\* returns the far price instead of none, also what its contracts are worth
\* there, quantity / FarPrice.
LiquidationLeavesLittle ==
    close # 0 /\ BeyondLiquidation(order, close) =>
        (Payout(order, close) - 1) * FarPrice
            <= IF Unleveraged(order) THEN order.quantity * Unit ELSE 0

\* A better closing price never pays less.
PayoutFollowsPrice ==
    [][close # 0 /\ close <= close' =>
         IF order.position = "Long"
         THEN Payout(order, close) <= Payout(order, close')
         ELSE Payout(order, close) >= Payout(order, close')]_vars

\* "the coins in the custom output can be split up between the two parties":
\* the taker's part is not more than the coins in it.
PayoutIsASplit == 1000 * Payout(order, close) <= Locked(order)
=============================================================================
