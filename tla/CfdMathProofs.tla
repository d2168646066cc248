--------------------------- MODULE CfdMathProofs ---------------------------
(***************************************************************************)
(* Proofs about CfdMath, for every price, quantity, leverage and Unit: a   *)
(* payout stays within the margins, exceeds what was locked by no more     *)
(* than the rounding of the two margins, is worth a unit of rounding once  *)
(* the liquidation price is passed (or the little that is left at the far  *)
(* price a short position without leverage has instead of one), and moves  *)
(* with the price of the position.                                         *)
(***************************************************************************)
EXTENDS CfdMath, TLAPS

-----------------------------------------------------------------------------
(* Rounding *)

\* What integer division returns.
LEMMA DivBounds ==
    ASSUME NEW a \in Int, NEW b \in Nat \ {0}
    PROVE  /\ a \div b \in Int
           /\ b * (a \div b) <= a
           /\ a < b * (a \div b) + b
  BY Z3

\* Rounding returns the nearest integer.
LEMMA RoundNearest ==
    ASSUME NEW n \in Int, NEW d \in Nat \ {0}
    PROVE  /\ Round(n, d) \in Int
           /\ n >= 0 => Round(n, d) >= 0
           /\ 2 * d * Round(n, d) <= 2 * n + d
           /\ 2 * n - d <= 2 * d * Round(n, d)
  <1>1. 2 * d \in Nat \ {0}
    OBVIOUS
  <1>2. CASE n >= 0
    <2> DEFINE q == (2 * n + d) \div (2 * d)
    <2>1. 2 * n + d \in Int
      OBVIOUS
    <2>2. /\ q \in Int
          /\ (2 * d) * q <= 2 * n + d
          /\ 2 * n + d < (2 * d) * q + 2 * d
      BY <1>1, <2>1, DivBounds
    <2>3. Round(n, d) = q
      BY <1>2 DEF Round
    <2> HIDE DEF q
    <2>4. q >= 0
      <3> SUFFICES ASSUME q < 0 PROVE FALSE
        BY <2>2
      <3>1. q <= -1
        BY <2>2
      <3>2. (2 * d) * q <= (2 * d) * (-1)
        BY <3>1, <1>1, <2>2
      <3> QED BY <3>2, <2>2, <1>2
    <2> QED BY <2>2, <2>3, <2>4
  <1>3. CASE n < 0
    <2> DEFINE q == (d - 2 * n) \div (2 * d)
    <2>1. d - 2 * n \in Int
      OBVIOUS
    <2>2. /\ q \in Int
          /\ (2 * d) * q <= d - 2 * n
          /\ d - 2 * n < (2 * d) * q + 2 * d
      BY <1>1, <2>1, DivBounds
    <2>3. Round(n, d) = -q
      BY <1>3 DEF Round
    <2> HIDE DEF q
    <2>4. 2 * d * (-q) = -((2 * d) * q)
      BY <2>2
    <2> QED BY <1>3, <2>2, <2>3, <2>4
  <1> QED BY <1>2, <1>3

\* A tie is rounded away from zero: the other neighbour is never reached.
LEMMA RoundTies ==
    ASSUME NEW n \in Int, NEW d \in Nat \ {0}
    PROVE  /\ n >= 0 => 2 * n - d < 2 * d * Round(n, d)
           /\ n < 0 => 2 * d * Round(n, d) < 2 * n + d
  <1>1. 2 * d \in Nat \ {0} /\ 2 * n + d \in Int /\ d - 2 * n \in Int
    OBVIOUS
  <1>2. ASSUME n >= 0 PROVE 2 * n - d < 2 * d * Round(n, d)
    <2> DEFINE q == (2 * n + d) \div (2 * d)
    <2>1. q \in Int /\ 2 * n + d < (2 * d) * q + 2 * d
      BY <1>1, DivBounds
    <2>2. Round(n, d) = q
      BY <1>2 DEF Round
    <2> HIDE DEF q
    <2> QED BY <2>1, <2>2
  <1>3. ASSUME n < 0 PROVE 2 * d * Round(n, d) < 2 * n + d
    <2> DEFINE q == (d - 2 * n) \div (2 * d)
    <2>1. q \in Int /\ d - 2 * n < (2 * d) * q + 2 * d
      BY <1>1, DivBounds
    <2>2. Round(n, d) = -q
      BY <1>3 DEF Round
    <2> HIDE DEF q
    <2>3. 2 * d * (-q) = -((2 * d) * q)
      BY <2>1
    <2> QED BY <2>1, <2>2, <2>3
  <1> QED BY <1>2, <1>3

\* What two products with the same positive factor say of the other factors.
LEMMA CancelFactor ==
    ASSUME NEW k \in Nat \ {0}, NEW x \in Int, NEW y \in Int
    PROVE  /\ k * x <= k * y <=> x <= y
           /\ k * x < k * y <=> x < y
  <1>1. x <= y => k * x <= k * y
    OBVIOUS
  <1>2. ASSUME x < y PROVE k * x < k * y
    <2>1. k * (y - x) > 0
      BY <1>2
    <2>2. k * (y - x) = k * y - k * x
      OBVIOUS
    <2> QED BY <2>1, <2>2
  <1>3. ASSUME y < x PROVE k * y < k * x
    <2>1. k * (x - y) > 0
      BY <1>3
    <2>2. k * (x - y) = k * x - k * y
      OBVIOUS
    <2> QED BY <2>1, <2>2
  <1> QED BY <1>1, <1>2, <1>3

\* Rounding keeps the order of fractions, ties included.
LEMMA RoundMonotone ==
    ASSUME NEW n1 \in Int, NEW d1 \in Nat \ {0},
           NEW n2 \in Int, NEW d2 \in Nat \ {0},
           n1 * d2 <= n2 * d1
    PROVE  Round(n1, d1) <= Round(n2, d2)
  <1> DEFINE r1 == Round(n1, d1)
             r2 == Round(n2, d2)
  <1>1. /\ r1 \in Int /\ r2 \in Int
        /\ 2 * d1 * r1 <= 2 * n1 + d1
        /\ 2 * n2 - d2 <= 2 * d2 * r2
    BY RoundNearest
  <1>2. /\ n2 >= 0 => 2 * n2 - d2 < 2 * d2 * r2
        /\ n1 < 0 => 2 * d1 * r1 < 2 * n1 + d1
    BY RoundTies
  <1> HIDE DEF r1, r2
  <1>3. SUFFICES ASSUME r2 + 1 <= r1 PROVE FALSE
    BY <1>1 DEF r1, r2
  \* Both fractions, brought to the denominator d1 * d2.
  <1>4. /\ d2 * (2 * d1 * r1) <= d2 * (2 * n1 + d1)
        /\ d1 * (2 * n2 - d2) <= d1 * (2 * d2 * r2)
        /\ n2 >= 0 => d1 * (2 * n2 - d2) < d1 * (2 * d2 * r2)
        /\ n1 < 0 => d2 * (2 * d1 * r1) < d2 * (2 * n1 + d1)
    <2>1. /\ 2 * d1 * r1 \in Int /\ 2 * n1 + d1 \in Int
          /\ 2 * n2 - d2 \in Int /\ 2 * d2 * r2 \in Int
      BY <1>1
    <2> QED BY <1>1, <1>2, <2>1, CancelFactor
  <1> DEFINE e == d1 * d2
             x == n1 * d2
             y == n2 * d1
  <1>5. /\ d2 * (2 * d1 * r1) = 2 * (e * r1) /\ d2 * (2 * n1 + d1) = 2 * x + e
        /\ d1 * (2 * n2 - d2) = 2 * y - e /\ d1 * (2 * d2 * r2) = 2 * (e * r2)
    BY <1>1
  <1>6. e \in Nat \ {0} /\ x \in Int /\ y \in Int /\ x <= y
    OBVIOUS
  <1>7. n1 < 0 \/ n2 >= 0
    <2> SUFFICES ASSUME n1 >= 0, n2 < 0 PROVE FALSE
      OBVIOUS
    <2>1. n1 * d2 >= 0
      OBVIOUS
    <2>2. n2 * d1 < 0
      OBVIOUS
    <2> QED BY <2>1, <2>2
  <1> HIDE DEF e, x, y
  <1>8. /\ e * r1 \in Int /\ e * r2 \in Int
        /\ e * r2 + e <= e * r1
    <2>1. e * (r2 + 1) <= e * r1
      BY <1>1, <1>3, <1>6, CancelFactor
    <2>2. e * (r2 + 1) = e * r2 + e
      BY <1>1, <1>6
    <2> QED BY <1>1, <1>6, <2>1, <2>2
  <1>9. /\ 2 * (e * r1) <= 2 * x + e /\ 2 * y - e <= 2 * (e * r2)
        /\ 2 * (e * r1) < 2 * x + e \/ 2 * y - e < 2 * (e * r2)
    BY <1>4, <1>5, <1>7
  <1> QED BY <1>6, <1>8, <1>9

-----------------------------------------------------------------------------
(* Margins *)

\* A margin is the nearest amount to quantity * Unit / (price * leverage).
LEMMA MarginNearest ==
    ASSUME NEW price \in Nat, NEW quantity \in Nat, NEW leverage \in Nat \ {0}
    PROVE  /\ Margin(price, quantity, leverage) \in Nat
           /\ price = 0 => Margin(price, quantity, leverage) = 0
           /\ price > 0 =>
                /\ 2 * (price * leverage) * Margin(price, quantity, leverage)
                      <= 2 * (quantity * Unit) + price * leverage
                /\ 2 * (quantity * Unit) - price * leverage
                      <= 2 * (price * leverage) * Margin(price, quantity, leverage)
  <1>1. quantity * Unit \in Nat
    BY ConstantsAssumption
  <1>2. CASE price = 0
    BY <1>2 DEF Margin
  <1>3. CASE price > 0
    <2>1. price * leverage \in Nat \ {0}
      <3>1. price * leverage \in Nat
        OBVIOUS
      <3>2. price * leverage # 0
        BY <1>3
      <3> QED BY <3>1, <3>2
    <2>2. Margin(price, quantity, leverage)
            = Round(quantity * Unit, price * leverage)
      BY <1>3 DEF Margin
    <2> DEFINE n == quantity * Unit
               d == price * leverage
    <2>3. /\ Round(n, d) \in Int /\ Round(n, d) >= 0
          /\ 2 * d * Round(n, d) <= 2 * n + d
          /\ 2 * n - d <= 2 * d * Round(n, d)
      <3>1. n \in Int /\ n >= 0 /\ d \in Nat \ {0}
        BY <1>1, <2>1
      <3> HIDE DEF n, d
      <3> QED BY <3>1, RoundNearest
    <2>4. Margin(price, quantity, leverage) = Round(n, d)
      BY <2>2
    <2>5. Margin(price, quantity, leverage) \in Nat
      BY <2>3, <2>4
    <2> QED BY <1>3, <2>3, <2>4, <2>5
  <1> QED BY <1>2, <1>3

\* The types of what an order's money is computed from.
LEMMA OrderMoney ==
    ASSUME NEW o \in Order
    PROVE  /\ o.price \in Nat /\ o.quantity \in Nat
           /\ o.leverage \in Nat \ {0}
           /\ MarginTaker(o) \in Nat /\ MarginMaker(o) \in Nat
           /\ MarginTotal(o) \in Nat
  <1>1. o.price \in Nat /\ o.quantity \in Nat /\ o.leverage \in Nat \ {0}
    BY ConstantsAssumption DEF Order
  <1>2. MarginTaker(o) \in Nat
    BY <1>1, MarginNearest DEF MarginTaker
  <1>3. MarginMaker(o) \in Nat
    <2>1. 1 \in Nat \ {0}
      OBVIOUS
    <2>2. Margin(o.price, o.quantity, 1) \in Nat
      BY <1>1, <2>1, MarginNearest
    <2> QED BY <2>2 DEF MarginMaker
  <1> QED BY <1>1, <1>2, <1>3 DEF MarginTotal

-----------------------------------------------------------------------------
(* Payouts *)

\* calculate_payout_at_price stays between nothing and both margins.
LEMMA PayoutBounded ==
    ASSUME NEW o \in Order, NEW c \in Nat
    PROVE  /\ Payout(o, c) \in Nat
           /\ Payout(o, c) <= MarginTotal(o)
  <1>1. MarginTotal(o) \in Nat
    BY OrderMoney
  <1>2. CASE o.price = 0 \/ c = 0
    BY <1>1, <1>2 DEF Payout
  <1>3. CASE ~(o.price = 0 \/ c = 0)
    <2>1. o.price * c \in Nat \ {0}
      <3>1. o.price \in Nat /\ o.price > 0 /\ c > 0
        BY <1>3, OrderMoney
      <3>2. o.price * c # 0
        BY <3>1
      <3> QED BY <3>1, <3>2
    <2>2. o.quantity * Unit * (c - o.price) \in Int
      <3>1. o.quantity \in Nat /\ o.price \in Nat
        BY OrderMoney
      <3>2. o.quantity * Unit \in Nat
        BY <3>1, ConstantsAssumption
      <3> QED BY <3>1, <3>2
    <2>3. UncappedPnlLong(o, c) \in Int
      BY <2>1, <2>2, RoundNearest DEF UncappedPnlLong
    <2>4. UncappedPayout(o, c) \in Int
      BY <2>3, OrderMoney DEF UncappedPayout
    <2>5. Payout(o, c) = Capped(UncappedPayout(o, c), MarginTotal(o))
      BY <1>3 DEF Payout
    <2> QED BY <1>1, <2>4, <2>5 DEF Capped
  <1> QED BY <1>2, <1>3

\* The maker's margin exceeds leverage times the taker's by rounding only.
LEMMA MarginsAgree ==
    ASSUME NEW o \in Order
    PROVE  2 * (MarginMaker(o) - o.leverage * MarginTaker(o)) <= o.leverage + 1
  <1> DEFINE p == o.price
             l == o.leverage
             n == o.quantity * Unit
             t == MarginTaker(o)
             m == MarginMaker(o)
  <1>1. p \in Nat /\ l \in Nat \ {0} /\ n \in Nat /\ t \in Nat /\ m \in Nat
    BY OrderMoney, ConstantsAssumption
  <1>0. 1 \in Nat \ {0}
    OBVIOUS
  <1>2. CASE p = 0
    <2>1. t = 0
      BY <1>2, OrderMoney, MarginNearest DEF MarginTaker
    <2>2. m = 0
      BY <1>2, <1>0, OrderMoney, MarginNearest DEF MarginMaker
    <2> QED BY <1>1, <2>1, <2>2
  <1>3. CASE p > 0
    <2>1. 2 * n - p * l <= 2 * (p * l) * t
      BY <1>3, OrderMoney, MarginNearest DEF MarginTaker
    <2>2. 2 * (p * 1) * m <= 2 * n + p * 1
      BY <1>3, <1>0, OrderMoney, MarginNearest DEF MarginMaker
    <2> HIDE DEF p, l, n, t, m
    <2>3. (p * l) * t = p * (l * t)
      BY <1>1
    <2>4. l * t \in Nat
      BY <1>1
    <2>5. p * (2 * (m - l * t)) <= p * (l + 1)
      BY <1>1, <2>1, <2>2, <2>3, <2>4
    <2>6. 2 * (m - l * t) <= l + 1
      <3> DEFINE x == 2 * (m - l * t)
                 y == l + 1
      <3>1. x \in Int /\ y \in Int
        BY <1>1, <2>4
      <3>2. p * x <= p * y
        BY <2>5
      <3> HIDE DEF x, y
      <3>3. SUFFICES ASSUME x > y PROVE FALSE
        BY <3>1 DEF x, y
      <3>4. p * (x - y) > 0
        BY <1>1, <1>3, <3>1, <3>3
      <3>5. p * (x - y) = p * x - p * y
        BY <1>1, <3>1
      <3> QED BY <3>1, <3>2, <3>4, <3>5, <1>1
    <2> QED BY <2>6 DEF m, l, t
  <1> QED BY <1>1, <1>2, <1>3

\* An order with a price has a taker's margin and a profit that are off by at
\* most a half, each for its own denominator.
LEMMA MoneyNearest ==
    ASSUME NEW o \in Order, NEW c \in Nat \ {0}, o.price # 0
    PROVE  LET p == o.price
               l == o.leverage
               n == o.quantity * Unit
               t == MarginTaker(o)
               r == UncappedPnlLong(o, c)
           IN  /\ p \in Nat \ {0} /\ l \in Nat \ {0} /\ n \in Nat
               /\ t \in Nat /\ r \in Int
               /\ 2 * (p * l) * t <= 2 * n + p * l
               /\ 2 * (p * c) * r <= 2 * (n * (c - p)) + p * c
               /\ 2 * (n * (c - p)) - p * c <= 2 * (p * c) * r
  <1> DEFINE p == o.price
             l == o.leverage
             n == o.quantity * Unit
             t == MarginTaker(o)
             r == UncappedPnlLong(o, c)
  <1>1. p \in Nat \ {0} /\ l \in Nat \ {0} /\ n \in Nat /\ t \in Nat
    BY OrderMoney, ConstantsAssumption
  <1>2. 2 * (p * l) * t <= 2 * n + p * l
    <2>1. o.price > 0
      BY <1>1
    <2> QED BY <2>1, OrderMoney, MarginNearest DEF MarginTaker
  <1>3. r = Round(n * (c - p), p * c)
    BY DEF UncappedPnlLong
  <1> HIDE DEF p, l, n, t, r
  <1>4. n * (c - p) \in Int /\ p * c \in Nat \ {0}
    BY <1>1
  <1>5. /\ r \in Int
        /\ 2 * (p * c) * r <= 2 * (n * (c - p)) + p * c
        /\ 2 * (n * (c - p)) - p * c <= 2 * (p * c) * r
    BY <1>3, <1>4, RoundNearest
  <1> QED BY <1>1, <1>2, <1>5 DEF p, l, n, t, r

\* What margin and profit come to together, over the common denominator
\* 2 * price * leverage * c, where k = price * leverage * c.
LEMMA WorthNearest ==
    ASSUME NEW p \in Nat \ {0}, NEW l \in Nat \ {0}, NEW n \in Nat,
           NEW c \in Nat \ {0}, NEW t \in Nat, NEW r \in Int,
           2 * (p * l) * t <= 2 * n + p * l,
           2 * (p * c) * r <= 2 * (n * (c - p)) + p * c,
           2 * (n * (c - p)) - p * c <= 2 * (p * c) * r
    PROVE  LET k == p * l * c
               m == l * (n * (c - p))
           IN  /\ k \in Nat \ {0} /\ m \in Int
               /\ k * (t + r) <= n * c + m + k
               /\ k * (t - r) <= n * c - m + k
  <1> DEFINE k == p * l * c
             q == n * (c - p)
  <1>1. k \in Nat \ {0}
    OBVIOUS
  <1>2. 2 * (k * t) <= 2 * (n * c) + k
    <2>1. 2 * (p * l) * t \in Int /\ 2 * n + p * l \in Int
      OBVIOUS
    <2>2. c * (2 * (p * l) * t) <= c * (2 * n + p * l)
      BY <2>1, CancelFactor
    <2>3. c * (2 * (p * l) * t) = 2 * (k * t) /\ c * (2 * n + p * l) = 2 * (n * c) + k
      OBVIOUS
    <2> QED BY <2>2, <2>3
  <1>3. q \in Int /\ p * c \in Int /\ l * (2 * (p * c) * r) = 2 * (k * r)
        /\ l * (2 * q + p * c) = 2 * (l * q) + k
        /\ l * (2 * q - p * c) = 2 * (l * q) - k
    OBVIOUS
  <1>4. 2 * (k * r) <= 2 * (l * q) + k /\ 2 * (l * q) - k <= 2 * (k * r)
    <2>1. /\ 2 * (p * c) * r \in Int /\ 2 * q + p * c \in Int /\ 2 * q - p * c \in Int
      BY <1>3
    <2>2. /\ l * (2 * (p * c) * r) <= l * (2 * q + p * c)
          /\ l * (2 * q - p * c) <= l * (2 * (p * c) * r)
      BY <2>1, CancelFactor
    <2> QED BY <1>3, <2>2
  <1>5. k * t \in Int /\ k * r \in Int /\ l * q \in Int /\ n * c \in Int
    BY <1>1, <1>3
  <1> HIDE DEF k, q
  <1>6. k * (t + r) = k * t + k * r /\ k * (t - r) = k * t - k * r
    BY <1>1
  <1>7. k * (t + r) <= n * c + l * q + k /\ k * (t - r) <= n * c - l * q + k
    BY <1>1, <1>2, <1>4, <1>5, <1>6
  <1> QED BY <1>1, <1>5, <1>7 DEF k, q

\* Beyond the liquidation price margin and loss cancel, up to two roundings.
LEMMA LiquidatedWorth ==
    ASSUME NEW o \in Order, NEW c \in Nat \ {0}, o.price # 0,
           BeyondLiquidation(o, c), ~Unleveraged(o)
    PROVE  UncappedPayout(o, c) <= 1
  <1> DEFINE p == o.price
             l == o.leverage
             n == o.quantity * Unit
             t == MarginTaker(o)
             r == UncappedPnlLong(o, c)
             k == p * l * c
             m == l * (n * (c - p))
  <1>1. /\ p \in Nat \ {0} /\ l \in Nat \ {0} /\ n \in Nat
        /\ t \in Nat /\ r \in Int
        /\ 2 * (p * l) * t <= 2 * n + p * l
        /\ 2 * (p * c) * r <= 2 * (n * (c - p)) + p * c
        /\ 2 * (n * (c - p)) - p * c <= 2 * (p * c) * r
    BY MoneyNearest
  <1>2. /\ o.position = "Long" => c * (l + 1) <= p * l
        /\ o.position # "Long" => p * l <= c * (l - 1)
    BY DEF BeyondLiquidation
  <1>3. UncappedPayout(o, c) = IF o.position = "Long" THEN t + r ELSE t - r
    BY DEF UncappedPayout
  <1> HIDE DEF p, l, n, t, r
  <1>4. /\ k \in Nat \ {0} /\ m \in Int
        /\ k * (t + r) <= n * c + m + k
        /\ k * (t - r) <= n * c - m + k
    BY <1>1, WorthNearest
  <1>5. /\ n * (c * (l + 1)) <= n * (p * l) => n * c + m <= 0
        /\ n * (p * l) <= n * (c * (l - 1)) => n * c - m <= 0
    BY <1>1
  <1>6. n * c \in Int /\ t + r \in Int /\ t - r \in Int
    BY <1>1
  <1> HIDE DEF k, m
  <1>7. CASE o.position = "Long"
    <2>1. n * (c * (l + 1)) <= n * (p * l)
      BY <1>1, <1>2, <1>7
    <2>2. k * (t + r) <= k * 1
      BY <1>4, <1>5, <1>6, <2>1
    <2>3. t + r <= 1
      BY <1>4, <1>6, <2>2, CancelFactor
    <2> QED BY <1>3, <1>7, <2>3
  <1>8. CASE o.position # "Long"
    <2>1. n * (p * l) <= n * (c * (l - 1))
      BY <1>1, <1>2, <1>8
    <2>2. k * (t - r) <= k * 1
      BY <1>4, <1>5, <1>6, <2>1
    <2>3. t - r <= 1
      BY <1>4, <1>6, <2>2, CancelFactor
    <2> QED BY <1>3, <1>8, <2>3
  <1> QED BY <1>7, <1>8

\* A short position without leverage is worth quantity / c at any price c,
\* whatever the price it was opened at: little, when c is far.
LEMMA UnleveragedWorth ==
    ASSUME NEW o \in Order, NEW c \in Nat \ {0}, o.price # 0,
           BeyondLiquidation(o, c), Unleveraged(o)
    PROVE  (UncappedPayout(o, c) - 1) * FarPrice <= o.quantity * Unit
  <1> DEFINE p == o.price
             n == o.quantity * Unit
             t == MarginTaker(o)
             r == UncappedPnlLong(o, c)
             k == p * 1 * c
             m == 1 * (n * (c - p))
  <1>1. /\ p \in Nat \ {0} /\ n \in Nat /\ t \in Nat /\ r \in Int
        /\ 2 * (p * 1) * t <= 2 * n + p * 1
        /\ 2 * (p * c) * r <= 2 * (n * (c - p)) + p * c
        /\ 2 * (n * (c - p)) - p * c <= 2 * (p * c) * r
    <2>1. o.leverage = 1
      BY DEF Unleveraged
    <2> QED BY <2>1, MoneyNearest
  <1>2. c >= FarPrice /\ UncappedPayout(o, c) = t - r
    BY DEF Unleveraged, BeyondLiquidation, UncappedPayout
  <1> HIDE DEF p, n, t, r
  <1>3. 1 \in Nat \ {0}
    OBVIOUS
  <1>4. k \in Nat \ {0} /\ m \in Int /\ k * (t - r) <= n * c - m + k
    BY <1>1, <1>3, WorthNearest
  <1>5. p * (c * (t - r)) <= p * (n + c)
    <2>1. p * (c * (t - r)) = k * (t - r)
      BY <1>1
    <2>2. n * c - m + k = p * (n + c)
      BY <1>1
    <2> QED BY <1>4, <2>1, <2>2
  <1> HIDE DEF k, m
  <1>6. c * (t - r) <= n + c
    <2>1. c * (t - r) \in Int /\ n + c \in Int
      BY <1>1
    <2> QED BY <1>1, <1>5, <2>1, CancelFactor
  <1> DEFINE w == t - r - 1
  <1>7. w \in Int /\ c * w <= n
    <2>1. c * (t - r - 1) = c * (t - r) - c
      BY <1>1
    <2> QED BY <1>1, <1>6, <2>1
  <1> HIDE DEF w
  <1>8. w * FarPrice <= n
    <2>1. FarPrice \in Nat \ {0}
      BY ConstantsAssumption
    <2>2. CASE w <= 0
      <3>1. w * FarPrice <= 0
        BY <1>7, <2>1, <2>2
      <3> QED BY <1>1, <1>7, <2>1, <3>1
    <2>3. CASE w > 0
      <3>1. w * FarPrice <= w * c
        BY <1>2, <1>7, <2>1, <2>3, CancelFactor
      <3>2. w * c = c * w
        BY <1>7
      <3> QED BY <1>1, <1>7, <2>1, <3>1, <3>2
    <2> QED BY <1>7, <2>2, <2>3
  <1> QED BY <1>2, <1>8 DEF w, n

\* The profit of a long position grows with the closing price: the two
\* quotients are compared by multiplying out.
LEMMA ProfitMonotone ==
    ASSUME NEW o \in Order, o.price # 0,
           NEW c \in Nat \ {0}, NEW d \in Nat \ {0}, c <= d
    PROVE  UncappedPnlLong(o, c) <= UncappedPnlLong(o, d)
  <1> DEFINE p == o.price
             n == o.quantity * Unit
  <1>1. p \in Nat \ {0} /\ n \in Nat
    BY OrderMoney, ConstantsAssumption
  <1>2. /\ UncappedPnlLong(o, c) = Round(n * (c - p), p * c)
        /\ UncappedPnlLong(o, d) = Round(n * (d - p), p * d)
    BY DEF UncappedPnlLong
  <1> HIDE DEF p, n
  <1>3. /\ n * (c - p) \in Int /\ p * c \in Nat \ {0}
        /\ n * (d - p) \in Int /\ p * d \in Nat \ {0}
    BY <1>1
  <1>4. (n * (c - p)) * (p * d) <= (n * (d - p)) * (p * c)
    <2>1. (n * (d - p)) * (p * c) - (n * (c - p)) * (p * d) = (n * (p * p)) * (d - c)
      BY <1>1
    <2>2. n * (p * p) \in Nat /\ d - c \in Nat
      BY <1>1
    <2>3. (n * (p * p)) * (d - c) >= 0
      BY <2>2
    <2> QED BY <1>3, <2>1, <2>3
  <1> QED BY <1>2, <1>3, <1>4, RoundMonotone

\* A better price never pays less, whichever side the taker is on.
LEMMA PayoutMonotone ==
    ASSUME NEW o \in Order, NEW c \in Nat \ {0}, NEW d \in Nat \ {0}, c <= d
    PROVE  IF o.position = "Long" THEN Payout(o, c) <= Payout(o, d)
                                  ELSE Payout(o, c) >= Payout(o, d)
  <1>1. CASE o.price = 0
    BY <1>1 DEF Payout
  <1>2. CASE o.price # 0
    <2>1. UncappedPnlLong(o, c) <= UncappedPnlLong(o, d)
      BY <1>2, ProfitMonotone
    <2>2. UncappedPnlLong(o, c) \in Int /\ UncappedPnlLong(o, d) \in Int
      BY <1>2, MoneyNearest
    <2>3. MarginTaker(o) \in Nat /\ MarginTotal(o) \in Nat
      BY OrderMoney
    <2>4. /\ Payout(o, c) = Capped(UncappedPayout(o, c), MarginTotal(o))
          /\ Payout(o, d) = Capped(UncappedPayout(o, d), MarginTotal(o))
      BY <1>2 DEF Payout
    <2> QED BY <2>1, <2>2, <2>3, <2>4 DEF UncappedPayout, Capped
  <1> QED BY <1>1, <1>2

-----------------------------------------------------------------------------
(* The specification *)

\* The order and the closing price keep their types.
THEOREM Typed == Spec => []TypeOK
  <1>1. Init => TypeOK
    BY DEF Init, TypeOK
  <1>2. TypeOK /\ [Next]_vars => TypeOK'
    BY DEF TypeOK, Next, PriceMoves, vars
  <1> QED BY <1>1, <1>2, PTL DEF Spec

\* Whatever the price does, settling pays the taker at least nothing and at
\* most both margins.
THEOREM PayoutSafe == Spec => []PayoutWithinMargins
  <1>1. TypeOK => PayoutWithinMargins
    <2> SUFFICES ASSUME TypeOK PROVE PayoutWithinMargins
      OBVIOUS
    <2>1. order \in Order /\ close \in Nat
      BY ConstantsAssumption DEF TypeOK
    <2>2. Payout(order, close) \in Nat /\ Payout(order, close) <= MarginTotal(order)
      BY <2>1, PayoutBounded
    <2> QED BY <2>2 DEF PayoutWithinMargins
  <1> QED BY <1>1, Typed, PTL

\* What settling pays exceeds what opening locked by the rounding of the two
\* margins and of the conversion to u64, and by nothing else.
THEOREM OverpaymentBounded == Spec => []OverpaidByRoundingOnly
  <1>1. TypeOK => OverpaidByRoundingOnly
    <2> SUFFICES ASSUME TypeOK PROVE OverpaidByRoundingOnly
      OBVIOUS
    <2> DEFINE l == order.leverage
               t == MarginTaker(order)
               m == MarginMaker(order)
               pay == Payout(order, close)
    <2>1. order \in Order /\ close \in Nat /\ lost \in {0, 1}
      BY ConstantsAssumption DEF TypeOK
    <2>2. l \in Nat \ {0} /\ t \in Nat /\ m \in Nat
      BY <2>1, OrderMoney
    <2>3. pay \in Nat /\ pay <= t + m
      BY <2>1, PayoutBounded DEF MarginTotal
    <2>4. 2 * (m - l * t) <= l + 1
      BY <2>1, MarginsAgree
    <2>5. Locked(order) = (1000 * t - lost) + (1000 * t - lost) * l
      BY DEF Locked, LockedMaker, LockedTaker
    <2> HIDE DEF l, t, m, pay
    <2>6. l * t \in Nat /\ lost * l <= l
      BY <2>1, <2>2
    <2>7. (1000 * t - lost) * l = 1000 * (l * t) - lost * l
      BY <2>1, <2>2
    <2>8. 2 * (1000 * pay - Locked(order)) <= (l + 1) * 1002
      BY <2>1, <2>2, <2>3, <2>4, <2>5, <2>6, <2>7
    <2> QED BY <2>8 DEF OverpaidByRoundingOnly, l, pay
  <1> QED BY <1>1, Typed, PTL

\* At its liquidation price, or beyond it, a position is worth at most the one
\* unit that rounding the margin and rounding the loss can leave together; for
\* a short position at leverage 1, whose liquidation price is a fixed far one,
\* the value of its contracts at that price comes on top.
THEOREM LiquidationIsFinal == Spec => []LiquidationLeavesLittle
  <1>1. TypeOK => LiquidationLeavesLittle
    <2> SUFFICES ASSUME TypeOK, close # 0, BeyondLiquidation(order, close)
                 PROVE  (Payout(order, close) - 1) * FarPrice
                          <= IF Unleveraged(order) THEN order.quantity * Unit ELSE 0
      BY DEF LiquidationLeavesLittle
    <2> DEFINE pay == Payout(order, close)
               worth == UncappedPayout(order, close)
               left == order.quantity * Unit
    <2>1. /\ order \in Order /\ close \in Nat \ {0} /\ FarPrice \in Nat \ {0}
          /\ left \in Nat
      BY OrderMoney, ConstantsAssumption DEF TypeOK
    <2>2. pay \in Nat
      BY <2>1, PayoutBounded
    <2>3. pay = 0 \/ (order.price # 0 /\ pay <= worth /\ worth \in Int)
      <3>1. CASE order.price = 0
        BY <3>1 DEF Payout
      <3>2. CASE order.price # 0
        <4>1. worth \in Int /\ MarginTotal(order) \in Nat
          BY <2>1, <3>2, MoneyNearest, OrderMoney DEF UncappedPayout
        <4> QED BY <2>1, <3>2, <4>1 DEF Payout, Capped
      <3> QED BY <3>1, <3>2
    <2>4. CASE pay = 0
      BY <2>1, <2>4
    <2>5. CASE order.price # 0 /\ pay <= worth /\ worth \in Int /\ ~Unleveraged(order)
      <3>1. pay - 1 <= 0
        BY <2>1, <2>2, <2>5, LiquidatedWorth
      <3> HIDE DEF pay
      <3>2. (pay - 1) * FarPrice <= 0
        BY <2>1, <2>2, <3>1
      <3> QED BY <2>5, <3>2 DEF pay
    <2>6. CASE order.price # 0 /\ pay <= worth /\ worth \in Int /\ Unleveraged(order)
      <3>1. (worth - 1) * FarPrice <= left
        BY <2>1, <2>6, UnleveragedWorth
      <3> HIDE DEF pay, worth, left
      <3>2. (pay - 1) * FarPrice <= (worth - 1) * FarPrice
        <4>1. FarPrice * (pay - 1) <= FarPrice * (worth - 1)
          BY <2>1, <2>2, <2>6, CancelFactor
        <4>2. (pay - 1) * FarPrice = FarPrice * (pay - 1)
              /\ (worth - 1) * FarPrice = FarPrice * (worth - 1)
          BY <2>1, <2>2, <2>6
        <4> QED BY <4>1, <4>2
      <3>3. (pay - 1) * FarPrice <= left
        <4>1. (pay - 1) * FarPrice \in Int /\ (worth - 1) * FarPrice \in Int
          BY <2>1, <2>2, <2>6
        <4> QED BY <2>1, <3>1, <3>2, <4>1
      <3> QED BY <2>6, <3>3 DEF pay, left
    <2> QED BY <2>3, <2>4, <2>5, <2>6
  <1> QED BY <1>1, Typed, PTL

\* While the price moves, what the taker would be paid moves with it, or
\* against it for a short position, although margin and profit are rounded.
THEOREM PayoutMoves == Spec => PayoutFollowsPrice
  <1>1. TypeOK /\ TypeOK' /\ [Next]_vars
          => [close # 0 /\ close <= close' =>
                IF order.position = "Long"
                THEN Payout(order, close) <= Payout(order, close')
                ELSE Payout(order, close) >= Payout(order, close')]_vars
    <2> SUFFICES ASSUME TypeOK, TypeOK', close # 0, close <= close'
                 PROVE  IF order.position = "Long"
                        THEN Payout(order, close) <= Payout(order, close')
                        ELSE Payout(order, close) >= Payout(order, close')
      OBVIOUS
    <2>1. order \in Order /\ close \in Nat \ {0} /\ close' \in Nat \ {0}
      BY ConstantsAssumption DEF TypeOK
    <2> QED BY <2>1, PayoutMonotone
  <1> QED BY <1>1, Typed, PTL DEF Spec, PayoutFollowsPrice
=============================================================================
