------------------------------ MODULE Normalizer ------------------------------
(***************************************************************************)
(* The monetary normalisation of lib/payments/currency.ts: toRub,          *)
(* getMonthlyFactor and monthlyRub, the quantity the route uses for the    *)
(* Monthly Total and for sorting by amount.                                *)
(*                                                                         *)
(* Numbers are exact rationals [num, den] with den > 0, kept in lowest     *)
(* terms.  The code computes in IEEE doubles; the model leaves rounding    *)
(* out, so two amounts the doubles would make differ by an ulp compare     *)
(* equal here.                                                             *)
(***************************************************************************)
EXTENDS Integers

RECURSIVE Gcd(_, _)
Gcd(a, b) == IF b = 0 THEN a ELSE Gcd(b, a % b)

Abs(n) == IF n < 0 THEN -n ELSE n

Rat(n, d) ==
    LET g == Gcd(Abs(n), d)
    IN  IF n = 0 THEN [num |-> 0, den |-> 1]
        ELSE [num |-> n \div g, den |-> d \div g]

RatZero == Rat(0, 1)
RatMul(a, b) == Rat(a.num * b.num, a.den * b.den)
RatAdd(a, b) == Rat(a.num * b.den + b.num * a.den, a.den * b.den)

(* The sign of a - b, the value a numeric comparator returns. *)
RatCmp(a, b) ==
    LET d == a.num * b.den - b.num * a.den
    IN  IF d > 0 THEN 1 ELSE IF d < 0 THEN -1 ELSE 0

-----------------------------------------------------------------------------
(* currency.ts *)

(* toRub: RUB passes through, USD and EUR are multiplied by the snapshot *)
(* rate, and any other value of currency is taken as RUB.                  *)
ToRub(amount, currency, rates) ==
    CASE currency = "RUB" -> amount
      [] currency = "USD" -> RatMul(amount, rates.USD)
      [] currency = "EUR" -> RatMul(amount, rates.EUR)
      [] OTHER            -> amount

(* Mutant of GetMonthlyFactor: a week as a quarter of a month.            *)
GetMonthlyFactorWeekQuarter(period) ==
    CASE period = "daily"      -> Rat(30, 1)
      [] period = "weekly"     -> Rat(4, 1)
      [] period = "monthly"    -> Rat(1, 1)
      [] period = "quarterly"  -> Rat(1, 3)
      [] period = "semiannual" -> Rat(1, 6)
      [] period = "annual"     -> Rat(1, 12)
      [] OTHER                 -> Rat(1, 1)

(* getMonthlyFactor: 365 / 12 / 7 weeks in a month; an unknown period    *)
(* (stored data of an older version) counts as monthly.                   *)
GetMonthlyFactor(period) ==
    CASE period = "daily"      -> Rat(30, 1)
      [] period = "weekly"     -> Rat(365, 12 * 7)
      [] period = "monthly"    -> Rat(1, 1)
      [] period = "quarterly"  -> Rat(1, 3)
      [] period = "semiannual" -> Rat(1, 6)
      [] period = "annual"     -> Rat(1, 12)
      [] OTHER                 -> Rat(1, 1)

MonthlyRub(amount, currency, period, rates) ==
    RatMul(ToRub(amount, currency, rates), GetMonthlyFactor(period))

-----------------------------------------------------------------------------
(* The reference: spec section 4.3's table of periodic factors and its     *)
(* toBase, written from the table and not from the code.                   *)

SpecFactor ==
    [daily |-> Rat(30, 1), weekly |-> Rat(365, 84), monthly |-> Rat(1, 1),
     quarterly |-> Rat(1, 3), semiannual |-> Rat(1, 6), annual |-> Rat(1, 12)]

MonthlyBase(amount, currency, period, rates) ==
    LET factor == IF period \in DOMAIN SpecFactor THEN SpecFactor[period]
                  ELSE Rat(1, 1)
        base   == IF currency \in {"USD", "EUR"}
                  THEN RatMul(amount, rates[currency]) ELSE amount
    IN  RatMul(base, factor)

=============================================================================
