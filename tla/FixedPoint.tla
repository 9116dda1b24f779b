----------------------------- MODULE FixedPoint -----------------------------
(***************************************************************************)
(* Integer micro-unit arithmetic of src/domain/fixed-point.ts and the      *)
(* share-price formulas of src/durable/accounting-repository.ts.  Every    *)
(* persisted amount is an integer; Unit stands for MICROS_PER_UNIT (10^6). *)
(***************************************************************************)
EXTENDS Integers

CONSTANT Unit   \* micros in one share (and in one whole wager share)

ASSUME UnitAssumption == Unit \in Nat \ {0}

Magnitude(x) == IF x < 0 THEN -x ELSE x

\* Bankers' rounding of n / d, computed on magnitudes and then signed.
DivideRoundHalfEven(n, d) ==
  LET divisor   == Magnitude(d)
      quotient  == Magnitude(n) \div divisor
      doubled   == 2 * (Magnitude(n) % divisor)
      roundsUp  == \/ doubled > divisor
                   \/ doubled = divisor /\ quotient % 2 # 0
      rounded   == IF roundsUp THEN quotient + 1 ELSE quotient
  IN  IF (n < 0) # (d < 0) THEN -rounded ELSE rounded

\* calculateSharePriceMicros: an empty season sells at one unit per share.
SharePrice(float, notional) ==
  IF float = 0 THEN Unit ELSE DivideRoundHalfEven(notional * Unit, float)

\* calculateShareOrderAmounts.  A "value" order divides by the price.
OrderShares(mode, requested, price) ==
  IF mode = "shares" THEN requested
                     ELSE DivideRoundHalfEven(requested * Unit, price)

\* Fault: the value of a purchase by shares is taken at par.
OrderValueAtPar(mode, requested, price) ==
  IF mode = "value" THEN requested ELSE OrderShares(mode, requested, price)

OrderValue(mode, requested, price) ==
  IF mode = "value" THEN requested
    ELSE DivideRoundHalfEven(OrderShares(mode, requested, price) * price, Unit)
=============================================================================
