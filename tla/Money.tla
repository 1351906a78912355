------------------------------- MODULE Money -------------------------------
(***************************************************************************)
(* Currency conversion in minor units (pkg/db/currency.go).  A rate is a   *)
(* pair <<num, den>> that already contains the ratio of the two scales.    *)
(***************************************************************************)
EXTENDS Integers

(* math.RoundToEven of num / den.                                          *)
RoundToEven(num, den) ==
    LET q == num \div den
        r == num % den
    IN IF 2 * r > den \/ (2 * r = den /\ q % 2 = 1) THEN q + 1 ELSE q

(* A positive amount never converts to less than one minor unit.           *)
ConvertUnitsScaleBankers(units, rate) ==
    LET converted == RoundToEven(units * rate[1], rate[2]) IN
    IF units <= 0 \/ rate[1] <= 0 THEN 0
    ELSE IF converted < 1 THEN 1 ELSE converted
=============================================================================
