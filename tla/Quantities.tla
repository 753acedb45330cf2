------------------------------ MODULE Quantities ------------------------------
(***************************************************************************)
(* Thresholds over money, durations and plain numbers                       *)
(* (quantitative.py, with the values of predicate.py and temporal.py).      *)
(*                                                                         *)
(* A value is a Money, a Span (a duration: its fixed part in seconds, and   *)
(* whether it has calendar years or months), a Plain number, or NoQuantity: *)
(* missing, unknown, or of a type that is never compared (a float, a bool). *)
(***************************************************************************)
EXTENDS Integers

CONSTANTS NoQuantity,
          NoMagnitude,  \* a length in months or years, without an anchor date
          NoUnit

Money(amount, currency) == [class |-> "money", unit |-> currency, magnitude |-> amount]
Plain(n)                == [class |-> "scalar", unit |-> NoUnit, magnitude |-> n]
Span(seconds, calendar) == [class |-> "duration", unit |-> NoUnit,
                            magnitude |-> IF calendar THEN NoMagnitude ELSE seconds]

TimeUnits == [seconds |-> 1, minutes |-> 60, hours |-> 3600, days |-> 86400,
              weeks |-> 604800]
CalendarUnits == {"months", "years"}

(* What a threshold's number and unit denote: a unit is a currency when it  *)
(* reads as a currency code, then a unit of time; anything else is no unit. *)
Threshold(value, unit, currencies) ==
    CASE unit \in currencies       -> Money(value, unit)
      [] unit \in DOMAIN TimeUnits -> Span(value * TimeUnits[unit], FALSE)
      [] unit \in CalendarUnits    -> Span(value, TRUE)
      [] OTHER                     -> Plain(value)

Commensurable(p, q) == p.class = q.class /\ (p.class = "money" => p.unit = q.unit)

Comparable(p, q) == /\ p # NoQuantity /\ q # NoQuantity /\ Commensurable(p, q)
                    /\ p.magnitude # NoMagnitude /\ q.magnitude # NoMagnitude

Compare(comparator, x, y) ==
    CASE comparator = "<"  -> x < y   [] comparator = "<=" -> x <= y
      [] comparator = ">"  -> x > y   [] comparator = ">=" -> x >= y
      [] comparator = "==" -> x = y   [] comparator = "!=" -> x # y

EvalThreshold(comparator, bound, operand) ==
    IF ~Comparable(operand, bound) THEN "open"
    ELSE IF Compare(comparator, operand.magnitude, bound.magnitude)
         THEN "satisfied" ELSE "not_satisfied"
=============================================================================
