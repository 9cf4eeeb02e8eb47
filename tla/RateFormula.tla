---------------------------- MODULE RateFormula ----------------------------
(***************************************************************************)
(* The arithmetic of a rate, from the values administrators enter to the   *)
(* recorded calculation.  Configuration columns keep Scale units per one   *)
(* and round what they are given; the rate is a product of decimals, kept  *)
(* to the digits of Python's decimal context; the audit table rounds it to *)
(* AuditScale units per one.  A decimal is an integer of some unit.        *)
(*                                                                         *)
(* One calculation is followed.  Its configuration is read at one moment;  *)
(* what reads at several moments do is the subject of ConfigStore.         *)
(***************************************************************************)
EXTENDS Integers, FiniteSetsExt

CONSTANTS
  Scale,        \* NUMERIC(10,6): 10^6 units per one
  ColumnLimit,  \* its largest value in units, 10^10 - 1
  InputScale,   \* the units per one of what administrators enter
  Inputs,       \* what they enter
  Seeded,       \* the configuration at the start
  AuditScale,   \* NUMERIC(20,6): 10^6 units per one
  AuditLimit,   \* its largest value in units, 10^20 - 1
  Coefficients, \* 10^28: coefficients of Python's decimals are below it
  Terms         \* the terms asked for, in months

Factors == {"base", "tier", "district"}
Configs == [Factors -> 1..ColumnLimit]

ASSUME FormulaAssumption ==
  /\ {Scale, ColumnLimit, InputScale, AuditScale, AuditLimit, Coefficients} \subseteq Nat \ {0}
  /\ Inputs \subseteq Int
  /\ Seeded \in Configs
  /\ Terms \subseteq Nat \ {0}

\* Final rates are products of three columns and a tenth.
FinalScale == 10 * Scale * Scale * Scale

\* The powers of ten that a digit of a product may stand for.
Units == {1, 10, 100, 1000, 10000, 100000, 1000000, 10000000, 100000000, 1000000000}

\* The columns of both services keep the same places, the decimal context has
\* room for all but the last product, and the audit table for every rate.
ASSUME ColumnsAssumption ==
  LET product == 17 * ColumnLimit * ColumnLimit * ColumnLimit
  IN  /\ AuditScale = Scale /\ Scale \in Units \ {1} /\ ColumnLimit <= AuditLimit
      /\ 17 * ColumnLimit * ColumnLimit < Coefficients
      /\ (product * (Scale \div 10)) \div 1000000000 < Coefficients
      /\ 2 * product * AuditScale <= FinalScale * AuditLimit

VARIABLES
  config,  \* the three configured factors
  event,   \* the RateCalculated event: its factors, its term, its final rate
  record,  \* the row of calculation_records
  stage    \* how far the calculation has got

vars == <<config, event, record, stage>>

\* The event: its inputs and its result.
RateCalculated(f, term, final) == [factors |-> f, term |-> term, final |-> final]

None == RateCalculated(Seeded, 0, 0)

TypeOK ==
  /\ config \in Configs
  /\ event.factors \in Configs /\ event.term \in Nat /\ event.final \in Nat
  /\ stage \in {"idle", "sent", "recorded", "refused"}
  /\ stage = "recorded" =>
       /\ record.factors \in [Factors -> 1..AuditLimit]
       /\ record.final \in 1..AuditLimit

Init ==
  /\ config = Seeded
  /\ event = None
  /\ record = None
  /\ stage = "idle"

-----------------------------------------------------------------------------
\* PostgreSQL rounds a NUMERIC half away from zero.
HalfUp(n, q) == (2 * n + q) \div (2 * q)

\* Python rounds to the context's digits half to even.
HalfEven(n, q) ==
  LET low == n \div q
  IN  IF 2 * (n % q) > q \/ (2 * (n % q) = q /\ low % 2 = 1) THEN low + 1 ELSE low

\* The unit of the digits a product has within the context, 28 of at most 37.
Dropped(n) == Min({q \in Units : n \div q < Coefficients})

Times(m, n) == Dropped(m * n) * HalfEven(m * n, Dropped(m * n))

\* Fault: a term of exactly 12, 36 or 60 months falls in the longer band.
TermMultiplierExclusive(months) ==
  CASE months < 12 -> 8 [] 12 <= months /\ months < 36 -> 10
    [] 36 <= months /\ months < 60 -> 13 [] OTHER -> 17

\* In tenths.
TermMultiplier(months) ==
  CASE months <= 12 -> 8 [] 12 < months /\ months <= 36 -> 10
    [] 36 < months /\ months <= 60 -> 13 [] OTHER -> 17

FinalRate(f, term) ==
  Times(Times(Times(f["base"], TermMultiplier(term)), f["tier"]), f["district"])

\* Fault: cut off instead of rounded.
Truncated(n, scale) == (n * AuditScale) \div scale

\* A decimal of scale units per one, in a column of calculation_records.
Recorded(n, scale) == HalfUp(n * AuditScale, scale)

-----------------------------------------------------------------------------
\* What the value objects accept; anything else is answered with 422.
Rate(value) == value > 0
Multiplier(value) == value > 0

Column(entered) == HalfUp(entered * Scale, InputScale)

\* Fault: no CHECK.
FitsUnchecked(entered) == Column(entered) <= ColumnLimit

\* The column refuses what it rounds to zero or has no room for (500).
Fits(entered) == Column(entered) \in 1..ColumnLimit

Configure(f, entered) ==
  /\ IF f = "base" THEN Rate(entered) ELSE Multiplier(entered)
  /\ Fits(entered)
  /\ config' = [config EXCEPT ![f] = Column(entered)]
  /\ UNCHANGED <<event, record, stage>>

\* calculate(), and the event that carries its inputs.
Calculate(term) ==
  /\ stage = "idle" /\ Rate(FinalRate(config, term))
  /\ event' = RateCalculated(config, TermMultiplier(term), FinalRate(config, term))
  /\ stage' = "sent"
  /\ UNCHANGED <<config, record>>

\* The row that an event becomes.
RowOf(e) ==
  [factors |-> [f \in Factors |-> Recorded(e.factors[f], Scale)],
   term |-> Recorded(e.term, 10), final |-> Recorded(e.final, FinalScale)]

\* The INSERT of the row: refused if its final rate is 0 or too large.
InsertRow(r) ==
  /\ stage = "sent"
  /\ record' = r
  /\ stage' = IF r.final \in 1..AuditLimit THEN "recorded" ELSE "refused"
  /\ UNCHANGED <<config, event>>

\* Fault: the factors are looked up when the event arrives.
RecordCurrent == InsertRow(RowOf([event EXCEPT !.factors = config]))

Record == InsertRow(RowOf(event))

Next ==
  \/ \E f \in Factors, entered \in Inputs : Configure(f, entered)
  \/ \E term \in Terms : Calculate(term)
  \/ Record

Spec == Init /\ [][Next]_vars

-----------------------------------------------------------------------------
(* Properties.                                                             *)

\* An auditor who multiplies the recorded factors gets the recorded rate but
\* for the rounding of the last place, whatever has been configured since.
RecordIsReproducible ==
  stage = "recorded" =>
    LET product == record.factors["base"] * record.term * record.factors["tier"]
                   * record.factors["district"]
        unit == AuditScale * AuditScale * AuditScale
    IN  2 * (record.final * unit - product)
          \in (-unit - Dropped(product))..(unit + Dropped(product))

\* An event is refused by the audit table only because its rate is less than
\* half a unit: the columns of the two services leave room for every other.
RefusedIsTiny == stage = "refused" => 2 * event.final * AuditScale < FinalScale

\* The rate is the product of the configured factors and the factor of the
\* term's band, which reaches up to and including its last month.
PricedByBand ==
  \A term \in Terms :
    LET band == CASE term \in 1..12 -> 8 [] term \in 13..36 -> 10
                  [] term \in 37..60 -> 13 [] OTHER -> 17
        exact == config["base"] * config["tier"] * config["district"] * band
    IN  2 * (FinalRate(config, term) - exact) \in -Dropped(exact)..Dropped(exact)

=============================================================================
