------------------------- MODULE RateFormulaProofs -------------------------
(***************************************************************************)
(* The arithmetic of RateFormula for every width of the columns and of the *)
(* decimal context that satisfies ColumnsAssumption.                       *)
(*                                                                         *)
(* The argument.  The context has room for the first two products, so that *)
(* they are exact; only the last one loses digits, and rounding it moves   *)
(* it by at most half a unit of the digits that stay.  The row is rounded  *)
(* once more, in its last place; factors lose nothing on their way from a  *)
(* column of the same places.  So the recorded rate differs from the       *)
(* product of the recorded factors by the two roundings and nothing else,  *)
(* and it fits its column unless it rounds to zero.                        *)
(*                                                                         *)
(* The invariant adds to the types that an event carries what the rate was *)
(* made of, and a row what came of its event, whatever has been configured *)
(* in the meantime.                                                        *)
(***************************************************************************)
EXTENDS RateFormula, WellFoundedInduction, TLAPS

-----------------------------------------------------------------------------
(* Integers.                                                               *)

\* What division leaves.
LEMMA Division ==
  ASSUME NEW a \in Nat, NEW b \in Nat \ {0}
  PROVE  a \div b \in Nat /\ (a % b) \in 0..(b - 1) /\ a = b * (a \div b) + (a % b)
OBVIOUS

\* A quotient below c.
LEMMA QuotientBelow ==
  ASSUME NEW a \in Nat, NEW b \in Nat \ {0}, NEW c \in Nat
  PROVE  a \div b < c <=> a < b * c
<1>1. a \div b < c => a < b * c
  OBVIOUS
<1>2. a < b * c => a \div b < c
  OBVIOUS
<1> QED BY <1>1, <1>2

\* Products grow with their factors.
LEMMA ProductsGrow ==
  ASSUME NEW a \in Nat, NEW b \in Nat, NEW c \in Nat, NEW d \in Nat, a <= b, c <= d
  PROVE  a * c \in Nat /\ b * d \in Nat /\ a * c <= b * d
<1>1. a * c <= b * c
  OBVIOUS
<1>2. b * c <= b * d
  OBVIOUS
<1>3. a * c \in Nat /\ b * c \in Nat /\ b * d \in Nat
  OBVIOUS
<1> QED BY <1>1, <1>2, <1>3

\* PostgreSQL's rounding is off by half a unit at most.
LEMMA HalfUpIsClose ==
  ASSUME NEW n \in Nat, NEW q \in Nat \ {0}
  PROVE  HalfUp(n, q) \in Nat /\ 2 * (q * HalfUp(n, q) - n) \in (-q)..q
<1> DEFINE h == (2 * n + q) \div (2 * q)   r == (2 * n + q) % (2 * q)
<1>1. 2 * n + q \in Nat /\ 2 * q \in Nat \ {0}
  OBVIOUS
<1>2. h \in Nat /\ r \in 0..(2 * q - 1) /\ 2 * n + q = (2 * q) * h + r
  BY <1>1, Division
<1> HIDE DEF h, r
<1>3. (2 * q) * h = 2 * (q * h) /\ q * h \in Nat
  BY <1>2
<1>4. 2 * (q * h - n) \in (-q)..q
  BY <1>2, <1>3
<1> QED BY <1>2, <1>4 DEF HalfUp, h

\* What it has no fraction for, it leaves alone.
LEMMA HalfUpOfWhole ==
  ASSUME NEW n \in Nat, NEW q \in Nat \ {0}
  PROVE  HalfUp(n * q, q) = n
<1> DEFINE h == HalfUp(n * q, q)
<1>1. n * q \in Nat
  OBVIOUS
<1>2. h \in Nat /\ 2 * (q * h - n * q) \in (-q)..q
  BY <1>1, HalfUpIsClose
<1> HIDE DEF h
<1>3. q * h - n * q = q * (h - n) /\ h - n \in Int
  BY <1>2
<1>4. h - n >= 1 => q * (h - n) >= q
  BY <1>2
<1>5. h - n <= -1 => q * (h - n) <= -q
  BY <1>2
<1>6. ~(h - n >= 1) /\ ~(h - n <= -1)
  BY <1>1, <1>2, <1>3, <1>4, <1>5
<1>7. h = n
  BY <1>2, <1>6
<1> QED BY <1>7 DEF h

\* Python's rounding is off by half a unit at most, too.
LEMMA HalfEvenIsClose ==
  ASSUME NEW n \in Nat, NEW q \in Nat \ {0}
  PROVE  HalfEven(n, q) \in Nat /\ 2 * (q * HalfEven(n, q) - n) \in (-q)..q
<1> DEFINE h == n \div q   r == n % q
<1>1. h \in Nat /\ r \in 0..(q - 1) /\ n = q * h + r
  BY Division
<1>2. \/ HalfEven(n, q) = h + 1 /\ 2 * r >= q
      \/ HalfEven(n, q) = h /\ 2 * r <= q
  BY <1>1 DEF HalfEven
<1> HIDE DEF h, r
<1>3. q * (h + 1) = q * h + q /\ q * h \in Nat
  BY <1>1
<1> QED BY <1>1, <1>2, <1>3

-----------------------------------------------------------------------------
(* Products of decimals.                                                   *)

\* A product that some unit brings within the context has a least such unit.
LEMMA LeastUnit ==
  ASSUME NEW n \in Nat, NEW u \in Units, n \div u < Coefficients
  PROVE  /\ Dropped(n) \in Units /\ n \div Dropped(n) < Coefficients
         /\ \A q \in Units : n \div q < Coefficients => Dropped(n) <= q
<1> DEFINE S == {q \in Units : n \div q < Coefficients}
<1>a. Units \subseteq Nat
  BY DEF Units
<1>b. u \in S
  OBVIOUS
<1>1. S \subseteq Nat /\ S # {}
  BY <1>a, <1>b
<1>2. PICK x \in S : \A y \in S : ~(<<y, x>> \in OpToRel(<, Nat))
  BY <1>1, NatLessThanWellFounded, WFMin
<1>3. ASSUME NEW y \in S PROVE x <= y
  <2>1. x \in Nat /\ y \in Nat
    BY <1>1, <1>2
  <2>2. ~(y < x)
    BY <1>2, <2>1 DEF OpToRel
  <2> QED BY <2>1, <2>2
<1>4. Min(S) \in S /\ \A y \in S : Min(S) <= y
  BY <1>2, <1>3 DEF Min
<1>5. Dropped(n) = Min(S)
  BY DEF Dropped
<1> HIDE DEF S
<1>6. Dropped(n) \in S /\ \A y \in S : Dropped(n) <= y
  BY <1>4, <1>5
<1> QED BY <1>6 DEF S

\* A product within the context is exact.
LEMMA ExactWithin ==
  ASSUME NEW m \in Nat, NEW n \in Nat, m * n < Coefficients
  PROVE  Times(m, n) = m * n
<1> DEFINE p == m * n
<1>1. p \in Nat /\ p \div 1 = p /\ p % 1 = 0 /\ 1 \in Units
  BY DEF Units
<1>2. Dropped(p) \in Units /\ Dropped(p) <= 1
  BY <1>1, LeastUnit
<1>3. Dropped(p) = 1
  BY <1>2 DEF Units
<1>4. HalfEven(p, 1) = p
  BY <1>1 DEF HalfEven
<1> QED BY <1>1, <1>3, <1>4 DEF Times

\* Any product is off by half a unit of its last digit at most.
LEMMA CloseBeyond ==
  ASSUME NEW m \in Nat, NEW n \in Nat, NEW u \in Units, (m * n) \div u < Coefficients
  PROVE  /\ Times(m, n) \in Nat /\ Dropped(m * n) \in Nat
         /\ 2 * (Times(m, n) - m * n) \in (-Dropped(m * n))..Dropped(m * n)
<1> DEFINE p == m * n
<1>1. p \in Nat
  OBVIOUS
<1>2. Dropped(p) \in Nat \ {0}
  <2>1. Dropped(p) \in Units
    BY <1>1, LeastUnit
  <2>2. Units \subseteq Nat \ {0}
    BY DEF Units
  <2> QED BY <2>1, <2>2
<1>3. Times(m, n) = Dropped(p) * HalfEven(p, Dropped(p))
  BY DEF Times
<1> HIDE DEF p
<1>4. /\ HalfEven(p, Dropped(p)) \in Nat
      /\ 2 * (Dropped(p) * HalfEven(p, Dropped(p)) - p) \in (-Dropped(p))..Dropped(p)
  BY <1>1, <1>2, HalfEvenIsClose
<1>5. Times(m, n) \in Nat
  BY <1>2, <1>3, <1>4
<1>6. 2 * (Times(m, n) - p) \in (-Dropped(p))..Dropped(p)
  BY <1>3, <1>4
<1> QED BY <1>2, <1>5, <1>6 DEF p

\* Between two powers of ten that are next to each other there is no third.
LEMMA NoUnitBetween ==
  ASSUME NEW t \in Units, NEW q \in Units, NEW u \in Units, 10 * u > t * q
  PROVE  u >= t * q
BY DEF Units

\* More places on a product that does not fit are as many more to drop.
LEMMA DroppedGrows ==
  ASSUME NEW n \in Nat, NEW t \in Units, NEW u \in Units, (t * n) \div u < Coefficients,
         Dropped(n) # 1
  PROVE  t * Dropped(n) <= Dropped(t * n)
<1> DEFINE q == Dropped(n)   v == Dropped(t * n)
<1>1. t \in Nat \ {0} /\ u \in Nat \ {0} /\ t * n \in Nat /\ n <= t * n
  BY DEF Units
<1>2. n \div u < Coefficients
  <2>1. Coefficients \in Nat
    BY FormulaAssumption
  <2>2. t * n < u * Coefficients
    BY <1>1, <2>1, QuotientBelow
  <2>3. u * Coefficients \in Nat
    BY <1>1, <2>1
  <2>4. n < u * Coefficients
    BY <1>1, <2>2, <2>3
  <2> QED BY <1>1, <2>1, <2>4, QuotientBelow
<1>3. q \in Units /\ \A x \in Units : n \div x < Coefficients => q <= x
  BY <1>2, LeastUnit
<1>4. v \in Units /\ (t * n) \div v < Coefficients
  BY <1>1, LeastUnit
<1> HIDE DEF q, v
<1>5. PICK w \in Units : q = 10 * w
  BY <1>3 DEF Units, q
<1>6. ~(n \div w < Coefficients)
  BY <1>3, <1>5 DEF Units
<1>7. /\ w * Coefficients <= n /\ t * n < v * Coefficients
      /\ w \in Nat /\ v \in Nat /\ Coefficients \in Nat
  <2>1. w \in Nat \ {0} /\ v \in Nat \ {0}
    BY <1>3, <1>4, <1>5 DEF Units
  <2>2. Coefficients \in Nat
    BY FormulaAssumption
  <2>3. ~(n < w * Coefficients)
    BY <1>6, <2>1, <2>2, QuotientBelow
  <2>4. t * n < v * Coefficients
    BY <1>1, <1>4, <2>1, <2>2, QuotientBelow
  <2> QED BY <2>1, <2>2, <2>3, <2>4
<1>8. t * (w * Coefficients) <= t * n
  BY <1>1, <1>7
<1>9. (t * w) * Coefficients < v * Coefficients
  BY <1>1, <1>7, <1>8
<1>10. t * w < v
  BY <1>1, <1>7, <1>9
<1>11. 10 * v > t * q
  BY <1>1, <1>5, <1>7, <1>10
<1> QED BY <1>3, <1>4, <1>11, NoUnitBetween DEF q, v

-----------------------------------------------------------------------------
(* The rate.                                                               *)

\* The bands of the terms, in tenths.
Bands == {8, 10, 13, 17}

\* The product of the configured factors and of a band, before any rounding.
Exact(f, m) == f["base"] * m * f["tier"] * f["district"]

\* The same as it is computed.
Computed(f, m) == Times(Times(Times(f["base"], m), f["tier"]), f["district"])

\* Every term has one of the bands.
LEMMA TermHasBand ==
  ASSUME NEW term \in Nat
  PROVE  TermMultiplier(term) \in Bands
BY DEF TermMultiplier, Bands

\* How large the products can be.
LEMMA ProductsBounded ==
  ASSUME NEW L \in Nat, NEW a \in 1..L, NEW b \in 1..L, NEW c \in 1..L, NEW m \in Bands
  PROVE  /\ a * m \in Nat /\ a * m <= 17 * L
         /\ a * m * b \in Nat /\ a * m * b <= 17 * L * L
         /\ a * m * b * c \in Nat /\ a * m * b * c <= 17 * L * L * L
<1>1. a * m \in Nat /\ a * m <= 17 * L /\ 17 * L \in Nat
  BY DEF Bands
<1> DEFINE x == a * m   y == 17 * L
<1>2. x * b \in Nat /\ y * L \in Nat /\ x * b <= y * L
  <2> HIDE DEF x, y
  <2>1. x \in Nat /\ y \in Nat /\ x <= y
    BY <1>1 DEF x, y
  <2> QED BY <2>1, ProductsGrow
<1> DEFINE v == x * b   w == y * L
<1>3. v * c \in Nat /\ w * L \in Nat /\ v * c <= w * L
  <2> HIDE DEF v, w
  <2>1. v \in Nat /\ w \in Nat /\ v <= w
    BY <1>2 DEF v, w
  <2> QED BY <2>1, ProductsGrow
<1> QED BY <1>1, <1>2, <1>3

\* The largest product, and the places there may be beyond it.
Largest == 17 * ColumnLimit * ColumnLimit * ColumnLimit
Places == Scale \div 10

\* Rounding to the places of the audit table loses no place of a factor.
LEMMA PlacesOfScale == Scale = 10 * Places /\ Places \in Units /\ Places \in Nat \ {0}
<1>1. Scale \in Units \ {1}
  BY ColumnsAssumption
<1> QED BY <1>1 DEF Places, Units

\* All products of configured factors, exact and computed.
LEMMA RateIsClose ==
  ASSUME NEW f \in Configs, NEW m \in Bands
  PROVE  /\ Exact(f, m) \in Nat /\ Computed(f, m) \in Nat /\ Dropped(Exact(f, m)) \in Nat
         /\ 2 * (Computed(f, m) - Exact(f, m)) \in (-Dropped(Exact(f, m)))..Dropped(Exact(f, m))
         /\ Exact(f, m) <= Largest
         /\ (Places * Exact(f, m)) \div 1000000000 < Coefficients
         /\ Exact(f, m) \div 1000000000 < Coefficients
<1> DEFINE a == f["base"]   b == f["tier"]   c == f["district"]   e == Exact(f, m)
<1>1. a \in 1..ColumnLimit /\ b \in 1..ColumnLimit /\ c \in 1..ColumnLimit
  BY DEF Configs, Factors
<1>2. ColumnLimit \in Nat \ {0} /\ Coefficients \in Nat
  BY FormulaAssumption
<1>3. m \in Nat
  BY DEF Bands
<1> HIDE DEF a, b, c
<1>4. /\ a * m \in Nat /\ a * m <= 17 * ColumnLimit
      /\ a * m * b \in Nat /\ a * m * b <= 17 * ColumnLimit * ColumnLimit
      /\ a * m * b * c \in Nat /\ a * m * b * c <= 17 * ColumnLimit * ColumnLimit * ColumnLimit
  BY <1>1, <1>2, ProductsBounded
<1>5. 17 * ColumnLimit * ColumnLimit < Coefficients
  BY ColumnsAssumption
<1>6. 17 * ColumnLimit <= 17 * ColumnLimit * ColumnLimit
  BY <1>2
<1>7. a * m < Coefficients /\ a * m * b < Coefficients
  BY <1>2, <1>4, <1>5, <1>6
<1>8. Times(a, m) = a * m
  BY <1>1, <1>3, <1>7, ExactWithin
<1> DEFINE p == a * m
<1>9. Times(p, b) = p * b
  <2> HIDE DEF p
  <2>1. p \in Nat /\ b \in Nat /\ p * b < Coefficients
    BY <1>1, <1>4, <1>7 DEF p
  <2> QED BY <2>1, ExactWithin
<1> DEFINE r == p * b
<1>10. Computed(f, m) = Times(r, c) /\ e = r * c
  BY <1>8, <1>9 DEF Computed, Exact, a, b, c
<1>11. e \in Nat /\ e <= Largest /\ Largest \in Nat
  BY <1>2, <1>4, <1>10 DEF Largest
<1>12. (Largest * Places) \div 1000000000 < Coefficients
  BY ColumnsAssumption DEF Largest, Places
<1> HIDE DEF e, r
<1>13. /\ Places * e \in Nat /\ Largest * Places \in Nat
       /\ Places * e <= Largest * Places /\ e <= Places * e
  BY <1>11, PlacesOfScale
<1>14. Largest * Places < 1000000000 * Coefficients
  BY <1>2, <1>12, <1>13, QuotientBelow
<1>15. (Places * e) \div 1000000000 < Coefficients /\ e \div 1000000000 < Coefficients
  BY <1>2, <1>11, <1>13, <1>14, QuotientBelow
<1>16. r \in Nat /\ c \in Nat
  BY <1>1, <1>4 DEF r
<1>17. 1000000000 \in Units
  BY DEF Units
<1>18. /\ Times(r, c) \in Nat /\ Dropped(r * c) \in Nat
       /\ 2 * (Times(r, c) - r * c) \in (-Dropped(r * c))..Dropped(r * c)
  BY <1>10, <1>15, <1>16, <1>17, CloseBeyond
<1> QED BY <1>10, <1>11, <1>15, <1>18 DEF e

\* Rounding a rate to the audit table's places.
LEMMA FinalIsClose ==
  ASSUME NEW n \in Nat
  PROVE  /\ Recorded(n, FinalScale) \in Nat
         /\ 2 * (Recorded(n, FinalScale) * (Scale * Scale * Scale) - n * Places)
              \in (-(Scale * Scale * Scale))..(Scale * Scale * Scale)
<1> DEFINE u == Scale * Scale * Scale   h == Recorded(n, FinalScale)
<1>1. Places \in Nat \ {0} /\ Scale = 10 * Places /\ AuditScale = Scale /\ Scale \in Nat \ {0}
  BY PlacesOfScale, ColumnsAssumption, FormulaAssumption
<1>2. u \in Nat \ {0}
  <2>1. Scale * Scale \in Nat \ {0}
    BY <1>1
  <2> QED BY <1>1, <2>1
<1>3. FinalScale = 10 * u
  BY <1>1 DEF FinalScale
<1> HIDE DEF u
<1>4. h = HalfUp(n * Scale, 10 * u)
  BY <1>1, <1>3 DEF Recorded
<1> HIDE DEF h
<1>5. h \in Nat /\ 2 * ((10 * u) * h - n * Scale) \in (-(10 * u))..(10 * u)
  <2>1. n * Scale \in Nat /\ 10 * u \in Nat \ {0}
    BY <1>1, <1>2
  <2> QED BY <1>4, <2>1, HalfUpIsClose
<1>6. n * Scale = 10 * (n * Places) /\ n * Places \in Nat
  BY <1>1
<1>7. (10 * u) * h = 10 * (h * u) /\ h * u \in Nat
  BY <1>2, <1>5
<1>8. 2 * (h * u - n * Places) \in (-u)..u
  BY <1>2, <1>5, <1>6, <1>7
<1> QED BY <1>5, <1>8 DEF u, h

\* Final rates have a unit.
LEMMA FinalScalePositive == FinalScale \in Nat \ {0}
<1>1. Scale \in Nat \ {0}
  BY FormulaAssumption
<1>2. Scale * Scale \in Nat \ {0}
  BY <1>1
<1>3. Scale * Scale * Scale \in Nat \ {0}
  BY <1>1, <1>2
<1>4. FinalScale = 10 * (Scale * Scale * Scale)
  BY <1>1 DEF FinalScale
<1> QED BY <1>3, <1>4

\* No computed rate is twice the largest product, and all below it fit the
\* audit table.
LEMMA RateFits ==
  ASSUME NEW f \in Configs, NEW m \in Bands
  PROVE  Recorded(Computed(f, m), FinalScale) <= AuditLimit
<1> DEFINE e == Exact(f, m)   n == Computed(f, m)   q == Dropped(e)
<1>1. /\ e \in Nat /\ n \in Nat /\ q \in Nat /\ 2 * (n - e) \in (-q)..q
      /\ e <= Largest /\ e \div 1000000000 < Coefficients
  BY RateIsClose
<1>2. Largest \in Nat
  BY FormulaAssumption DEF Largest
<1> HIDE DEF e, n, q
<1>3. q <= 1 \/ q <= e
  <2>1. 1000000000 \in Units
    BY DEF Units
  <2>2. q \in Units /\ \A x \in Units : e \div x < Coefficients => q <= x
    BY <1>1, <2>1, LeastUnit DEF q
  <2>3. CASE q # 1
    <3>1. PICK w \in Units : q = 10 * w
      BY <2>2, <2>3 DEF Units
    <3>2. w \in Nat \ {0} /\ ~(e \div w < Coefficients)
      BY <2>2, <3>1 DEF Units
    <3>3. Coefficients \in Nat /\ Coefficients >= 10
      <4>1. ColumnLimit \in Nat \ {0} /\ Coefficients \in Nat
        BY FormulaAssumption
      <4>2. ColumnLimit * ColumnLimit \in Nat \ {0}
        BY <4>1
      <4>3. 17 * ColumnLimit * ColumnLimit = 17 * (ColumnLimit * ColumnLimit)
        BY <4>1
      <4>4. 17 * ColumnLimit * ColumnLimit < Coefficients
        BY ColumnsAssumption
      <4> QED BY <4>1, <4>2, <4>3, <4>4
    <3>4. ~(e < w * Coefficients) /\ w * 10 <= w * Coefficients /\ w * Coefficients \in Nat
      BY <1>1, <3>2, <3>3, QuotientBelow
    <3> QED BY <1>1, <3>1, <3>2, <3>3, <3>4
  <2> QED BY <1>1, <2>3
<1>4. n <= 2 * Largest
  BY <1>1, <1>2, <1>3
<1> DEFINE s == FinalScale   h == Recorded(n, FinalScale)
<1>5. s \in Nat \ {0} /\ AuditScale \in Nat /\ AuditLimit \in Nat
  BY FinalScalePositive, FormulaAssumption
<1>6. h = HalfUp(n * AuditScale, s)
  BY DEF Recorded
<1>7. 2 * Largest * AuditScale <= s * AuditLimit
  BY ColumnsAssumption DEF Largest
<1> HIDE DEF s, h
<1>8. /\ n * AuditScale \in Nat /\ s * AuditLimit \in Nat
      /\ n * AuditScale <= s * AuditLimit
  <2>1. 2 * Largest \in Nat
    BY <1>2
  <2>2. n * AuditScale \in Nat /\ n * AuditScale <= (2 * Largest) * AuditScale
    BY <1>1, <1>4, <1>5, <2>1, ProductsGrow
  <2> QED BY <1>5, <1>7, <2>1, <2>2
<1>9. h \in Nat /\ 2 * (s * h - n * AuditScale) <= s
  BY <1>5, <1>6, <1>8, HalfUpIsClose
<1>10. ~(h >= AuditLimit + 1)
  <2>1. SUFFICES ASSUME h >= AuditLimit + 1
                 PROVE  FALSE
    OBVIOUS
  <2>2. s * (AuditLimit + 1) <= s * h /\ s * h \in Nat
    BY <1>5, <1>9, <2>1, ProductsGrow
  <2>3. s * (AuditLimit + 1) = s * AuditLimit + s
    BY <1>5
  <2> QED BY <1>5, <1>8, <1>9, <2>2, <2>3
<1> QED BY <1>5, <1>9, <1>10 DEF h, n

\* What is multiplied back is the exact product at the audit table's places,
\* and off by what they leave out.
LEMMA RecordIsClose ==
  ASSUME NEW f \in Configs, NEW m \in Bands
  PROVE  LET unit == Scale * Scale * Scale
             product == Places * Exact(f, m)
         IN  2 * (Recorded(Computed(f, m), FinalScale) * unit - product)
               \in (-unit - Dropped(product))..(unit + Dropped(product))
<1> DEFINE e == Exact(f, m)   n == Computed(f, m)   q == Dropped(e)   unit == Scale * Scale * Scale
           p == Places * e    h == Recorded(n, FinalScale)
<1>1. /\ e \in Nat /\ n \in Nat /\ q \in Nat /\ 2 * (n - e) \in (-q)..q
      /\ e \div 1000000000 < Coefficients /\ p \div 1000000000 < Coefficients
  BY RateIsClose
<1>2. Places \in Nat \ {0} /\ Places \in Units /\ 1000000000 \in Units
  BY PlacesOfScale DEF Units
<1>3. h \in Nat /\ 2 * (h * unit - n * Places) \in (-unit)..unit
  BY <1>1, FinalIsClose
<1>4. unit \in Nat
  BY FormulaAssumption
<1> HIDE DEF e, n, unit, h
<1>5. p \in Nat
  BY <1>1, <1>2
<1>6. Dropped(p) \in Units
  BY <1>1, <1>2, <1>5, LeastUnit
<1>7. Dropped(p) \in Nat
  BY <1>6 DEF Units
<1>8. n * Places - p = Places * (n - e)
  BY <1>1, <1>2
<1>9. 2 * (n * Places - p) \in (-Dropped(p))..Dropped(p)
  <2>1. CASE q = 1
    <3>1. n = e
      BY <1>1, <2>1
    <3>2. n - e = 0 /\ Places * 0 = 0
      BY <1>1, <1>2, <3>1
    <3>3. n * Places - p = 0
      BY <1>8, <3>2
    <3> HIDE DEF p
    <3> QED BY <1>7, <3>3
  <2>2. CASE q # 1
    <3>1. Places * q <= Dropped(p)
      <4>1. e \in Nat
        BY <1>1
      <4>2. p \div 1000000000 < Coefficients
        BY <1>1
      <4>3. Dropped(e) # 1
        BY <2>2
      <4> QED BY <1>2, <4>1, <4>2, <4>3, DroppedGrows
    <3> HIDE DEF q, p
    <3>2. Places * (2 * (n - e)) <= Places * q /\ -(Places * q) <= Places * (2 * (n - e))
      <4>1. 2 * (n - e) \in Int /\ 2 * (n - e) <= q /\ -q <= 2 * (n - e)
        BY <1>1
      <4> DEFINE k == 2 * (n - e)
      <4> HIDE DEF k
      <4>2. Places * k <= Places * q
        BY <1>1, <1>2, <4>1 DEF k
      <4>3. Places * (-q) <= Places * k
        BY <1>1, <1>2, <4>1 DEF k
      <4>4. Places * (-q) = -(Places * q)
        BY <1>1, <1>2
      <4> QED BY <4>2, <4>3, <4>4 DEF k
    <3>3. Places * (2 * (n - e)) = 2 * (n * Places - p) /\ n * Places \in Nat
      BY <1>1, <1>2, <1>8
    <3> QED BY <1>1, <1>2, <1>5, <1>7, <3>1, <3>2, <3>3
  <2> QED BY <2>1, <2>2
<1> HIDE DEF p
<1>10. n * Places \in Nat /\ h * unit \in Nat
  BY <1>1, <1>2, <1>3, <1>4
<1>11. 2 * (h * unit - p) \in (-unit - Dropped(p))..(unit + Dropped(p))
  BY <1>3, <1>4, <1>5, <1>7, <1>9, <1>10
<1> QED BY <1>11 DEF p, e, n, unit, h

-----------------------------------------------------------------------------
(* The inductive invariant.                                                *)

\* An event carries the configuration it was computed from, and a row is the
\* event's, whatever is configured when it is recorded.
FormulaInv ==
  /\ config \in Configs
  /\ stage \in {"idle", "sent", "recorded", "refused"}
  /\ event.factors \in Configs /\ event.term \in Nat /\ event.final \in Nat
  /\ stage # "idle" => event.term \in Bands /\ event.final = Computed(event.factors, event.term)
  /\ stage = "recorded" => record = RowOf(event) /\ record.final \in 1..AuditLimit
  /\ stage = "refused" => Recorded(event.final, FinalScale) \notin 1..AuditLimit

\* It holds at the start.
LEMMA FormulaInitially == Init => FormulaInv
<1> SUFFICES ASSUME Init PROVE FormulaInv
  OBVIOUS
<1>1. config \in Configs /\ stage = "idle"
  BY FormulaAssumption DEF Init
<1>2. event.factors \in Configs /\ event.term \in Nat /\ event.final \in Nat
  BY FormulaAssumption DEF Init, None, RateCalculated
<1> QED BY <1>1, <1>2 DEF FormulaInv

\* An administrator changes the configuration, and nothing else.
LEMMA ConfigureKeeps ==
  ASSUME FormulaInv, NEW f \in Factors, NEW entered \in Inputs, Configure(f, entered)
  PROVE  FormulaInv'
<1>1. Column(entered) \in 1..ColumnLimit
  BY DEF Configure, Fits
<1>2. config' \in Configs
  BY <1>1 DEF Configure, FormulaInv, Configs
<1>3. UNCHANGED <<event, record, stage>>
  BY DEF Configure
<1> QED BY <1>2, <1>3 DEF FormulaInv, RowOf, Recorded, Computed

\* A calculation sends what it has computed.
LEMMA CalculateKeeps ==
  ASSUME FormulaInv, NEW term \in Terms, Calculate(term)
  PROVE  FormulaInv'
<1>1. TermMultiplier(term) \in Bands
  BY TermHasBand, FormulaAssumption
<1>2. /\ event'.factors = config /\ event'.term = TermMultiplier(term)
      /\ event'.final = FinalRate(config, term)
      /\ stage' = "sent" /\ config' = config
  BY DEF Calculate, RateCalculated
<1>3. event'.final = Computed(event'.factors, event'.term)
  BY <1>2 DEF FinalRate, Computed
<1>4. config \in Configs /\ Computed(config, TermMultiplier(term)) \in Nat
  BY <1>1, RateIsClose DEF FormulaInv
<1>5. event'.term \in Bands /\ event'.term \in Nat
  BY <1>1, <1>2 DEF Bands
<1>6. event'.factors \in Configs /\ event'.final \in Nat
  BY <1>2, <1>3, <1>4
<1>7. config' \in Configs /\ stage' = "sent"
  BY <1>2, <1>4
<1> QED BY <1>3, <1>5, <1>6, <1>7 DEF FormulaInv, Computed

\* The INSERT takes the row or refuses it.
LEMMA RecordKeeps ==
  ASSUME FormulaInv, Record
  PROVE  FormulaInv'
<1>1. /\ UNCHANGED <<config, event>> /\ stage = "sent" /\ record' = RowOf(event)
      /\ stage' = IF record'.final \in 1..AuditLimit THEN "recorded" ELSE "refused"
  BY DEF Record, InsertRow, RowOf
<1>2. record'.final = Recorded(event.final, FinalScale)
  BY <1>1 DEF RowOf
<1>3. /\ RowOf(event)' = RowOf(event)
      /\ Computed(event.factors, event.term)' = Computed(event.factors, event.term)
  BY <1>1 DEF RowOf, Recorded, Computed
<1> QED BY <1>1, <1>2, <1>3 DEF FormulaInv

\* Every step keeps it.
LEMMA FormulaStep ==
  ASSUME FormulaInv, [Next]_vars
  PROVE  FormulaInv'
<1>1. CASE \E f \in Factors, entered \in Inputs : Configure(f, entered)
  BY <1>1, ConfigureKeeps
<1>2. CASE \E term \in Terms : Calculate(term)
  BY <1>2, CalculateKeeps
<1>3. CASE Record
  BY <1>3, RecordKeeps
<1>4. CASE UNCHANGED vars
  BY <1>4 DEF vars, FormulaInv, RowOf, Recorded, Computed
<1> QED BY <1>1, <1>2, <1>3, <1>4 DEF Next

-----------------------------------------------------------------------------
(* The theorems.                                                           *)

\* What an event carries and a row holds, in every state.
THEOREM FormulaInvariance == Spec => []FormulaInv
  BY FormulaInitially, FormulaStep, PTL DEF Spec

\* A configured factor is recorded as it was used.
LEMMA FactorsAreRecorded ==
  ASSUME NEW e, e.factors \in Configs, e.term \in Bands
  PROVE  /\ RowOf(e).factors = e.factors
         /\ RowOf(e).factors \in [Factors -> 1..AuditLimit]
         /\ RowOf(e).term = e.term * Places
         /\ RowOf(e).final = Recorded(e.final, FinalScale)
<1>1. AuditScale = Scale /\ Scale = 10 * Places /\ Places \in Nat \ {0} /\ Scale \in Nat \ {0}
  BY PlacesOfScale, ColumnsAssumption, FormulaAssumption
<1>2. ColumnLimit \in Nat /\ AuditLimit \in Nat /\ ColumnLimit <= AuditLimit
  BY FormulaAssumption, ColumnsAssumption
<1>3. ASSUME NEW f \in Factors PROVE Recorded(e.factors[f], Scale) = e.factors[f]
  <2>1. e.factors[f] \in Nat
    BY <1>2 DEF Configs
  <2> QED BY <1>1, <2>1, HalfUpOfWhole DEF Recorded
<1>4. e.factors = [f \in Factors |-> e.factors[f]]
  BY DEF Configs
<1>5. RowOf(e).factors = e.factors
  BY <1>3, <1>4 DEF RowOf
<1>6. e.factors \in [Factors -> 1..AuditLimit]
  BY <1>2 DEF Configs
<1>7. Recorded(e.term, 10) = e.term * Places
  <2>1. e.term \in Nat
    BY DEF Bands
  <2>2. e.term * AuditScale = (e.term * Places) * 10 /\ e.term * Places \in Nat
    BY <1>1, <2>1
  <2> QED BY <2>2, HalfUpOfWhole DEF Recorded
<1> QED BY <1>5, <1>6, <1>7 DEF RowOf

\* The recorded factors are positive and fit their columns.
THEOREM FormulaTyped == Spec => []TypeOK
<1>1. FormulaInv => TypeOK
  <2> SUFFICES ASSUME FormulaInv, stage = "recorded"
               PROVE  /\ record.factors \in [Factors -> 1..AuditLimit]
                      /\ record.final \in 1..AuditLimit
    BY DEF TypeOK, FormulaInv
  <2> QED BY FactorsAreRecorded DEF FormulaInv
<1> QED BY <1>1, FormulaInvariance, PTL

\* An auditor who multiplies the recorded factors gets the recorded rate.
THEOREM RecordsReproduce == Spec => []RecordIsReproducible
<1>1. FormulaInv => RecordIsReproducible
  <2> SUFFICES ASSUME FormulaInv, stage = "recorded"
               PROVE  RecordIsReproducible
    BY DEF RecordIsReproducible
  <2> DEFINE f == event.factors   m == event.term
             product == record.factors["base"] * record.term * record.factors["tier"]
                        * record.factors["district"]
             unit == AuditScale * AuditScale * AuditScale
  <2>1. /\ f \in Configs /\ m \in Bands /\ event.final = Computed(f, m) /\ record = RowOf(event)
    BY DEF FormulaInv
  <2>2. /\ record.factors = f /\ record.term = m * Places
        /\ record.final = Recorded(Computed(f, m), FinalScale)
    BY <2>1, FactorsAreRecorded
  <2>3. product = Places * Exact(f, m)
    <3>1. /\ f["base"] \in Nat /\ f["tier"] \in Nat /\ f["district"] \in Nat
          /\ m \in Nat /\ Places \in Nat
      BY <2>1, FormulaAssumption, PlacesOfScale DEF Configs, Factors, Bands
    <3> QED BY <2>2, <3>1 DEF Exact
  <2>4. unit = Scale * Scale * Scale
    BY ColumnsAssumption
  <2>5. 2 * (record.final * unit - product)
          \in (-unit - Dropped(product))..(unit + Dropped(product))
    <3> HIDE DEF product, unit, f, m
    <3> QED BY <2>1, <2>2, <2>3, <2>4, RecordIsClose
  <2> QED BY <2>5 DEF RecordIsReproducible
<1> QED BY <1>1, FormulaInvariance, PTL

\* Only a rate of less than half a unit is refused.
THEOREM OnlyTinyIsRefused == Spec => []RefusedIsTiny
<1>1. FormulaInv => RefusedIsTiny
  <2> SUFFICES ASSUME FormulaInv, stage = "refused"
               PROVE  2 * event.final * AuditScale < FinalScale
    BY DEF RefusedIsTiny
  <2> DEFINE n == event.final   h == Recorded(n, FinalScale)
  <2>1. /\ event.factors \in Configs /\ event.term \in Bands /\ n \in Nat
        /\ n = Computed(event.factors, event.term) /\ h \notin 1..AuditLimit
    BY DEF FormulaInv
  <2>2. h <= AuditLimit
    BY <2>1, RateFits
  <2>3. h \in Nat /\ AuditLimit \in Nat
    BY <2>1, FinalIsClose, FormulaAssumption
  <2>4. h = 0
    BY <2>1, <2>2, <2>3
  <2>5. AuditScale \in Nat \ {0} /\ FinalScale \in Nat \ {0}
    BY FormulaAssumption, FinalScalePositive
  <2>6. h = (2 * (n * AuditScale) + FinalScale) \div (2 * FinalScale)
    BY DEF Recorded, HalfUp
  <2> HIDE DEF h, n
  <2>7. n * AuditScale \in Nat
    BY <2>1, <2>5
  <2>8. 2 * (n * AuditScale) + FinalScale < (2 * FinalScale) * 1
    <3> DEFINE a == 2 * (n * AuditScale) + FinalScale   b == 2 * FinalScale
    <3>1. a \in Nat /\ b \in Nat \ {0} /\ a \div b < 1
      BY <2>4, <2>5, <2>6, <2>7
    <3> HIDE DEF a, b
    <3>2. a < b * 1
      BY <3>1, QuotientBelow
    <3> QED BY <3>2 DEF a, b
  <2>9. 2 * n * AuditScale = 2 * (n * AuditScale)
    BY <2>1, <2>5
  <2> QED BY <2>5, <2>7, <2>8, <2>9 DEF n
<1> QED BY <1>1, FormulaInvariance, PTL

\* The rate is the product of the factors and the band's, but for the last
\* digit the context keeps.
THEOREM RatesArePricedByBand == Spec => []PricedByBand
<1>1. FormulaInv => PricedByBand
  <2> USE DEF PricedByBand
  <2> HAVE FormulaInv
  <2> TAKE term \in Terms
  <2> DEFINE band == CASE term \in 1..12 -> 8 [] term \in 13..36 -> 10
                       [] term \in 37..60 -> 13 [] OTHER -> 17
             exact == config["base"] * config["tier"] * config["district"] * band
  <2>1. term \in Nat \ {0} /\ config \in Configs /\ ColumnLimit \in Nat
    BY FormulaAssumption DEF FormulaInv
  <2>2. band = TermMultiplier(term)
    BY <2>1 DEF TermMultiplier
  <2>3. band \in Bands
    BY <2>1, <2>2, TermHasBand
  <2>4. FinalRate(config, term) = Computed(config, band)
    BY <2>2 DEF FinalRate, Computed
  <2> HIDE DEF band
  <2>5. exact = Exact(config, band)
    <3>1. config["base"] \in Nat /\ config["tier"] \in Nat /\ config["district"] \in Nat
          /\ band \in Nat
      BY <2>1, <2>3 DEF Configs, Factors, Bands
    <3> QED BY <3>1 DEF Exact
  <2>6. 2 * (FinalRate(config, term) - exact) \in (-Dropped(exact))..Dropped(exact)
    <3> HIDE DEF exact
    <3> QED BY <2>1, <2>3, <2>4, <2>5, RateIsClose
  <2> QED BY <2>6 DEF band
<1> QED BY <1>1, FormulaInvariance, PTL
====
