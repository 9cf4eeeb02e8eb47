---------------------------- MODULE MCBootstrap ----------------------------
(* Instances of Bootstrap for TLC: four eastern and three western          *)
(* boroughs in two clusters, and runs of the seeder with their own files.  *)
EXTENDS Bootstrap

CONSTANTS r1, r2, A, B, e1, e2, e3, e4, w1, w2, w3, code1, code2, eastR, westR,
          good, moved, short, torn

MCSeedTier == [t \in Tiers |-> IF t = A THEN 105 ELSE 115]

At(code, district) == [code |-> code, district |-> district]

\* code2 stands in two rows of r1's file; r2's drops code1.
MCPlaces ==
  [r \in Runs |->
     IF r = r1 THEN <<At(code1, w1), At(code2, w1), At(code2, w3)>> ELSE <<At(code2, w1)>>]

\* Three eastern of five, and one of two; two of five, and two of two.
First(S) == [d \in Districts |-> IF d \in S THEN 0 ELSE 1]
MCLabellings == {[i \in Inputs |-> IF i = moved THEN First({e3, e4}) ELSE First({e4, w3})]}

Place(district) ==
  [district |-> district, region |-> IF district \in {e1, e2, e3, e4} THEN eastR ELSE westR]

\* All boroughs, in two orders; one missing; one in two states.
MCPlacesOf ==
  [i \in Inputs |->
     LET most == <<Place(w1), Place(e1), Place(w1), Place(w3), Place(e2), Place(w2), Place(e4)>>
     IN  CASE i = short -> most
           [] i = good  -> most \o <<Place(e3)>>
           [] i = moved -> <<Place(e3)>> \o most
           [] OTHER     -> most \o <<Place(e3), [district |-> w1, region |-> eastR]>>]
=============================================================================
