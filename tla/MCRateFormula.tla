--------------------------- MODULE MCRateFormula ---------------------------
(* Instances of RateFormula for TLC: columns of two digits, one of them a  *)
(* decimal place, and a decimal context of six digits.                     *)
EXTENDS RateFormula

MCSeeded == [f \in Factors |-> CASE f = "base" -> 10 [] f = "tier" -> 11 [] OTHER -> 13]
=============================================================================
