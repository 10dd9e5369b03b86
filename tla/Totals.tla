------------------------------- MODULE Totals -------------------------------
(***************************************************************************)
(* The sum of a function's numbers, as the size of a set: f[t] units for   *)
(* each t.  A step that changes one number by one adds or removes a unit.  *)
(***************************************************************************)
EXTENDS Naturals, FiniteSets

Units(f) == UNION {{t} \X (1 .. f[t]) : t \in DOMAIN f}

Total(f) == Cardinality(Units(f))
=============================================================================
