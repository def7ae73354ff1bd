----------------------------- MODULE CgrScalar -----------------------------
(***************************************************************************)
(* The numbers of scalar.c, in which phase two counts volumes and          *)
(* backlogs: gigs of units.  A number is valid unless it is negative.      *)
(* The loops of the code are written as quotients and remainders; it       *)
(* multiplies in floating point, exactly up to 2^53, the bound of this     *)
(* module.                                                                 *)
(***************************************************************************)
EXTENDS Integers

CONSTANT Gig    \* ONE_GIG

ASSUME CgrScalarAssumption == Gig \in Nat \ {0}

Value(s) == Gig * s.gigs + s.units

\* Numbers as the operations leave them.
Normal(s) == s.gigs \in Int /\ s.units \in 0 .. Gig - 1

Absolute(i) == IF i < 0 THEN - i ELSE i

\* loadCgrScalar: a negative number loses its sign.
Load(i) == [gigs |-> Absolute(i) \div Gig, units |-> Absolute(i) % Gig]

\* increaseCgrScalar
Increase(s, i) ==
  LET units == s.units + (Absolute(i) % Gig)
      carry == IF units >= Gig THEN 1 ELSE 0
  IN  [gigs |-> s.gigs + Absolute(i) \div Gig + carry, units |-> units - carry * Gig]

\* reduceCgrScalar
Reduce(s, i) ==
  LET units == s.units - (Absolute(i) % Gig)
      borrow == IF units < 0 THEN 1 ELSE 0
  IN  [gigs |-> s.gigs - Absolute(i) \div Gig - borrow, units |-> units + borrow * Gig]

\* multiplyCgrScalar, of a valid number
Multiply(s, i) == Load(Value(s) * i)

\* divideCgrScalar, of a valid number
Divide(s, i) == Load(Value(s) \div i)

\* addToCgrScalar
AddTo(s, increment) == [Increase(s, increment.units) EXCEPT !.gigs = @ + increment.gigs]

\* subtractFromCgrScalar
SubtractFrom(s, decrement) == [Reduce(s, decrement.units) EXCEPT !.gigs = @ - decrement.gigs]

\* CgrScalarIsValid
IsValid(s) == s.gigs >= 0

=============================================================================
