---------------------------------- MODULE Xaf ----------------------------------
(***************************************************************************)
(* Whole francs.  A rate is a whole number of 1/Scale; the code works with *)
(* millionths, and any scale that holds the rates exactly gives the same   *)
(* amounts.                                                                *)
(***************************************************************************)
EXTENDS Integers

CONSTANT Scale  \* what a rate of one is written as

ASSUME ScaleAssumption == Scale \in Nat \ {0}

\* A rate applied to an amount, half a franc rounded up.
ApplyRate(amount, rate) == (amount * rate + Scale \div 2) \div Scale

Share(amount, parts) == amount \div parts
Remainder(amount, parts) == amount - parts * Share(amount, parts)

\* Variant: every part is the one that is shown with the quote.
EqualParts(amount, parts) ==
  [i \in 1 .. parts |->
     Share(amount, parts) + IF Remainder(amount, parts) > 0 THEN 1 ELSE 0]

\* The remainder goes franc by franc to the earliest parts.
SplitEvenly(amount, parts) ==
  [i \in 1 .. parts |->
     Share(amount, parts) + IF i <= Remainder(amount, parts) THEN 1 ELSE 0]
===============================================================================
