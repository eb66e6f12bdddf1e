-------------------------------- MODULE Rating --------------------------------
(***************************************************************************)
(* The rating engine: a base premium, a table of rules and an applicant's  *)
(* answers give a premium and the lines that explain it.  An answer is a   *)
(* set of words for a lookup, a number for a band and a truth value for a  *)
(* flag or a discount; an answer that was not given is outside the domain. *)
(***************************************************************************)
EXTENDS Xaf, SequencesExt

CONSTANT None  \* no bound, no default, no premium

One == Scale

Listed(s) == Len(s) \in Nat /\ DOMAIN s = 1 .. Len(s)

\* A rule as a table may hold it: rates and amounts are not negative, and a
\* default may be missing.
FactorRule(rule) ==
  /\ rule.kind \in {"lookup", "band", "flag", "loading", "discount"}
  /\ rule.kind = "loading" => rule.amount \in Nat
  /\ rule.kind = "flag" => rule.whenTrue \in Nat
  /\ rule.kind \in {"lookup", "discount"} =>
       /\ IsFiniteSet(DOMAIN rule.values)
       /\ \A v \in DOMAIN rule.values : rule.values[v] \in Nat
  /\ rule.kind = "band" =>
       /\ Listed(rule.bands)
       /\ \A i \in DOMAIN rule.bands : rule.bands[i].multiplier \in Nat
  /\ rule.kind \in {"lookup", "band"} => rule.default \in Nat \cup {None}

\* Its bounds, when there are two, leave room for a premium.
RatingTable(table) ==
  /\ Listed(table.rules)
  /\ \A i \in DOMAIN table.rules : FactorRule(table.rules[i])
  /\ table.min \in Nat \cup {None} /\ table.max \in Nat \cup {None}
  /\ table.min # None /\ table.max # None => table.min <= table.max

Given(rule, answers) == rule.field \in DOMAIN answers

Lookup(rule, answers) ==
  LET found == {rule.values[v] : v \in DOMAIN rule.values \cap
                  (IF Given(rule, answers) THEN answers[rule.field] ELSE {})} IN
  IF found = {} THEN rule.default ELSE Max(found)

Within(v, band) ==
  /\ band.min = None \/ v >= band.min
  /\ band.max = None \/ v < band.max

Band(rule, answers) ==
  LET i == SelectInSeq(rule.bands, LAMBDA b : Within(answers[rule.field], b)) IN
  IF ~Given(rule, answers) THEN None
  ELSE IF i = 0 THEN rule.default ELSE rule.bands[i].multiplier

Flag(rule, answers) ==
  IF Given(rule, answers) /\ answers[rule.field] THEN rule.whenTrue ELSE One

Discount(rule, answers) ==
  IF Given(rule, answers) /\ answers[rule.field] \in DOMAIN rule.values
  THEN rule.values[answers[rule.field]] ELSE One

\* What a rule multiplies by: One leaves no line, None is an error.
Multiplier(rule, answers) ==
  CASE rule.kind = "lookup"   -> Lookup(rule, answers)
    [] rule.kind = "band"     -> Band(rule, answers)
    [] rule.kind = "flag"     -> Flag(rule, answers)
    [] rule.kind = "discount" -> Discount(rule, answers)

\* A loading without condition is always due.
LoadingDue(rule, answers) ==
  rule.when = None \/ (Given(rule, answers) /\ answers[rule.field] = rule.when)

Applies(rule, answers) ==
  IF rule.kind = "loading" THEN LoadingDue(rule, answers)
  ELSE Multiplier(rule, answers) # One

Line(kind, by, running) == [kind |-> kind, by |-> by, running |-> running]

Applied(lines, rule, answers) ==
  LET running == Last(lines).running IN
  IF ~Applies(rule, answers) THEN lines
  ELSE IF rule.kind = "loading"
  THEN Append(lines, Line("loading", rule.amount, running + rule.amount))
  ELSE LET by == Multiplier(rule, answers) IN
       Append(lines, Line(rule.kind, by, ApplyRate(running, by)))

FactorKinds == {"lookup", "band", "flag"}

\* One pass over the table: its rules of some kinds, in their order.
Pass(lines, kinds, rules, answers) ==
  LET after[n \in 0 .. Len(rules)] ==
        IF n = 0 THEN lines
        ELSE IF rules[n].kind \in kinds
        THEN Applied(after[n - 1], rules[n], answers)
        ELSE after[n - 1]
  IN after[Len(rules)]

FirstLine(base) == <<Line("base", None, base)>>

\* Variant: one pass over the table as it is declared.
RatedAsDeclared(base, rules, answers) ==
  Pass(FirstLine(base), FactorKinds \cup {"loading", "discount"}, rules, answers)

\* Three passes over the table: factors, loadings, discounts.
Rated(base, rules, answers) ==
  LET factored == Pass(FirstLine(base), FactorKinds, rules, answers)
      loaded == Pass(factored, {"loading"}, rules, answers)
  IN Pass(loaded, {"discount"}, rules, answers)

AboveBound(lines, table) ==
  IF table.max # None /\ Last(lines).running > table.max
  THEN Append(lines, Line("clamp", None, table.max)) ELSE lines

Clamped(lines, table) ==
  LET low == table.min # None /\ Last(lines).running < table.min
      raised == IF low THEN Append(lines, Line("clamp", None, table.min)) ELSE lines
  IN AboveBound(raised, table)

Refused(base, table, answers) ==
  \/ base <= 0
  \/ \E i \in DOMAIN table.rules :
       /\ table.rules[i].kind \in {"lookup", "band"}
       /\ Multiplier(table.rules[i], answers) = None

\* The lines, the last of which holds the premium.
Rate(base, table, answers) ==
  IF Refused(base, table, answers) THEN None
  ELSE Clamped(Rated(base, table.rules, answers), table)
===============================================================================
