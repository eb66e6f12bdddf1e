----------------------------- MODULE PremiumProofs -----------------------------
(***************************************************************************)
(* What Premium guarantees for every rating table, answer and release, and *)
(* the arithmetic of francs it rests on.                                   *)
(***************************************************************************)
EXTENDS Premium, FiniteSetTheorems, SequenceTheorems, WellFoundedInduction, TLAPS

-------------------------------------------------------------------------------
(* Francs *)

\* What the first n parts of an amount come to.
UpTo(amount, parts, n) ==
  n * Share(amount, parts)
    + IF n <= Remainder(amount, parts) THEN n ELSE Remainder(amount, parts)

LEMMA Division ==
  ASSUME NEW a \in Nat, NEW b \in Nat \ {0}
  PROVE  /\ a \div b \in Nat
         /\ a - b * (a \div b) \in 0 .. b - 1
<1>1. a = b * (a \div b) + (a % b) /\ a % b \in 0 .. b - 1 /\ a \div b \in Int
  OBVIOUS
<1>2. a \div b >= 0
  BY <1>1
<1> QED
  BY <1>1, <1>2

\* xaf.ts:71-72: what a rate gives is the franc nearest to the exact
\* product, the upper one if two are.
THEOREM RateIsNearest ==
  ASSUME NEW amount \in Nat, NEW rate \in Nat
  PROVE  /\ ApplyRate(amount, rate) \in Nat
         /\ 2 * (Scale * ApplyRate(amount, rate) - amount * rate) \in (1 - Scale) .. Scale
<1> DEFINE half == Scale \div 2
           sum == amount * rate + half
<1>1. half \in Nat /\ Scale - 2 * half \in 0 .. 1
  BY ScaleAssumption
<1>2. amount * rate \in Nat
  OBVIOUS
<1>3. sum \in Nat /\ Scale \in Nat \ {0}
  BY <1>1, <1>2, ScaleAssumption
<1>4. sum \div Scale \in Nat /\ sum - Scale * (sum \div Scale) \in 0 .. Scale - 1
  BY <1>3, Division
<1>5. ApplyRate(amount, rate) = sum \div Scale
  BY DEF ApplyRate
<1>6. PICK q \in Nat : q = sum \div Scale
  BY <1>4
<1>7. PICK p \in Nat : p = amount * rate
  BY <1>2
<1>8. PICK s \in Int : s = Scale * q
  BY <1>6, <1>3
<1>9. p + half - s \in 0 .. Scale - 1
  <2>1. sum - Scale * q \in 0 .. Scale - 1
    BY <1>4, <1>6
  <2>2. sum = p + half
    BY <1>7
  <2> HIDE DEF sum, half
  <2> QED BY <2>1, <2>2, <1>1, <1>3, <1>8
<1>10. 2 * (s - p) \in (1 - Scale) .. Scale
  <2> HIDE DEF half
  <2> QED BY <1>9, <1>1, <1>3
<1> QED
  BY <1>5, <1>6, <1>7, <1>8, <1>10

\* xaf.ts:79-82: a schedule is paid part by part up to the whole amount,
\* neither a franc short nor a franc over.
THEOREM PartsAddUp ==
  ASSUME NEW amount \in Nat, NEW parts \in Nat \ {0}
  PROVE  /\ UpTo(amount, parts, 0) = 0
         /\ \A n \in 1 .. parts :
              UpTo(amount, parts, n)
                = UpTo(amount, parts, n - 1) + SplitEvenly(amount, parts)[n]
         /\ UpTo(amount, parts, parts) = amount
<1> DEFINE share == Share(amount, parts)
           rest == Remainder(amount, parts)
<1>1. share \in Nat /\ rest \in 0 .. parts - 1 /\ rest = amount - parts * share
  BY Division DEF Share, Remainder
<1>2. UpTo(amount, parts, 0) = 0
  BY <1>1 DEF UpTo
<1>3. UpTo(amount, parts, parts) = amount
  <2>1. UpTo(amount, parts, parts) = parts * share + rest
    BY <1>1 DEF UpTo
  <2> QED BY <2>1, <1>1
<1>4. ASSUME NEW n \in 1 .. parts
      PROVE  UpTo(amount, parts, n)
               = UpTo(amount, parts, n - 1) + SplitEvenly(amount, parts)[n]
  <2>1. SplitEvenly(amount, parts)[n] = share + IF n <= rest THEN 1 ELSE 0
    BY DEF SplitEvenly
  <2>2. n * share = (n - 1) * share + share
    BY <1>1
  <2>3. /\ UpTo(amount, parts, n) = n * share + IF n <= rest THEN n ELSE rest
        /\ UpTo(amount, parts, n - 1)
             = (n - 1) * share + IF n - 1 <= rest THEN n - 1 ELSE rest
    BY DEF UpTo
  <2>4. PICK a, b \in Int : a = n * share /\ b = (n - 1) * share
    BY <1>1
  <2> HIDE DEF share, rest
  <2> QED BY <1>1, <2>1, <2>2, <2>3, <2>4
<1> QED
  BY <1>2, <1>3, <1>4

\* xaf.ts:78-82: no part is more than a franc above another, and the larger
\* ones come first.
THEOREM PartsAreEven ==
  ASSUME NEW amount \in Nat, NEW parts \in Nat \ {0},
         NEW i \in 1 .. parts, NEW j \in 1 .. parts, i < j
  PROVE  SplitEvenly(amount, parts)[i] - SplitEvenly(amount, parts)[j] \in {0, 1}
<1>1. Share(amount, parts) \in Nat /\ Remainder(amount, parts) \in Nat
  BY Division DEF Share, Remainder
<1> QED
  BY <1>1 DEF SplitEvenly

-------------------------------------------------------------------------------
(* Recursive functions *)

LEMMA SmallestNat ==
  ASSUME NEW T, T \subseteq Nat, T # {}
  PROVE  \E m \in T : \A n \in T : m <= n
<1> DEFINE R == OpToRel(<, Nat)
<1>1. IsWellFoundedOn(R, Nat)
  BY NatLessThanWellFounded
<1>2. \A x, y \in Nat : y < x => <<y, x>> \in R
  BY DEF OpToRel
<1> HIDE DEF R
<1>3. PICK m \in T : \A n \in T : <<n, m>> \notin R
  BY <1>1, WFMin
<1>4. ASSUME NEW n \in T PROVE ~(n < m)
  BY <1>2, <1>3, Zenon
<1> QED
  BY <1>4

\* xaf.ts:75-83: what is paid part by part comes to the whole amount.
LEMMA PartsTotal ==
  ASSUME NEW amount \in Nat, NEW parts \in Nat \ {0}
  PROVE  Total(SplitEvenly(amount, parts)) = amount
<1> DEFINE s == SplitEvenly(amount, parts)
           Sums(g) == g = [n \in 0 .. parts |-> IF n = 0 THEN 0 ELSE g[n - 1] + s[n]]
           u == [n \in 0 .. parts |-> UpTo(amount, parts, n)]
           g == CHOOSE h : Sums(h)
<1>1. Len(s) = parts
  BY DEF SplitEvenly
<1>2. Total(s) = g[parts]
  BY <1>1 DEF Total
<1>3. Sums(u)
  BY PartsAddUp
<1> HIDE DEF s, u
<1>4. Sums(g)
  BY <1>3
<1> HIDE DEF g
<1>5. \A n \in 0 .. parts : g[n] = u[n]
  <2> DEFINE T == {n \in 0 .. parts : g[n] # u[n]}
  <2>1. T \subseteq Nat
    OBVIOUS
  <2> HIDE DEF T
  <2>2. ASSUME T # {} PROVE FALSE
    <3>1. PICK m \in T : \A n \in T : m <= n
      BY <2>1, <2>2, SmallestNat
    <3>2. m \in 0 .. parts /\ g[m] # u[m]
      BY <3>1 DEF T
    <3>3. m # 0 => m - 1 \in 0 .. parts /\ g[m - 1] = u[m - 1]
      BY <3>1, <3>2 DEF T
    <3> QED
      BY <1>3, <1>4, <3>2, <3>3
  <2> QED
    BY <2>2 DEF T
<1> QED
  BY <1>2, <1>5, PartsAddUp DEF s, u

Step(lines, n, kinds, rules, answers) ==
  IF rules[n].kind \in kinds THEN Applied(lines, rules[n], answers) ELSE lines

\* A pass takes the rules one by one.
LEMMA PassSteps ==
  ASSUME NEW lines, NEW kinds, NEW rules, NEW answers, Len(rules) \in Nat
  PROVE  \E after :
           /\ after[0] = lines
           /\ \A n \in 1 .. Len(rules) :
                after[n] = Step(after[n - 1], n, kinds, rules, answers)
           /\ Pass(lines, kinds, rules, answers) = after[Len(rules)]
<1> DEFINE N == Len(rules)
           S(x, n) == Step(x, n, kinds, rules, answers)
           Runs(g, m) == g = [n \in 0 .. m |-> IF n = 0 THEN lines ELSE S(g[n - 1], n)]
           after == CHOOSE g : Runs(g, N)
<1>1. Pass(lines, kinds, rules, answers) = after[N]
  BY DEF Pass, Step
<1> HIDE DEF S
<1>2. \A m \in 0 .. N : \E g : Runs(g, m)
  <2> DEFINE T == {m \in 0 .. N : ~\E g : Runs(g, m)}
  <2>1. T \subseteq Nat
    OBVIOUS
  <2> HIDE DEF T
  <2>2. ASSUME T # {} PROVE FALSE
    <3>1. PICK m \in T : \A n \in T : m <= n
      BY <2>1, <2>2, SmallestNat
    <3>2. m \in 0 .. N /\ ~\E g : Runs(g, m)
      BY <3>1 DEF T
    <3>3. CASE m = 0
      <4>1. Runs([n \in 0 .. 0 |-> lines], 0)
        OBVIOUS
      <4> QED
        BY <3>2, <3>3, <4>1
    <3>4. CASE m # 0
      <4>1. m - 1 \in 0 .. N /\ m - 1 \notin T
        BY <3>1, <3>2, <3>4
      <4>2. PICK g : Runs(g, m - 1)
        BY <4>1 DEF T
      <4> DEFINE h == [n \in 0 .. m |-> IF n = m THEN S(g[m - 1], m) ELSE g[n]]
      <4>3. \A n \in 0 .. m - 1 : g[n] = IF n = 0 THEN lines ELSE S(g[n - 1], n)
        BY <4>2
      <4>4. ASSUME NEW n \in 0 .. m
            PROVE  h[n] = IF n = 0 THEN lines ELSE S(h[n - 1], n)
        <5>1. CASE n = m
          <6>1. h[n] = S(g[m - 1], m)
            BY <5>1
          <6>2. m - 1 \in 0 .. m /\ m - 1 # m /\ h[m - 1] = g[m - 1]
            BY <3>2, <3>4
          <6> QED
            BY <3>4, <5>1, <6>1, <6>2
        <5>2. CASE n # m
          <6>1. n \in 0 .. m - 1 /\ h[n] = g[n]
            BY <3>2, <5>2
          <6>2. n # 0 => n - 1 \in 0 .. m /\ n - 1 # m /\ h[n - 1] = g[n - 1]
            BY <3>2, <6>1
          <6> QED
            BY <4>3, <6>1, <6>2
        <5> QED
          BY <5>1, <5>2
      <4>5. h = [n \in 0 .. m |-> h[n]]
        OBVIOUS
      <4> HIDE DEF h
      <4>6. [n \in 0 .. m |-> h[n]]
              = [n \in 0 .. m |-> IF n = 0 THEN lines ELSE S(h[n - 1], n)]
        BY <4>4, Zenon
      <4>7. Runs(h, m)
        BY <4>5, <4>6
      <4> QED
        BY <3>2, <4>7
    <3> QED
      BY <3>3, <3>4
  <2> QED
    BY <2>2 DEF T
<1>3. \E g : Runs(g, N)
  BY <1>2
<1>4. Runs(after, N)
  BY <1>3
<1> HIDE DEF after
<1>5. after[0] = lines /\ \A n \in 1 .. N : after[n] = S(after[n - 1], n)
  BY <1>4
<1> QED
  BY <1>1, <1>5 DEF S

-------------------------------------------------------------------------------
(* What a rule multiplies by *)

LEMMA MaxIsFound ==
  ASSUME NEW S, S \subseteq Nat, IsFiniteSet(S), S # {}
  PROVE  Max(S) \in S
<1> DEFINE T == {n \in Nat : \E U \in SUBSET Nat :
                   /\ IsFiniteSet(U) /\ U # {} /\ Cardinality(U) = n
                   /\ ~\E x \in U : \A y \in U : x >= y}
<1>1. ASSUME T # {} PROVE FALSE
  <2>1. PICK m \in T : \A n \in T : m <= n
    BY <1>1, SmallestNat
  <2>2. PICK U \in SUBSET Nat :
          /\ IsFiniteSet(U) /\ U # {} /\ Cardinality(U) = m
          /\ ~\E x \in U : \A y \in U : x >= y
    BY <2>1
  <2>3. PICK x \in U : TRUE
    BY <2>2
  <2>4. IsFiniteSet(U \ {x}) /\ Cardinality(U \ {x}) = m - 1
    BY <2>2, <2>3, FS_RemoveElement
  <2>5. U \ {x} # {}
    BY <2>2, <2>3
  <2>6. m - 1 \in Nat
    BY <2>4, FS_CardinalityType
  <2>7. \E y \in U \ {x} : \A z \in U \ {x} : y >= z
    <3>1. m - 1 \notin T
      BY <2>1, <2>6
    <3> QED
      BY <2>4, <2>5, <2>6, <3>1
  <2> QED
    BY <2>2, <2>3, <2>7
<1>2. Cardinality(S) \in Nat
  BY FS_CardinalityType
<1>3. \E x \in S : \A y \in S : x >= y
  BY <1>1, <1>2
<1> QED
  BY <1>3 DEF Max

LEMMA ImageIsFinite ==
  ASSUME NEW f, NEW D, D \subseteq DOMAIN f, IsFiniteSet(D)
  PROVE  IsFiniteSet({f[v] : v \in D})
<1> DEFINE T == {f[v] : v \in D}
           g == [v \in D |-> f[v]]
<1>1. g \in Surjection(D, T)
  BY DEF Surjection
<1> QED
  BY <1>1, FS_Surjection

\* Of the values that match, the greatest; else the default.
LEMMA LookupIsRate ==
  ASSUME NEW rule, FactorRule(rule), rule.kind = "lookup", NEW answers,
         Lookup(rule, answers) # None
  PROVE  Lookup(rule, answers) \in Nat
<1> DEFINE matching == DOMAIN rule.values \cap
                         (IF Given(rule, answers) THEN answers[rule.field] ELSE {})
           found == {rule.values[v] : v \in matching}
<1>1. IsFiniteSet(DOMAIN rule.values) /\ \A v \in DOMAIN rule.values : rule.values[v] \in Nat
  BY DEF FactorRule
<1>2. matching \in SUBSET DOMAIN rule.values
  OBVIOUS
<1>3. Lookup(rule, answers) = IF found = {} THEN rule.default ELSE Max(found)
  BY DEF Lookup
<1> HIDE DEF matching
<1>4. IsFiniteSet(found) /\ found \subseteq Nat
  BY <1>1, <1>2, FS_Subset, ImageIsFinite
<1>5. found # {} => Max(found) \in Nat
  BY <1>4, MaxIsFound
<1>6. rule.default \in Nat \cup {None}
  BY DEF FactorRule
<1> QED
  BY <1>3, <1>5, <1>6

\* Of the bands that hold the number, the first; else the default.
LEMMA BandIsRate ==
  ASSUME NEW rule, FactorRule(rule), rule.kind = "band", NEW answers,
         Band(rule, answers) # None
  PROVE  Band(rule, answers) \in Nat
<1> DEFINE I == {i \in 1 .. Len(rule.bands) : Within(answers[rule.field], rule.bands[i])}
<1>1. /\ Len(rule.bands) \in Nat /\ DOMAIN rule.bands = 1 .. Len(rule.bands)
      /\ \A i \in DOMAIN rule.bands : rule.bands[i].multiplier \in Nat
      /\ rule.default \in Nat \cup {None}
  BY DEF FactorRule, Listed
<1>2. I \subseteq Nat
  OBVIOUS
<1> HIDE DEF I
<1>3. I # {} => Min(I) \in I
  BY <1>2, SmallestNat DEF Min
<1>4. Band(rule, answers)
        \in {None, rule.default} \cup {rule.bands[i].multiplier : i \in I}
  <2>1. Band(rule, answers) =
          IF ~Given(rule, answers) THEN None
          ELSE IF (IF I # {} THEN Min(I) ELSE 0) = 0 THEN rule.default
          ELSE rule.bands[IF I # {} THEN Min(I) ELSE 0].multiplier
    BY DEF Band, SelectInSeq, I
  <2>2. \A i \in I : i # 0
    BY <1>1 DEF I
  <2> QED
    BY <1>3, <2>1, <2>2
<1> QED
  BY <1>1, <1>4 DEF I

LEMMA MultiplierIsRate ==
  ASSUME NEW rule, FactorRule(rule), rule.kind # "loading", NEW answers,
         rule.kind \in {"lookup", "band"} => Multiplier(rule, answers) # None
  PROVE  Multiplier(rule, answers) \in Nat
<1>1. One \in Nat
  BY ScaleAssumption DEF One
<1>2. CASE rule.kind = "lookup"
  BY <1>2, LookupIsRate DEF Multiplier
<1>3. CASE rule.kind = "band"
  BY <1>3, BandIsRate DEF Multiplier
<1>4. CASE rule.kind = "flag"
  BY <1>1, <1>4 DEF Multiplier, Flag, FactorRule
<1>5. CASE rule.kind = "discount"
  BY <1>1, <1>5 DEF Multiplier, Discount, FactorRule
<1> QED
  BY <1>2, <1>3, <1>4, <1>5 DEF FactorRule


-------------------------------------------------------------------------------
(* Lines that explain a premium *)

RatedLine ==
  [kind : {"base", "lookup", "band", "flag", "loading", "discount", "clamp"},
   by : Nat \cup {None}, running : Nat]

\* Lines up to stage s: in the documented order, each following from the last.
Explains(lines, s) ==
  /\ lines \in Seq(RatedLine)
  /\ lines # <<>>
  /\ \A i \in 2 .. Len(lines) :
       /\ Stage(lines[i - 1].kind) <= Stage(lines[i].kind)
       /\ Follows(lines[i], lines[i - 1].running)
  /\ Stage(Last(lines).kind) <= s

LEMMA LastLine ==
  ASSUME NEW lines \in Seq(RatedLine), lines # <<>>
  PROVE  /\ Len(lines) \in Nat \ {0}
         /\ Last(lines) = lines[Len(lines)] /\ Last(lines) \in RatedLine
BY DEF Last

LEMMA StageOfLine ==
  ASSUME NEW line \in RatedLine
  PROVE  Stage(line.kind) \in 1 .. 5
<1>1. \A k \in {"base", "lookup", "band", "flag", "loading", "discount", "clamp"} :
        Stage(k) \in 1 .. 5
  BY DEF Stage
<1>2. line.kind \in {"base", "lookup", "band", "flag", "loading", "discount", "clamp"}
  BY DEF RatedLine
<1> QED
  BY <1>1, <1>2

LEMMA DueIsFinite ==
  ASSUME NEW lines \in Seq(RatedLine)
  PROVE  IsFiniteSet(Due(lines)) /\ Cardinality(Due(lines)) \in Nat
<1>1. IsFiniteSet(1 .. Len(lines)) /\ Due(lines) \in SUBSET (1 .. Len(lines))
  BY FS_Interval DEF Due
<1> QED
  BY <1>1, FS_Subset, FS_CardinalityType

\* A line that follows from the last and belongs to its stage or a later one.
LEMMA Longer ==
  ASSUME NEW s \in Nat, NEW lines, Explains(lines, s), NEW line \in RatedLine,
         s <= Stage(line.kind), Stage(line.kind) \in Nat,
         Follows(line, Last(lines).running)
  PROVE  LET longer == Append(lines, line) IN
         /\ Explains(longer, Stage(line.kind))
         /\ Last(longer) = line
         /\ Cardinality(Due(longer)) = Cardinality(Due(lines))
              + IF line.kind \in {"base", "clamp"} THEN 0 ELSE 1
<1> DEFINE longer == Append(lines, line)
           N == Len(lines)
<1>1. /\ lines \in Seq(RatedLine) /\ N \in Nat \ {0}
      /\ Last(lines) = lines[N] /\ Last(lines) \in RatedLine
  BY LastLine DEF Explains
<1>2. /\ longer \in Seq(RatedLine) /\ Len(longer) = N + 1
      /\ longer[N + 1] = line /\ \A i \in 1 .. N : longer[i] = lines[i]
  BY <1>1
<1> HIDE DEF longer
<1>3. longer # <<>> /\ Last(longer) = line
  BY <1>1, <1>2 DEF Last
<1>4. Stage(lines[N].kind) <= Stage(line.kind)
  <2>1. Stage(lines[N].kind) \in Nat
    BY <1>1, StageOfLine
  <2>2. Stage(lines[N].kind) <= s
    BY <1>1 DEF Explains
  <2> QED
    BY <2>1, <2>2
<1>5. ASSUME NEW i \in 2 .. N + 1
      PROVE  /\ Stage(longer[i - 1].kind) <= Stage(longer[i].kind)
             /\ Follows(longer[i], longer[i - 1].running)
  <2>1. CASE i = N + 1
    <3>1. longer[i] = line /\ longer[i - 1] = lines[N]
      BY <1>1, <1>2, <2>1
    <3> QED
      BY <1>1, <1>4, <3>1
  <2>2. CASE i # N + 1
    <3>1. i \in 2 .. N /\ i - 1 \in 1 .. N
      BY <1>1, <2>2
    <3>2. longer[i] = lines[i] /\ longer[i - 1] = lines[i - 1]
      BY <1>1, <1>2, <3>1
    <3> QED
      BY <3>1, <3>2 DEF Explains
  <2> QED
    BY <2>1, <2>2
<1>6. Explains(longer, Stage(line.kind))
  <2>1. Stage(Last(longer).kind) <= Stage(line.kind)
    BY <1>3
  <2> QED
    BY <1>2, <1>3, <1>5, <2>1 DEF Explains
<1>7. Cardinality(Due(longer)) = Cardinality(Due(lines))
        + IF line.kind \in {"base", "clamp"} THEN 0 ELSE 1
  <2>1. DOMAIN lines = 1 .. N /\ DOMAIN longer = 1 .. N + 1
    BY <1>1, <1>2
  <2>2. Due(longer) = Due(lines)
          \cup IF line.kind \in {"base", "clamp"} THEN {} ELSE {N + 1}
    BY <1>1, <1>2, <2>1 DEF Due
  <2>3. N + 1 \notin Due(lines)
    BY <1>1, <2>1 DEF Due
  <2>4. IsFiniteSet(Due(lines)) /\ Cardinality(Due(lines)) \in Nat
    BY <1>1, DueIsFinite
  <2>5. CASE line.kind \in {"base", "clamp"}
    BY <2>2, <2>4, <2>5
  <2>6. CASE line.kind \notin {"base", "clamp"}
    <3>1. Due(longer) = Due(lines) \cup {N + 1}
      BY <2>2, <2>6
    <3> QED
      BY <2>3, <2>4, <2>6, <3>1, FS_AddElement
  <2> QED
    BY <2>5, <2>6
<1> QED
  BY <1>3, <1>6, <1>7 DEF longer

\* A rule of a later stage: its line, when it applies, follows from the last.
LEMMA AppliedHolds ==
  ASSUME NEW s \in 1 .. 4, NEW lines, Explains(lines, s), NEW rule, FactorRule(rule),
         Stage(rule.kind) = s, NEW answers,
         rule.kind \in {"lookup", "band"} => Multiplier(rule, answers) # None
  PROVE  /\ Explains(Applied(lines, rule, answers), s)
         /\ Cardinality(Due(Applied(lines, rule, answers))) = Cardinality(Due(lines))
              + IF Applies(rule, answers) THEN 1 ELSE 0
<1> DEFINE running == Last(lines).running
           by == IF rule.kind = "loading" THEN rule.amount ELSE Multiplier(rule, answers)
           line == Line(rule.kind, by, IF rule.kind = "loading" THEN running + rule.amount
                                       ELSE ApplyRate(running, by))
<1>1. lines \in Seq(RatedLine) /\ running \in Nat
  BY LastLine DEF Explains, RatedLine
<1>2. Cardinality(Due(lines)) \in Nat
  BY <1>1, DueIsFinite
<1>3. CASE ~Applies(rule, answers)
  BY <1>2, <1>3 DEF Applied
<1>4. CASE Applies(rule, answers)
  <2>1. Applied(lines, rule, answers) = Append(lines, line)
    BY <1>4 DEF Applied
  <2>2. rule.kind \in {"lookup", "band", "flag", "loading", "discount"}
    BY DEF FactorRule
  <2>3. by \in Nat
    BY MultiplierIsRate DEF FactorRule
  <2> HIDE DEF running, by
  <2>4. line \in RatedLine /\ line.kind = rule.kind
    <3>1. ApplyRate(running, by) \in Nat
      BY <1>1, <2>3, RateIsNearest
    <3>2. rule.kind = "loading" => running + rule.amount \in Nat
      BY <1>1 DEF FactorRule
    <3> QED
      BY <2>2, <2>3, <3>1, <3>2 DEF Line, RatedLine
  <2>5. Follows(line, running)
    <3>1. CASE rule.kind = "loading"
      BY <3>1 DEF Line, Follows, by
    <3>2. CASE rule.kind # "loading"
      <4>1. 2 * (Scale * ApplyRate(running, by) - running * by) \in (1 - Scale) .. Scale
        BY <1>1, <2>3, RateIsNearest
      <4>2. /\ line.kind \in {"lookup", "band", "flag", "discount"}
            /\ line.running = ApplyRate(running, by) /\ line.by = by
        BY <2>2, <3>2 DEF Line
      <4> HIDE DEF line
      <4> QED
        BY <4>1, <4>2 DEF Follows
    <3> QED
      BY <3>1, <3>2
  <2> HIDE DEF line
  <2>6. line.kind \notin {"base", "clamp"} /\ Stage(line.kind) = s
    BY <2>2, <2>4
  <2> QED
    BY <1>4, <2>1, <2>4, <2>5, <2>6, Longer DEF running
<1> QED
  BY <1>3, <1>4


Applying(kinds, rules, answers) ==
  {i \in DOMAIN rules : rules[i].kind \in kinds /\ Applies(rules[i], answers)}

\* One pass over the rules of one stage adds a line for each that applies.
LEMMA PassHolds ==
  ASSUME NEW rules, Listed(rules), \A i \in DOMAIN rules : FactorRule(rules[i]),
         NEW answers,
         \A i \in DOMAIN rules :
           rules[i].kind \in {"lookup", "band"} => Multiplier(rules[i], answers) # None,
         NEW r \in 0 .. 4, NEW s \in 1 .. 4, r <= s, NEW lines, Explains(lines, r),
         NEW kinds, \A k \in kinds : Stage(k) = s
  PROVE  /\ Explains(Pass(lines, kinds, rules, answers), s)
         /\ Cardinality(Due(Pass(lines, kinds, rules, answers))) = Cardinality(Due(lines))
              + Cardinality(Applying(kinds, rules, answers))
<1> DEFINE N == Len(rules)
           J(n) == {i \in 1 .. n : rules[i].kind \in kinds /\ Applies(rules[i], answers)}
<1>1. N \in Nat /\ DOMAIN rules = 1 .. N
  BY DEF Listed
<1>2. PICK after :
        /\ after[0] = lines
        /\ \A n \in 1 .. N : after[n] = Step(after[n - 1], n, kinds, rules, answers)
        /\ Pass(lines, kinds, rules, answers) = after[N]
  BY <1>1, PassSteps
<1>3. lines \in Seq(RatedLine) /\ Cardinality(Due(lines)) \in Nat
  BY DueIsFinite DEF Explains
<1> DEFINE P(n) == /\ Explains(after[n], s)
                   /\ Cardinality(Due(after[n])) = Cardinality(Due(lines)) + Cardinality(J(n))
<1>4. P(0)
  <2>1. J(0) = {}
    OBVIOUS
  <2>2. Stage(Last(lines).kind) <= s
    <3>1. Stage(Last(lines).kind) \in Nat
      BY LastLine, StageOfLine DEF Explains
    <3> QED
      BY <3>1 DEF Explains
  <2>3. Explains(lines, s)
    BY <2>2 DEF Explains
  <2>4. Cardinality(J(0)) = 0
    BY <2>1, FS_EmptySet
  <2> HIDE DEF J
  <2> QED
    BY <1>2, <1>3, <2>3, <2>4
<1>5. ASSUME NEW n \in 1 .. N, P(n - 1) PROVE P(n)
  <2> DEFINE previous == after[n - 1]
             due == rules[n].kind \in kinds /\ Applies(rules[n], answers)
  <2>1. /\ IsFiniteSet(J(n - 1)) /\ Cardinality(J(n - 1)) \in Nat
        /\ n \notin J(n - 1)
        /\ J(n) = J(n - 1) \cup IF due THEN {n} ELSE {}
    <3>1. J(n - 1) \in SUBSET (1 .. n - 1) /\ IsFiniteSet(1 .. n - 1)
      <4>1. 1 \in Int /\ n - 1 \in Int
        BY <1>1
      <4>2. IsFiniteSet(1 .. n - 1)
        BY <4>1, FS_Interval, Zenon
      <4> QED
        BY <4>2
    <3>2. IsFiniteSet(J(n - 1)) /\ Cardinality(J(n - 1)) \in Nat
      <4> HIDE DEF J
      <4> QED
        BY <3>1, FS_Subset, FS_CardinalityType
    <3> QED
      BY <3>2
  <2>2. Cardinality(J(n)) = Cardinality(J(n - 1)) + IF due THEN 1 ELSE 0
    <3> HIDE DEF J
    <3>1. CASE due
      <4>1. J(n) = J(n - 1) \cup {n}
        BY <2>1, <3>1
      <4> HIDE DEF due
      <4> QED
        BY <2>1, <3>1, <4>1, FS_AddElement
    <3>2. CASE ~due
      <4>1. J(n) = J(n - 1)
        BY <2>1, <3>2
      <4> HIDE DEF due
      <4> QED
        BY <2>1, <3>2, <4>1
    <3> QED
      BY <3>1, <3>2
  <2>3. after[n] = IF rules[n].kind \in kinds THEN Applied(previous, rules[n], answers)
                   ELSE previous
    BY <1>2 DEF Step
  <2>4. /\ Explains(after[n], s)
        /\ Cardinality(Due(after[n])) = Cardinality(Due(previous)) + IF due THEN 1 ELSE 0
    <3>1. Explains(previous, s) /\ Cardinality(Due(previous)) \in Nat
      BY <1>5, DueIsFinite DEF Explains
    <3> HIDE DEF previous
    <3>2. CASE rules[n].kind \in kinds
      <4>1. /\ FactorRule(rules[n]) /\ Stage(rules[n].kind) = s
            /\ rules[n].kind \in {"lookup", "band"} => Multiplier(rules[n], answers) # None
        BY <1>1, <3>2
      <4> QED
        BY <2>3, <3>1, <3>2, <4>1, AppliedHolds
    <3>3. CASE rules[n].kind \notin kinds
      BY <2>3, <3>1, <3>3
    <3> QED
      BY <3>2, <3>3
  <2>5. Cardinality(Due(previous)) = Cardinality(Due(lines)) + Cardinality(J(n - 1))
    BY <1>5
  <2> HIDE DEF J, previous, due
  <2> QED
    BY <1>3, <2>1, <2>2, <2>4, <2>5
<1> HIDE DEF P
<1>6. P(N)
  <2> DEFINE T == {n \in 0 .. N : ~P(n)}
  <2>1. T \subseteq Nat
    OBVIOUS
  <2> HIDE DEF T
  <2>2. ASSUME T # {} PROVE FALSE
    <3>1. PICK m \in T : \A n \in T : m <= n
      BY <2>1, <2>2, SmallestNat
    <3>2. m \in 0 .. N /\ ~P(m)
      BY <3>1 DEF T
    <3>3. m # 0
      BY <1>4, <3>2
    <3>4. m - 1 \in 0 .. N /\ m - 1 \notin T
      BY <3>1, <3>2, <3>3
    <3>5. P(m - 1)
      BY <3>4 DEF T
    <3> QED
      BY <1>5, <3>2, <3>3, <3>5
  <2> QED
    BY <1>1, <2>2 DEF T
<1> QED
  BY <1>1, <1>2, <1>6 DEF P, Applying


\* The line a quote starts from explains the base premium.
LEMMA FirstLineHolds ==
  ASSUME NEW amount \in Nat
  PROVE  Explains(FirstLine(amount), 1) /\ Cardinality(Due(FirstLine(amount))) = 0
<1> DEFINE lines == FirstLine(amount)
<1>1. Line("base", None, amount) \in RatedLine
  BY DEF Line, RatedLine
<1>2. lines = <<Line("base", None, amount)>> /\ Len(lines) = 1 /\ DOMAIN lines = {1}
  BY DEF FirstLine
<1>3. lines[1].kind = "base"
  BY <1>2 DEF Line
<1>4. Due(lines) = {}
  BY <1>2, <1>3 DEF Due
<1>5. lines \in Seq(RatedLine)
  BY <1>1, <1>2
<1> HIDE DEF lines
<1>6. Stage(Last(lines).kind) = 1
  BY <1>2, <1>3 DEF Last, Stage
<1>7. Explains(lines, 1)
  BY <1>2, <1>5, <1>6 DEF Explains
<1>8. Cardinality(Due(lines)) = 0
  BY <1>4, FS_EmptySet
<1> QED
  BY <1>7, <1>8 DEF lines

LEMMA Disjoint ==
  ASSUME NEW S, NEW T, IsFiniteSet(S), IsFiniteSet(T), S \cap T = {}
  PROVE  IsFiniteSet(S \cup T) /\ Cardinality(S \cup T) = Cardinality(S) + Cardinality(T)
<1>1. /\ IsFiniteSet(S \cup T)
      /\ Cardinality(S \cup T) = Cardinality(S) + Cardinality(T) - Cardinality(S \cap T)
  BY FS_Union
<1>2. Cardinality(S \cap T) = 0 /\ Cardinality(S) \in Nat /\ Cardinality(T) \in Nat
  BY FS_EmptySet, FS_CardinalityType
<1> QED
  BY <1>1, <1>2

\* The three passes, together, give every rule that applies its line.
LEMMA RatedHolds ==
  ASSUME NEW amount \in Nat, NEW rules, Listed(rules),
         \A i \in DOMAIN rules : FactorRule(rules[i]),
         NEW answers,
         \A i \in DOMAIN rules :
           rules[i].kind \in {"lookup", "band"} => Multiplier(rules[i], answers) # None
  PROVE  /\ Explains(Rated(amount, rules, answers), 4)
         /\ Cardinality(Due(Rated(amount, rules, answers)))
              = Cardinality({i \in DOMAIN rules : Applies(rules[i], answers)})
<1> DEFINE Of(kinds) == Applying(kinds, rules, answers)
           factored == Pass(FirstLine(amount), FactorKinds, rules, answers)
           loaded == Pass(factored, {"loading"}, rules, answers)
           discounted == Pass(loaded, {"discount"}, rules, answers)
<1>1. /\ \A k \in FactorKinds : Stage(k) = 2
      /\ \A k \in {"loading"} : Stage(k) = 3
      /\ \A k \in {"discount"} : Stage(k) = 4
  BY DEF FactorKinds, Stage
<1>2. Explains(FirstLine(amount), 1) /\ Cardinality(Due(FirstLine(amount))) = 0
  BY FirstLineHolds
<1>3. ASSUME NEW r \in 0 .. 4, NEW s \in 1 .. 4, r <= s, NEW lines, Explains(lines, r),
              NEW kinds, \A k \in kinds : Stage(k) = s
      PROVE  /\ Explains(Pass(lines, kinds, rules, answers), s)
             /\ Cardinality(Due(Pass(lines, kinds, rules, answers)))
                  = Cardinality(Due(lines)) + Cardinality(Of(kinds))
  BY <1>3, PassHolds
<1> HIDE DEF Of
<1>4. /\ Explains(factored, 2)
      /\ Cardinality(Due(factored)) = 0 + Cardinality(Of(FactorKinds))
  <2>1. 1 \in 0 .. 4 /\ 2 \in 1 .. 4 /\ 1 <= 2
    OBVIOUS
  <2> QED
    BY <1>1, <1>2, <2>1, <1>3
<1> HIDE DEF factored
<1>5. /\ Explains(loaded, 3)
      /\ Cardinality(Due(loaded)) = Cardinality(Due(factored)) + Cardinality(Of({"loading"}))
  <2>1. 2 \in 0 .. 4 /\ 3 \in 1 .. 4 /\ 2 <= 3
    OBVIOUS
  <2>2. Explains(factored, 2)
    BY <1>4
  <2> QED
    BY <1>1, <2>1, <2>2, <1>3
<1> HIDE DEF loaded
<1>6. /\ Explains(discounted, 4)
      /\ Cardinality(Due(discounted)) = Cardinality(Due(loaded)) + Cardinality(Of({"discount"}))
  <2>1. 3 \in 0 .. 4 /\ 4 \in 1 .. 4 /\ 3 <= 4
    OBVIOUS
  <2>2. Explains(loaded, 3)
    BY <1>5
  <2> QED
    BY <1>1, <2>1, <2>2, <1>3
<1> HIDE DEF discounted
<1> DEFINE A == Of(FactorKinds)
           B == Of({"loading"})
           C == Of({"discount"})
           D == {i \in DOMAIN rules : Applies(rules[i], answers)}
<1>7. /\ IsFiniteSet(A) /\ IsFiniteSet(B) /\ IsFiniteSet(C)
      /\ Cardinality(A) \in Nat /\ Cardinality(B) \in Nat /\ Cardinality(C) \in Nat
  <2>1. IsFiniteSet(DOMAIN rules)
    BY FS_Interval DEF Listed
  <2>2. A \in SUBSET DOMAIN rules /\ B \in SUBSET DOMAIN rules /\ C \in SUBSET DOMAIN rules
    BY DEF Applying, Of
  <2> HIDE DEF A, B, C
  <2> QED
    BY <2>1, <2>2, FS_Subset, FS_CardinalityType
<1>8. D = (A \cup B) \cup C /\ A \cap B = {} /\ (A \cup B) \cap C = {}
  <2>1. \A i \in DOMAIN rules : rules[i].kind \in FactorKinds \cup {"loading", "discount"}
    BY DEF FactorRule, FactorKinds
  <2> QED
    BY <2>1 DEF FactorKinds, Applying, Of
<1>9. Cardinality(D) = Cardinality(A) + Cardinality(B) + Cardinality(C)
  <2> HIDE DEF A, B, C, D
  <2>1. IsFiniteSet(A \cup B) /\ Cardinality(A \cup B) = Cardinality(A) + Cardinality(B)
    BY <1>7, <1>8, Disjoint
  <2> DEFINE AB == A \cup B
  <2>2. D = AB \cup C /\ AB \cap C = {} /\ IsFiniteSet(AB)
    BY <1>8, <2>1
  <2> HIDE DEF AB
  <2>3. Cardinality(D) = Cardinality(AB) + Cardinality(C)
    BY <1>7, <2>2, Disjoint
  <2> QED
    BY <2>1, <2>3 DEF AB
<1>10. Rated(amount, rules, answers) = discounted
  BY DEF Rated, discounted, loaded, factored
<1> HIDE DEF A, B, C, D
<1>11. Cardinality(Due(discounted)) = Cardinality(D)
  BY <1>4, <1>5, <1>6, <1>7, <1>9 DEF A, B, C
<1> QED
  BY <1>6, <1>10, <1>11 DEF D

\* The clamp leaves the lines that are due and brings the premium in bounds.
LEMMA ClampedHolds ==
  ASSUME NEW table, RatingTable(table), NEW lines, Explains(lines, 4)
  PROVE  /\ Explains(Clamped(lines, table), 5)
         /\ Cardinality(Due(Clamped(lines, table))) = Cardinality(Due(lines))
         /\ InBounds(Last(Clamped(lines, table)).running, table)
<1> DEFINE low == table.min # None /\ Last(lines).running < table.min
           raised == IF low THEN Append(lines, Line("clamp", None, table.min)) ELSE lines
           high == table.max # None /\ Last(raised).running > table.max
           lowered == IF high THEN Append(raised, Line("clamp", None, table.max)) ELSE raised
<1>1. /\ table.min \in Nat \cup {None} /\ table.max \in Nat \cup {None}
      /\ table.min # None /\ table.max # None => table.min <= table.max
  BY DEF RatingTable
<1>2. ASSUME NEW x, NEW s \in {4, 5}, Explains(x, s), NEW n \in Nat, Last(x).running # n
      PROVE  /\ Explains(Append(x, Line("clamp", None, n)), 5)
             /\ Cardinality(Due(Append(x, Line("clamp", None, n)))) = Cardinality(Due(x))
             /\ Last(Append(x, Line("clamp", None, n))).running = n
  <2> DEFINE line == Line("clamp", None, n)
  <2>1. line \in RatedLine /\ line.kind = "clamp" /\ line.running = n
    BY DEF Line, RatedLine
  <2> HIDE DEF line
  <2>2. Stage(line.kind) = 5
    BY <2>1 DEF Stage
  <2>3. Follows(line, Last(x).running)
    BY <1>2, <2>1 DEF Follows
  <2>4. Cardinality(Due(x)) \in Nat
    BY <1>2, DueIsFinite DEF Explains
  <2>5. s \in Nat /\ s <= Stage(line.kind) /\ Stage(line.kind) \in Nat
    BY <2>2
  <2>6. LET longer == Append(x, line) IN
        /\ Explains(longer, Stage(line.kind))
        /\ Last(longer) = line
        /\ Cardinality(Due(longer)) = Cardinality(Due(x))
             + IF line.kind \in {"base", "clamp"} THEN 0 ELSE 1
    BY <1>2, <2>1, <2>3, <2>5, Longer
  <2> QED
    BY <2>1, <2>2, <2>4, <2>6 DEF line
<1>3. Last(lines).running \in Nat
  BY LastLine DEF Explains, RatedLine
<1>4. /\ \E s \in {4, 5} : Explains(raised, s)
      /\ Cardinality(Due(raised)) = Cardinality(Due(lines))
      /\ Last(raised).running \in Nat
      /\ table.min # None => Last(raised).running >= table.min
      /\ low => Last(raised).running = table.min
  BY <1>1, <1>2, <1>3
<1> HIDE DEF raised
<1>5. /\ high => Explains(lowered, 5)
      /\ Cardinality(Due(lowered)) = Cardinality(Due(lines))
      /\ high => Last(lowered).running = table.max
      /\ ~high => lowered = raised
  BY <1>1, <1>2, <1>4
<1>6. Explains(raised, 5)
  <2>1. PICK s \in {4, 5} : Explains(raised, s)
    BY <1>4
  <2>2. Stage(Last(raised).kind) \in 1 .. 5
    BY <2>1, LastLine, StageOfLine DEF Explains
  <2> QED
    BY <2>1, <2>2 DEF Explains
<1>7. Clamped(lines, table) = lowered
  BY DEF Clamped, AboveBound, raised
<1> HIDE DEF lowered
<1>8. InBounds(Last(lowered).running, table)
  BY <1>1, <1>4, <1>5 DEF InBounds
<1> QED
  BY <1>5, <1>6, <1>7, <1>8

\* A quote that is not refused: lines in order, one for every rule that
\* applies, each following from the one before, the last within the bounds.
LEMMA RateHolds ==
  ASSUME NEW amount \in Int, NEW table, RatingTable(table), NEW answers,
         Rate(amount, table, answers) # None
  PROVE  LET lines == Rate(amount, table, answers) IN
         /\ Explains(lines, 5)
         /\ Cardinality(Due(lines))
              = Cardinality({i \in DOMAIN table.rules : Applies(table.rules[i], answers)})
         /\ InBounds(Last(lines).running, table)
         /\ Last(lines).running \in Nat
<1>1. ~Refused(amount, table, answers)
  BY DEF Rate
<1>2. /\ amount \in Nat
      /\ \A i \in DOMAIN table.rules :
           table.rules[i].kind \in {"lookup", "band"} =>
             Multiplier(table.rules[i], answers) # None
  BY <1>1 DEF Refused
<1>3. Listed(table.rules) /\ \A i \in DOMAIN table.rules : FactorRule(table.rules[i])
  BY DEF RatingTable
<1> DEFINE rated == Rated(amount, table.rules, answers)
           clamped == Clamped(rated, table)
<1>4. /\ Explains(rated, 4)
      /\ Cardinality(Due(rated))
           = Cardinality({i \in DOMAIN table.rules : Applies(table.rules[i], answers)})
  BY <1>2, <1>3, RatedHolds
<1> HIDE DEF rated
<1>5. /\ Explains(clamped, 5) /\ Cardinality(Due(clamped)) = Cardinality(Due(rated))
      /\ InBounds(Last(clamped).running, table)
  BY <1>4, ClampedHolds
<1>6. Rate(amount, table, answers) = clamped
  BY <1>1 DEF Rate, rated
<1> HIDE DEF clamped
<1>7. Last(clamped).running \in Nat
  BY <1>5, LastLine DEF Explains, RatedLine
<1> QED
  BY <1>4, <1>5, <1>6, <1>7


-------------------------------------------------------------------------------
(* The catalogue of the seed *)

LEMMA FewAreFinite ==
  ASSUME NEW a, NEW b, NEW c, NEW d
  PROVE  IsFiniteSet({a, b}) /\ IsFiniteSet({a, b, c, d})
<1>1. IsFiniteSet({a}) /\ IsFiniteSet({c}) /\ IsFiniteSet({d})
  BY FS_Singleton
<1>2. IsFiniteSet({a} \cup {b})
  BY <1>1, FS_AddElement
<1>3. IsFiniteSet(({a} \cup {b}) \cup {c})
  BY <1>2, FS_AddElement
<1>4. IsFiniteSet((({a} \cup {b}) \cup {c}) \cup {d})
  BY <1>3, FS_AddElement
<1>5. {a, b} = {a} \cup {b} /\ {a, b, c, d} = (({a} \cup {b}) \cup {c}) \cup {d}
  OBVIOUS
<1> QED
  BY <1>2, <1>4, <1>5

LEMMA PercentIsRate ==
  ASSUME NEW n \in Nat
  PROVE  Percent(n) \in Nat
<1>1. Scale \div 100 \in Nat
  BY ScaleAssumption
<1> HIDE DEF Percent
<1>2. n * (Scale \div 100) \in Nat
  BY <1>1
<1> QED
  BY <1>2 DEF Percent

LEMMA BandRuleIsFactor ==
  ASSUME NEW field, NEW bands, Listed(bands),
         \A i \in DOMAIN bands : bands[i].multiplier \in Nat,
         NEW default \in Nat \cup {None}
  PROVE  FactorRule(BandRule(field, bands, default))
BY DEF FactorRule, BandRule

LEMMA LookupRuleIsFactor ==
  ASSUME NEW field, NEW values, IsFiniteSet(DOMAIN values),
         \A v \in DOMAIN values : values[v] \in Nat, NEW default \in Nat
  PROVE  FactorRule(LookupRule(field, values, default))
<1> DEFINE rule == LookupRule(field, values, default)
<1>1. /\ rule.kind = "lookup" /\ rule.default = Percent(default)
      /\ rule.values = [v \in DOMAIN values |-> Percent(values[v])]
  BY DEF LookupRule, Rates
<1> HIDE DEF rule
<1>2. /\ DOMAIN rule.values = DOMAIN values
      /\ \A v \in DOMAIN rule.values : rule.values[v] \in Nat
  BY <1>1, PercentIsRate
<1>3. rule.default \in Nat
  BY <1>1, PercentIsRate
<1> QED
  BY <1>1, <1>2, <1>3 DEF FactorRule, rule

LEMMA FromHasRate ==
  ASSUME NEW min, NEW max, NEW n \in Nat
  PROVE  From(min, max, n).multiplier \in Nat
BY PercentIsRate DEF From

\* What the seed writes is a rating table.
LEMMA SeededTables ==
  /\ RatingTable(Liability)
  /\ RatingTable(Vehicle)
  /\ RatingTable(Medical)
<1>1. One \in Nat
  BY ScaleAssumption DEF One
<1>2. ASSUME NEW a, NEW b, NEW c, NEW d, NEW x \in Nat, NEW y \in Nat, NEW z \in Nat,
             NEW field, NEW default \in Nat \cup {None}
      PROVE  FactorRule(BandRule(field, <<From(a, b, x), From(b, c, y), From(c, d, z)>>, default))
  <2> DEFINE bands == <<From(a, b, x), From(b, c, y), From(c, d, z)>>
  <2>1. Listed(bands) /\ DOMAIN bands = {1, 2, 3}
    BY DEF Listed
  <2>2. \A i \in DOMAIN bands : bands[i].multiplier \in Nat
    BY <2>1, FromHasRate
  <2> QED
    BY <2>1, <2>2, BandRuleIsFactor
<1>3. ASSUME NEW a, NEW b, NEW c, NEW d, NEW e, NEW w \in Nat, NEW x \in Nat,
             NEW y \in Nat, NEW z \in Nat, NEW field, NEW default \in Nat \cup {None}
      PROVE  FactorRule(BandRule(field,
               <<From(a, b, w), From(b, c, x), From(c, d, y), From(d, e, z)>>, default))
  <2> DEFINE bands == <<From(a, b, w), From(b, c, x), From(c, d, y), From(d, e, z)>>
  <2>1. Listed(bands) /\ DOMAIN bands = {1, 2, 3, 4}
    BY DEF Listed
  <2>2. \A i \in DOMAIN bands : bands[i].multiplier \in Nat
    BY <2>1, FromHasRate
  <2> QED
    BY <2>1, <2>2, BandRuleIsFactor
<1>4. RatingTable(Liability)
  <2> DEFINE areas == [criminal |-> 135, litigation |-> 125, corporate |-> 100, notarial |-> 95]
             several == Rates([t \in {TRUE} |-> 90])
             discount == [kind |-> "discount", field |-> "multi_policy", values |-> several]
  <2>1. FactorRule(LookupRule("practice_areas", areas, 110))
    <3>1. DOMAIN areas = {"criminal", "litigation", "corporate", "notarial"}
      OBVIOUS
    <3>2. IsFiniteSet({"criminal", "litigation", "corporate", "notarial"})
      BY FewAreFinite
    <3>3. \A v \in DOMAIN areas : areas[v] \in Nat
      OBVIOUS
    <3> QED
      BY <3>1, <3>2, <3>3, LookupRuleIsFactor
  <2>2. FactorRule([kind |-> "flag", field |-> "prior_claims", whenTrue |-> Percent(125)])
    BY PercentIsRate DEF FactorRule
  <2>3. FactorRule(discount)
    <3>1. DOMAIN several = {TRUE} /\ several[TRUE] = Percent(90)
      BY DEF Rates
    <3> HIDE DEF several
    <3>2. IsFiniteSet(DOMAIN several)
      BY <3>1, FS_Singleton, Zenon
    <3>3. Percent(90) \in Nat
      BY PercentIsRate
    <3>4. \A v \in DOMAIN several : several[v] \in Nat
      BY <3>1, <3>3, Zenon
    <3>5. discount.kind = "discount" /\ discount.values = several
      OBVIOUS
    <3> HIDE DEF discount
    <3> QED
      BY <3>2, <3>4, <3>5 DEF FactorRule
  <2>4. /\ Liability.min = 50000 /\ Liability.max = 5000000
        /\ Listed(Liability.rules) /\ DOMAIN Liability.rules = {1, 2, 3, 4, 5}
    BY DEF Liability, Listed
  <2>5. /\ Liability.rules[1] = LookupRule("practice_areas", areas, 110)
        /\ Liability.rules[2] = BandRule("years_admitted",
             <<From(None, 3, 120), From(3, 10, 100), From(10, None, 90)>>, None)
        /\ Liability.rules[3] = BandRule("firm_size",
             <<From(None, 2, 100), From(2, 10, 115), From(10, None, 130)>>, One)
        /\ Liability.rules[4]
             = [kind |-> "flag", field |-> "prior_claims", whenTrue |-> Percent(125)]
        /\ Liability.rules[5] = discount
    BY DEF Liability
  <2>6. \A i \in {1, 2, 3, 4, 5} : FactorRule(Liability.rules[i])
    <3> HIDE DEF areas, discount
    <3>1. /\ 120 \in Nat /\ 100 \in Nat /\ 90 \in Nat /\ 115 \in Nat /\ 130 \in Nat
          /\ None \in Nat \cup {None} /\ One \in Nat \cup {None}
      BY <1>1
    <3>2. FactorRule(BandRule("years_admitted",
            <<From(None, 3, 120), From(3, 10, 100), From(10, None, 90)>>, None))
      <4> DEFINE bands == <<From(None, 3, 120), From(3, 10, 100), From(10, None, 90)>>
      <4>1. Listed(bands) /\ DOMAIN bands = {1, 2, 3}
        BY DEF Listed
      <4>2. \A i \in DOMAIN bands : bands[i].multiplier \in Nat
        BY <4>1, FromHasRate
      <4> HIDE DEF bands
      <4>3. FactorRule(BandRule("years_admitted", bands, None))
        BY <4>1, <4>2, BandRuleIsFactor
      <4> QED
        BY <4>3 DEF bands
    <3>3. FactorRule(BandRule("firm_size",
            <<From(None, 2, 100), From(2, 10, 115), From(10, None, 130)>>, One))
      BY <1>2, <3>1
    <3>4. FactorRule(Liability.rules[2]) /\ FactorRule(Liability.rules[3])
      BY <2>5, <3>2, <3>3, Zenon
    <3> QED
      BY <2>1, <2>2, <2>3, <2>5, <3>4
  <2> QED
    BY <2>4, <2>6 DEF RatingTable
<1>5. RatingTable(Vehicle)
  <2>1. FactorRule(LookupRule("usage", [private |-> 100, professional |-> 120], 100))
    <3> DEFINE usage == [private |-> 100, professional |-> 120]
    <3>1. DOMAIN usage = {"private", "professional"}
      OBVIOUS
    <3>2. IsFiniteSet({"private", "professional"})
      BY FewAreFinite
    <3>3. \A v \in DOMAIN usage : usage[v] \in Nat
      OBVIOUS
    <3> QED
      BY <3>1, <3>2, <3>3, LookupRuleIsFactor
  <2>2. /\ Vehicle.min = 45000 /\ Vehicle.max = None
        /\ Listed(Vehicle.rules) /\ DOMAIN Vehicle.rules = {1, 2, 3}
    BY DEF Vehicle, Listed
  <2>3. \A i \in {1, 2, 3} : FactorRule(Vehicle.rules[i])
    BY <1>1, <1>2, <1>3, <2>1 DEF Vehicle
  <2> QED
    BY <2>2, <2>3 DEF RatingTable
<1>6. RatingTable(Medical)
  <2>1. /\ Medical.min = 120000 /\ Medical.max = None
        /\ Listed(Medical.rules) /\ DOMAIN Medical.rules = {1, 2}
    BY DEF Medical, Listed
  <2>2. \A i \in {1, 2} : FactorRule(Medical.rules[i])
    BY <1>1, <1>2 DEF Medical
  <2> QED
    BY <2>1, <2>2 DEF RatingTable
<1> QED
  BY <1>4, <1>5, <1>6

LEMMA SeededPlans ==
  \A p \in PlanCodes : BasePremium[p] \in Int /\ RatingTable(RatingOf[p])
<1>1. PlanCodes = {"PLI-SILVER", "PLI-GOLD", "VEH-THIRD", "VEH-FULL", "MED-FAMILY"}
  BY DEF PlanCodes, Plans
<1>2. \A p \in PlanCodes : BasePremium[p] \in Int
  BY <1>1 DEF BasePremium
<1>3. \A p \in PlanCodes : RatingOf[p] \in {Liability, Vehicle, Medical}
  BY <1>1 DEF RatingOf
<1> QED
  BY <1>2, <1>3, SeededTables


-------------------------------------------------------------------------------
(* The invariant of a quote, a subscription and a deploy *)

Catalogued ==
  /\ base \in [PlanCodes -> Int]
  /\ DOMAIN factors = PlanCodes /\ \A p \in PlanCodes : RatingTable(factors[p])

\* What a request has read stays a base premium and a rating table, whatever
\* the deploy writes; until it is done nothing is quoted or subscribed.
Asked ==
  /\ request.at # "done" =>
       /\ request.plan \in PlanCodes /\ request.installments \in InstallmentOptions
       /\ quote = None /\ policy = None
  /\ request.at \in {"table", "rate"} => request.base \in Int
  /\ request.at = "rate" => RatingTable(request.table)

Quoted ==
  quote # None =>
    /\ quote.premium \in Nat /\ quote.installments \in InstallmentOptions
    /\ quote.schedule = SplitEvenly(quote.premium, quote.installments)

PInv == Catalogued /\ Asked /\ Quoted /\ RatedAsDocumented /\ ScheduleSumsToPremium

LEMMA Inits ==
  Init => PInv
<1> SUFFICES ASSUME Init PROVE PInv
  OBVIOUS
<1>1. Catalogued
  <2>1. DOMAIN BasePremium = PlanCodes /\ DOMAIN RatingOf = PlanCodes
    BY DEF BasePremium, RatingOf
  <2> DEFINE Seeds(p) == CASE p = "PLI-SILVER" -> 200000
                           [] p = "PLI-GOLD"   -> 450000
                           [] p = "VEH-THIRD"  -> 85000
                           [] p = "VEH-FULL"   -> 240000
                           [] p = "MED-FAMILY" -> 320000
  <2>2. BasePremium = [p \in PlanCodes |-> Seeds(p)]
    BY DEF BasePremium
  <2> HIDE DEF Seeds
  <2>3. BasePremium \in [PlanCodes -> Int]
    BY <2>2, SeededPlans
  <2> QED
    BY <2>1, <2>3, SeededPlans DEF Init, Catalogued
<1>2. Asked
  <2>1. PICK p \in PlanCodes :
          request \in [at : {"plan"}, plan : {p}, answers : Answers[p],
                       installments : InstallmentOptions]
    BY DEF Init
  <2>2. /\ request.at = "plan" /\ request.plan = p
        /\ request.installments \in InstallmentOptions
    BY <2>1
  <2> QED
    BY <2>2 DEF Init, Asked
<1> QED
  BY <1>1, <1>2 DEF Init, PInv, Quoted, RatedAsDocumented, ScheduleSumsToPremium

\* A quote that is stored explains its premium.
LEMMA StoreQuoteHolds ==
  ASSUME PInv, StoreQuote
  PROVE  Quoted' /\ RatedAsDocumented'
<1> DEFINE lines == Rate(request.base, request.table, request.answers)
<1>1. /\ request.base \in Int /\ RatingTable(request.table)
      /\ request.installments \in InstallmentOptions
  BY DEF PInv, Asked, StoreQuote
<1>2. /\ lines # None
      /\ quote' = [premium |-> Priced(lines), lines |-> lines,
                   installments |-> request.installments,
                   schedule |-> SplitEvenly(Priced(lines), request.installments),
                   answers |-> request.answers, table |-> request.table]
  BY DEF StoreQuote
<1>3. /\ Explains(lines, 5)
      /\ Cardinality(Due(lines))
           = Cardinality({i \in DOMAIN request.table.rules :
                            Applies(request.table.rules[i], request.answers)})
      /\ InBounds(Last(lines).running, request.table)
      /\ Last(lines).running \in Nat
  BY <1>1, <1>2, RateHolds
<1> HIDE DEF lines
<1>4. /\ quote'.premium = Last(lines).running /\ quote'.lines = lines
      /\ quote'.installments = request.installments
      /\ quote'.schedule = SplitEvenly(Last(lines).running, request.installments)
      /\ quote'.answers = request.answers /\ quote'.table = request.table
  BY <1>2 DEF Priced
<1>5. Quoted'
  BY <1>1, <1>3, <1>4 DEF Quoted
<1>6. RatedAsDocumented'
  BY <1>3, <1>4 DEF RatedAsDocumented, Explains
<1> QED
  BY <1>5, <1>6

\* What is billed is what was quoted, split without loss.
LEMMA SubscribeHolds ==
  ASSUME PInv, Subscribe
  PROVE  ScheduleSumsToPremium'
<1> DEFINE parts == SplitEvenly(quote.premium, quote.installments)
<1>1. /\ quote.premium \in Nat /\ quote.installments \in Nat \ {0}
      /\ quote.schedule = parts
  BY InstallmentAssumption DEF PInv, Quoted, Subscribe
<1>2. /\ policy' = [premium |-> quote.premium, invoiced |-> quote.premium, parts |-> parts]
      /\ quote' = quote
  BY DEF Subscribe
<1>3. Total(parts) = quote.premium
  BY <1>1, PartsTotal
<1>4. \A i, j \in DOMAIN parts : i < j => parts[i] - parts[j] \in {0, 1}
  <2>1. DOMAIN parts = 1 .. quote.installments
    BY DEF SplitEvenly
  <2> QED
    BY <1>1, <2>1, PartsAreEven
<1> HIDE DEF parts
<1>5. /\ policy'.premium = quote.premium /\ policy'.invoiced = quote.premium
      /\ policy'.parts = parts
  BY <1>2
<1> QED
  BY <1>1, <1>2, <1>3, <1>4, <1>5 DEF ScheduleSumsToPremium

LEMMA Steps ==
  PInv /\ [Next]_vars => PInv'
<1> SUFFICES ASSUME PInv, [Next]_vars PROVE PInv'
  OBVIOUS
<1> USE DEF PInv
<1>1. CASE SeedPlan
  <2>1. Catalogued'
    BY <1>1, ReleaseAssumption DEF SeedPlan, Catalogued
  <2>2. UNCHANGED <<request, quote, policy>>
    BY <1>1 DEF SeedPlan
  <2> QED
    BY <2>1, <2>2 DEF Asked, Quoted, RatedAsDocumented, ScheduleSumsToPremium
<1>2. CASE SeedTable
  <2>1. Catalogued'
    BY <1>2, ReleaseAssumption DEF SeedTable, Catalogued
  <2>2. UNCHANGED <<request, quote, policy>>
    BY <1>2 DEF SeedTable
  <2> QED
    BY <2>1, <2>2 DEF Asked, Quoted, RatedAsDocumented, ScheduleSumsToPremium
<1>3. CASE ReadPlan
  <2>1. Asked'
    BY <1>3 DEF ReadPlan, Asked, Catalogued
  <2>2. UNCHANGED <<base, factors, quote, policy>>
    BY <1>3 DEF ReadPlan, catalogue
  <2> QED
    BY <2>1, <2>2 DEF Catalogued, Quoted, RatedAsDocumented, ScheduleSumsToPremium
<1>4. CASE ReadTable
  <2>1. Asked'
    BY <1>4 DEF ReadTable, Asked, Catalogued
  <2>2. UNCHANGED <<base, factors, quote, policy>>
    BY <1>4 DEF ReadTable, catalogue
  <2> QED
    BY <2>1, <2>2 DEF Catalogued, Quoted, RatedAsDocumented, ScheduleSumsToPremium
<1>5. CASE StoreQuote
  <2>1. Asked'
    BY <1>5 DEF StoreQuote, Asked, Done
  <2>2. policy = None
    BY <1>5 DEF StoreQuote, Asked
  <2>3. UNCHANGED <<base, factors, policy>>
    BY <1>5 DEF StoreQuote, catalogue
  <2> QED
    BY <1>5, <2>1, <2>2, <2>3, StoreQuoteHolds DEF Catalogued, ScheduleSumsToPremium
<1>6. CASE RefuseQuote
  <2>1. Asked'
    BY <1>6 DEF RefuseQuote, Asked, Done
  <2>2. UNCHANGED <<base, factors, quote, policy>>
    BY <1>6 DEF RefuseQuote, catalogue
  <2> QED
    BY <2>1, <2>2 DEF Catalogued, Quoted, RatedAsDocumented, ScheduleSumsToPremium
<1>7. CASE Subscribe
  <2>1. UNCHANGED <<base, factors, request, quote>>
    BY <1>7 DEF Subscribe, catalogue
  <2>2. request.at = "done"
    BY <1>7 DEF Subscribe, Asked
  <2> QED
    BY <1>7, <2>1, <2>2, SubscribeHolds DEF Catalogued, Asked, Quoted, RatedAsDocumented
<1>8. CASE UNCHANGED vars
  BY <1>8 DEF vars, Catalogued, Asked, Quoted, RatedAsDocumented, ScheduleSumsToPremium
<1> QED
  BY <1>1, <1>2, <1>3, <1>4, <1>5, <1>6, <1>7, <1>8 DEF Next

THEOREM Invariance ==
  Spec => []PInv
BY Inits, Steps, PTL DEF Spec

\* Whatever rating tables, answers and releases there are, and whatever a
\* deploy writes while a quote is made: the lines stored with the quote run
\* through the documented order, each follows from the one before, every rule
\* that applies has one, and the last is the premium, within the bounds
\* (rating-engine.ts:9-24).
THEOREM RatedAsDocumentedHolds ==
  Spec => []RatedAsDocumented
<1>1. PInv => RatedAsDocumented
  BY DEF PInv
<1> QED
  BY <1>1, Invariance, PTL

\* Whatever was quoted, the installments billed are those shown with the
\* quote, add up to its premium and to the invoice, and differ by a franc at
\* most (xaf.ts:75-83, policies.service.ts:89-91).
THEOREM ScheduleSums ==
  Spec => []ScheduleSumsToPremium
<1>1. PInv => ScheduleSumsToPremium
  BY DEF PInv
<1> QED
  BY <1>1, Invariance, PTL
================================================================================
