-------------------------------- MODULE Premium --------------------------------
(***************************************************************************)
(* From a quote to the invoice.  A quote reads the plan, then its rating   *)
(* table, rates the answers and is stored with its lines; subscribing      *)
(* bills what the quote says.  A deploy of a new release runs meanwhile:   *)
(* it writes each plan's base premium and then the factors of version 1 of *)
(* its table, one statement after the other.                               *)
(***************************************************************************)
EXTENDS Catalogue

CONSTANTS
  Answers,            \* for every plan, what applicants may answer
  Release,            \* for every plan, [base, rating] in the next release
  InstallmentOptions  \* into how many parts a premium may be split

ASSUME InstallmentAssumption == InstallmentOptions \subseteq Nat \ {0}

ASSUME ReleaseAssumption ==
  \A p \in PlanCodes : Release[p].base \in Int /\ RatingTable(Release[p].rating)

VARIABLES
  base,     \* the base premium of every plan
  factors,  \* the rating table of every plan, version 1
  deploy,   \* the statements of the deploy that are still to run
  request,  \* the quote being made
  quote,    \* the stored quote, with the table it was rated by as history
  policy    \* what subscribing wrote: the premium, the invoice, its parts

vars == <<base, factors, deploy, request, quote, policy>>
catalogue == <<base, factors, deploy>>

Statements ==
  FlattenSeq([i \in DOMAIN Plans |-> <<<<"plan", Plans[i]>>, <<"table", Plans[i]>>>>])

Init ==
  /\ base = BasePremium
  /\ factors = RatingOf
  /\ deploy = Statements
  /\ request \in UNION {[at : {"plan"}, plan : {p}, answers : Answers[p],
                         installments : InstallmentOptions] : p \in PlanCodes}
  /\ quote = None
  /\ policy = None

(* --------------------------- the deploy ------------------------------- *)

Seeding(kind) == deploy # <<>> /\ Head(deploy)[1] = kind

SeedPlan ==
  /\ Seeding("plan")
  /\ LET p == Head(deploy)[2] IN base' = [base EXCEPT ![p] = Release[p].base]
  /\ deploy' = Tail(deploy)
  /\ UNCHANGED <<factors, request, quote, policy>>

SeedTable ==
  /\ Seeding("table")
  /\ LET p == Head(deploy)[2] IN factors' = [factors EXCEPT ![p] = Release[p].rating]
  /\ deploy' = Tail(deploy)
  /\ UNCHANGED <<base, request, quote, policy>>

(* ---------------------------- the quote ------------------------------- *)

ReadPlan ==
  /\ request.at = "plan"
  /\ request' = [at |-> "table", plan |-> request.plan, answers |-> request.answers,
                 installments |-> request.installments, base |-> base[request.plan]]
  /\ UNCHANGED <<catalogue, quote, policy>>

ReadTable ==
  /\ request.at = "table"
  /\ request' = [at |-> "rate", plan |-> request.plan, answers |-> request.answers,
                 installments |-> request.installments, base |-> request.base,
                 table |-> factors[request.plan]]
  /\ UNCHANGED <<catalogue, quote, policy>>

Done == [at |-> "done"]

Priced(lines) == Last(lines).running

StoreQuote ==
  LET lines == Rate(request.base, request.table, request.answers) IN
  /\ request.at = "rate"
  /\ lines # None
  /\ request' = Done
  /\ quote' = [premium |-> Priced(lines), lines |-> lines,
               installments |-> request.installments,
               schedule |-> SplitEvenly(Priced(lines), request.installments),
               answers |-> request.answers, table |-> request.table]
  /\ UNCHANGED <<catalogue, policy>>

RefuseQuote ==
  /\ request.at = "rate"
  /\ Rate(request.base, request.table, request.answers) = None
  /\ request' = Done
  /\ UNCHANGED <<catalogue, quote, policy>>

(* -------------------------- subscribing ------------------------------- *)

\* What the database's checks on premiums and installments let through.
Billable(premium, parts) ==
  premium > 0 /\ \A i \in DOMAIN parts : parts[i] > 0

Subscribe ==
  LET parts == SplitEvenly(quote.premium, quote.installments) IN
  /\ quote # None /\ policy = None
  /\ Billable(quote.premium, parts)
  /\ policy' = [premium |-> quote.premium, invoiced |-> quote.premium, parts |-> parts]
  /\ UNCHANGED <<catalogue, request, quote>>

Next ==
  \/ SeedPlan \/ SeedTable
  \/ ReadPlan \/ ReadTable \/ StoreQuote \/ RefuseQuote
  \/ Subscribe

Spec == Init /\ [][Next]_vars

(* --------------------------- properties ------------------------------- *)

Stage(kind) ==
  CASE kind = "base"                        -> 1
    [] kind \in {"lookup", "band", "flag"}  -> 2
    [] kind = "loading"                     -> 3
    [] kind = "discount"                    -> 4
    [] kind = "clamp"                       -> 5

\* A line gives the nearest franc to what its predecessor and its rate give.
Follows(line, previous) ==
  CASE line.kind \in {"lookup", "band", "flag", "discount"} ->
         2 * (Scale * line.running - previous * line.by) \in (1 - Scale) .. Scale
    [] line.kind = "loading" -> line.running = previous + line.by
    [] line.kind = "clamp"   -> line.running # previous

Due(lines) == {i \in DOMAIN lines : lines[i].kind \notin {"base", "clamp"}}

InBounds(premium, table) ==
  /\ table.min # None => premium >= table.min
  /\ table.max # None => premium <= table.max

\* The lines stored with a quote explain its premium: they run through the
\* documented order base, factors, loadings, discounts, clamp whatever order
\* the table declares its rules in, every line follows from the one before,
\* every rule that applies has its line and the last line is the premium,
\* within the table's bounds (rating-engine.ts:9-24).
RatedAsDocumented ==
  quote # None =>
    LET lines == quote.lines  rules == quote.table.rules IN
    /\ Last(lines).running = quote.premium
    /\ InBounds(quote.premium, quote.table)
    /\ \A i \in 2 .. Len(lines) :
         /\ Stage(lines[i - 1].kind) <= Stage(lines[i].kind)
         /\ Follows(lines[i], lines[i - 1].running)
    /\ Cardinality(Due(lines))
         = Cardinality({i \in DOMAIN rules : Applies(rules[i], quote.answers)})

Total(parts) ==
  LET upTo[n \in 0 .. Len(parts)] == IF n = 0 THEN 0 ELSE upTo[n - 1] + parts[n]
  IN upTo[Len(parts)]

\* Whatever a deploy wrote since, the installments billed are those shown
\* with the quote, they add up to the quoted premium and to the invoice, and
\* none is more than a franc above another (xaf.ts:75-83, policies.service.ts
\* :89-91).
ScheduleSumsToPremium ==
  policy # None =>
    /\ policy.premium = quote.premium
    /\ policy.parts = quote.schedule
    /\ Total(policy.parts) = policy.invoiced
    /\ policy.invoiced = quote.premium
    /\ \A i, j \in DOMAIN policy.parts :
         i < j => policy.parts[i] - policy.parts[j] \in {0, 1}
===============================================================================
