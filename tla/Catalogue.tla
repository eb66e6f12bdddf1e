------------------------------- MODULE Catalogue -------------------------------
(***************************************************************************)
(* The products the launch opens with, as the seed holds them: every plan  *)
(* with its base premium and the rating table of its product.              *)
(***************************************************************************)
EXTENDS Rating

ASSUME CatalogueAssumption == Scale % 100 = 0

Percent(n) == n * (Scale \div 100)
Rates(values) == [v \in DOMAIN values |-> Percent(values[v])]

LookupRule(field, values, default) ==
  [kind |-> "lookup", field |-> field, values |-> Rates(values),
   default |-> Percent(default)]
BandRule(field, bands, default) ==
  [kind |-> "band", field |-> field, bands |-> bands, default |-> default]
From(min, max, multiplier) ==
  [min |-> min, max |-> max, multiplier |-> Percent(multiplier)]

Liability ==
  [rules |-> <<
     LookupRule("practice_areas",
       [criminal |-> 135, litigation |-> 125, corporate |-> 100, notarial |-> 95], 110),
     BandRule("years_admitted",
       <<From(None, 3, 120), From(3, 10, 100), From(10, None, 90)>>, None),
     BandRule("firm_size",
       <<From(None, 2, 100), From(2, 10, 115), From(10, None, 130)>>, One),
     [kind |-> "flag", field |-> "prior_claims", whenTrue |-> Percent(125)],
     [kind |-> "discount", field |-> "multi_policy",
      values |-> Rates([t \in {TRUE} |-> 90])]>>,
   min |-> 50000, max |-> 5000000]

Vehicle ==
  [rules |-> <<
     BandRule("vehicle_value_xaf",
       <<From(None, 5000000, 85), From(5000000, 15000000, 100),
         From(15000000, 30000000, 135), From(30000000, None, 180)>>, One),
     BandRule("vehicle_age",
       <<From(None, 5, 100), From(5, 12, 115), From(12, None, 140)>>, One),
     LookupRule("usage", [private |-> 100, professional |-> 120], 100)>>,
   min |-> 45000, max |-> None]

Medical ==
  [rules |-> <<
     BandRule("beneficiary_count",
       <<From(None, 2, 100), From(2, 5, 140), From(5, None, 190)>>, One),
     BandRule("eldest_age",
       <<From(None, 45, 100), From(45, 60, 125), From(60, None, 160)>>, One)>>,
   min |-> 120000, max |-> None]

\* The plans in the order the seed writes them.
Plans == <<"PLI-SILVER", "PLI-GOLD", "VEH-THIRD", "VEH-FULL", "MED-FAMILY">>

PlanCodes == {Plans[i] : i \in DOMAIN Plans}

BasePremium ==
  [p \in PlanCodes |->
     CASE p = "PLI-SILVER" -> 200000
       [] p = "PLI-GOLD"   -> 450000
       [] p = "VEH-THIRD"  -> 85000
       [] p = "VEH-FULL"   -> 240000
       [] p = "MED-FAMILY" -> 320000]

RatingOf ==
  [p \in PlanCodes |->
     CASE p \in {"PLI-SILVER", "PLI-GOLD"} -> Liability
       [] p \in {"VEH-THIRD", "VEH-FULL"}  -> Vehicle
       [] p = "MED-FAMILY"                 -> Medical]
===============================================================================
