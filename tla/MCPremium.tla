------------------------------- MODULE MCPremium -------------------------------
(***************************************************************************)
(* Answers on both sides of every bound of the seed's tables, some of them *)
(* not given.  The next release declares discounts and loadings first,     *)
(* raises a plan past its upper bound and has one plan of seven francs.    *)
(***************************************************************************)
EXTENDS Premium

LiabilityAnswers ==
  [practice_areas : {{}, {"criminal"}, {"corporate", "notarial"}},
   years_admitted : {2, 3, 10}, firm_size : {1, 2, 10},
   prior_claims : BOOLEAN, multi_policy : BOOLEAN]

VehicleAnswers ==
  [vehicle_value_xaf : {4999999, 15000000, 30000000}, vehicle_age : {4, 5, 12},
   usage : {{"private"}, {"professional"}}]

MedicalAnswers ==
  [beneficiary_count : {1, 2, 5}, eldest_age : {44, 45, 60}]
    \cup [eldest_age : {60}]

MCAnswers ==
  [p \in PlanCodes |->
     CASE p \in {"PLI-SILVER", "PLI-GOLD"} -> LiabilityAnswers
       [] p \in {"VEH-THIRD", "VEH-FULL"}  -> VehicleAnswers
       [] p = "MED-FAMILY"                 -> MedicalAnswers]

Reordered(table) ==
  [rules |-> <<[kind |-> "loading", field |-> "prior_claims", amount |-> 1501,
                when |-> TRUE],
               [kind |-> "loading", field |-> "file", amount |-> 999, when |-> None]>>
             \o Reverse(table.rules),
   min |-> table.min, max |-> table.max]

MCRelease ==
  [p \in PlanCodes |->
     CASE p = "PLI-SILVER" -> [base |-> 210001, rating |-> Reordered(Liability)]
       [] p = "PLI-GOLD"   -> [base |-> 4000003, rating |-> Reordered(Liability)]
       [] p = "VEH-THIRD"  -> [base |-> 7,
                               rating |-> [Vehicle EXCEPT !.min = None]]
       [] p = "VEH-FULL"   -> [base |-> 240000, rating |-> Reordered(Vehicle)]
       [] p = "MED-FAMILY" -> [base |-> 61003, rating |-> Reordered(Medical)]]
===============================================================================
