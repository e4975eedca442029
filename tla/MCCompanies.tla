----------------------------- MODULE MCCompanies -----------------------------
(* A small instance of Companies: one slug, two modules. *)
EXTENDS Companies
TwoModules == <<"settings", "crm">>
TwoPlans == {{"settings"}, {"settings", "crm"}}
==============================================================================
