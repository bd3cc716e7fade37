------------------------ MODULE MCChargeRestriction ------------------------
(***************************************************************************)
(* ChargeRestriction on sizes chosen so that every check of the budget can *)
(* pass and fail: with the floor at 1000, a limit of 500 is advisory, as   *)
(* None is; 1050 leaves a residual below the floor; 1570 would fit the     *)
(* transition graph but not beside the lazy plan; 1750 fits both plans but *)
(* not the arrays of a target beside them.                                 *)
(***************************************************************************)
EXTENDS ChargeRestriction, TLC

AllBudgets == {500, 1050, 1570, 1750}

\* A limit whose residual is advisory and one whose residual is enforced.
DocumentedBudgets == {1050, 1750}
=============================================================================
