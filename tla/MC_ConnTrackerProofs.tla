------------------------- MODULE MC_ConnTrackerProofs -------------------------
(* Model-checking instance for the inductive invariants of ConnTrackerProofs *)
(* (IInv) and ConnTrackerFaithfulProofs (FInv, which contains IInv).         *)
EXTENDS ConnTrackerFaithfulProofs
=============================================================================
