--------------------------- MODULE MC_ConnTracker ---------------------------
(* Model-checking instance of ConnTracker, with the inductive invariant of *)
(* the request-faithfulness proof; the cfg files give the constants.       *)
EXTENDS ConnTrackerRequestsProofs
=============================================================================
