---------------------------- MODULE MCSyncPower -----------------------------
(* An instance of SyncPower for TLC, with the honest network of MCSync. *)
EXTENDS SyncPower, MCSync

MCOneFailure == [MCNoFaults EXCEPT !["crash"] = 1]
=============================================================================
