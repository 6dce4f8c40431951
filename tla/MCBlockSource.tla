--------------------------- MODULE MCBlockSource ----------------------------
(* An instance of BlockSource for TLC, with the servers of MCBlockFetch. *)
EXTENDS BlockSource, MCBlockFetch
=============================================================================
