---------------------------- MODULE MCBlockFetch ----------------------------
(* An instance of BlockFetch for TLC: two servers, block 3 is a big one. *)
EXTENDS BlockFetch

CONSTANTS s1, s2

MCServers == {s1, s2}
MCBig == {3}
=============================================================================
