----------------------------- MODULE MCDownload -----------------------------
(* An instance of Download for TLC, with two servers.  The part of bytes 3    *)
(* and 4 of a dump looks like a message, and so does the answer to the third  *)
(* question of a list.                                                        *)
EXTENDS Download

CONSTANTS s1, s2

MCServers == {s1, s2}
MCBraced  == {<<2, 4>>, <<2, 3>>}
=============================================================================
