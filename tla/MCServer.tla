------------------------------ MODULE MCServer ------------------------------
(***************************************************************************)
(* Instances of Server for TLC.  One handler gets the requests that read   *)
(* several things, the other one only counts.  Read while it is written,   *)
(* hashes.size() - 1 may be -1 (the vector is empty) or far too large.     *)
(***************************************************************************)
EXTENDS Server, MCSync

CONSTANTS h1, h2

Request(kind, begin, cnt) == [kind |-> kind, begin |-> begin, cnt |-> cnt]

MCHandlers == {h1, h2}
MCUnlucky  == {-1, 9}

MCRequests == [h \in MCHandlers |->
    IF h = h1 THEN {Request("forward", 1, 3), Request("backward", 0, 2),
                    Request("dumps", 1, 2)}
              ELSE {Request("count", 0, 0)}]

MCOneHandler  == {h1}
MCHashRequest == [h \in MCOneHandler |-> {Request("hash", b, 1) : b \in Blocks}]
=============================================================================
