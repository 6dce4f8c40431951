------------------------------- MODULE MCSync -------------------------------
(***************************************************************************)
(* Instances of Sync for TLC.  The honest network has one chain, 1 <- 2 <- *)
(* 3 <- ..., and answers block n for number n.  The straying network also  *)
(* answers with blocks that do not belong there: 5 is a second child of    *)
(* block 1, 6 a child of 8, block 8 has a parent (9) that no server has,   *)
(* and block 2 is offered again for number 3.                              *)
(***************************************************************************)
EXTENDS Sync

MCHonestBlocks  == 1..MaxBlock
MCHonestPrev    == [b \in 1..MaxBlock |-> b - 1]
MCHonestAnswers == [n \in 1..MaxBlock |-> {n}]
MCHonestSigns   == [b \in 1..MaxBlock |-> IF b = 1 THEN {} ELSE {b - 1}]

MCStrayBlocks  == {1, 2, 3, 5, 6, 8, 9}
MCStrayPrev    == [b \in MCStrayBlocks |->
                     CASE b = 5 -> 1 [] b = 6 -> 8 [] b = 8 -> 9 [] b = 9 -> Genesis
                       [] OTHER -> b - 1]
MCStrayAnswers == [n \in 1..MaxBlock |->
                     CASE n = 1 -> {1, 8} [] n = 2 -> {2, 5, 6} [] OTHER -> {2, 3}]
MCStraySigns   == [b \in MCStrayBlocks |->
                     CASE b = 1 -> {} [] b = 5 -> {8} [] OTHER -> {MCStrayPrev[b]}]

MCNoFaults     == [k \in FaultKinds |-> 0]
MCCrashes      == [MCNoFaults EXCEPT !["crash"] = 2, !["net"] = 1]
MCCuts         == [MCNoFaults EXCEPT !["crash"] = 1, !["cut"] = 1]
MCWorkerFaults == [MCNoFaults EXCEPT !["crash"] = 1, !["cut"] = 1,
                                     !["worker"] = 1, !["net"] = 1]
MCSaveFault    == [MCNoFaults EXCEPT !["crash"] = 1, !["save"] = 1]
MCEachOnce     == [k \in FaultKinds |-> 1]
=============================================================================
