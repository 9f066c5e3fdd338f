---------------------------- MODULE MCGausGlobal -----------------------------
(* Two users, so that one can clean up what the other still uses; two       *)
(* servers, so that a second init can disagree with the first.              *)
EXTENDS GausGlobal, TLC

CONSTANTS app, lib, here, there, opt

MCUsers == {app, lib}
MCServers == {here, there}
MCOptions == {opt}
MCMaxInits == 2

(* A user that may have one init only cannot have cleaned up after it and    *)
(* still be owed service: a refusal is another user's doing.                *)
MCOneInit == 1

UserSymmetry == Permutations(MCUsers)
=============================================================================
