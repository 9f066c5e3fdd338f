-------------------------- MODULE MCCheckForUpdates --------------------------
(* Three updates, so that one can be rejected before, at and after another   *)
(* that is not a file; two metadata pairs, so that a value can be rejected   *)
(* with a pair before it and one after it; ints of two bits, with sizes      *)
(* below and above the largest int and the largest unsigned.                *)
EXTENDS CheckForUpdates

MCCodes == {200, 302, 404}
MCMaxBody == 1
MCMaxUpdates == 3
MCMaxPairs == 2
MCHalf == 2
MCSizes == {0, 1, 3, 4, 5}
=============================================================================
