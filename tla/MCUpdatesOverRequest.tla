------------------------ MODULE MCUpdatesOverRequest -------------------------
(* Bounds as in MCCheckForUpdates, but for bodies of up to two bytes: they   *)
(* come in one chunk or in two, so that the response block can be lost, or   *)
(* the transfer given up, with nothing, a part or all of the body stored.    *)
EXTENDS UpdatesOverRequest

MCCodes == {200, 302, 404}
MCMaxBody == 2
MCMaxUpdates == 3
MCMaxPairs == 2
MCHalf == 2
MCSizes == {0, 1, 3, 4, 5}
=============================================================================
