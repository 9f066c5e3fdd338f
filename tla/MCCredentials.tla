---------------------------- MODULE MCCredentials -----------------------------
(* Three calls: one whose strings are kept, one that fails half-way, and one  *)
(* that could pair what the two have left.                                  *)
EXTENDS Credentials

MCCodes == {200, 302, 404}
MCMaxBody == 1
MCMaxCalls == 3
=============================================================================
