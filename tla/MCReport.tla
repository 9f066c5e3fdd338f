------------------------------- MODULE MCReport -------------------------------
(* Two reports, so that the second can fail when the first is in the array;   *)
(* lists of two values, so that a name can occur twice, and a value that      *)
(* cannot be encoded before or after one that can.                          *)
EXTENDS Report

MCCodes == {200, 302, 404}
MCMaxBody == 1
MCMaxReports == 2
MCMaxValues == 2
MCNames == {"n", "m"}
===============================================================================
