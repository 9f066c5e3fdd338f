---------------------------- MODULE MCCreateUrl -----------------------------
(* An increment of 4 bytes stands for 256: URLs up to 10 characters, and a   *)
(* query string of up to 8, cross growth boundaries from both sides.  The    *)
(* first of two filters has no separator and the second has one.            *)
EXTENDS CreateUrl

MCIncrement == 4
MCMaxUrl == 10
MCFilterTexts == {1, 3}
MCMaxFilters == 2
MCMaxCurlFails == 2
=============================================================================
