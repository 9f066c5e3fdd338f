----------------------------- MODULE JsonHelpers -----------------------------
(***************************************************************************)
(* gaus_json_helpers.c: how a member of a JSON object becomes a C value, and *)
(* how the integer returned changes width on its way to where it is kept.    *)
(***************************************************************************)
EXTENDS Integers

CONSTANT Half  \* 2^31: an int is -Half .. Half - 1

ASSUME HalfAssumption == Half \in Nat \ {0}

Word == 2 * Half

(* Mutated form of ToInt, which breaks a property: the nearest int.          *)
ToIntSaturates(n) == IF n >= Half THEN Half - 1 ELSE IF n < -Half THEN -Half ELSE n

(* The 64 bit json_int_t returned as an int, and an int kept in an unsigned. *)
ToInt(n) == IF n % Word < Half THEN n % Word ELSE (n % Word) - Word
ToUnsigned(n) == IF n < 0 THEN n + Word ELSE n

(* `given`: the member is there and is an integer.                          *)
get_dict_int(given, n, default) == IF given THEN ToInt(n) ELSE default
=============================================================================
