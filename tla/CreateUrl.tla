------------------------------ MODULE CreateUrl ------------------------------
(***************************************************************************)
(* create_url() of request.c, an snprintf-like formatter, together with    *)
(* the two ways the library calls it:                                      *)
(*   "grow"   gaus_check_for_updates() formats into a heap buffer and      *)
(*            retries with a larger one for as long as create_url fails;   *)
(*   "fixed"  gaus_register(), gaus_authenticate() and gaus_report() format *)
(*            once into char url[256] and ignore the result.               *)
(* Both sites that take filters build the URL's query string from them      *)
(* first, in a block that is reallocated for each filter.  The sites that   *)
(* have none are calls with an empty list.                                  *)
(*                                                                         *)
(* A text is the number of its characters.  Which directive of the format  *)
(* string a character comes from makes no difference to where it goes, so  *)
(* one step of the loop is one character.  (%e, %% and the invalid-        *)
(* directive branch are used by no call site.)                             *)
(***************************************************************************)
EXTENDS Integers, Sequences

CONSTANTS
  Increment,     \* 256 in the code: first size of the buffer, and what a retry adds
  MaxUrl,        \* bound: the longest URL without its query string
  FilterTexts,   \* lengths of "name=value" texts
  MaxFilters,    \* bound: filters of one call
  MaxCurlFails   \* bound: how often curl_easy_init fails within one call

ASSUME IncrementAssumption == Increment \in Nat \ {0}
ASSUME MaxUrlAssumption == MaxUrl \in Nat
ASSUME FilterTextsAssumption == FilterTexts \subseteq Nat \ {0}
ASSUME MaxFiltersAssumption == MaxFilters \in Nat
ASSUME MaxCurlFailsAssumption == MaxCurlFails \in Nat

Sites == {"grow", "fixed"}

(* No terminating NUL has been written: the text is uninitialised.         *)
NoText == -1

VARIABLES
  pc,        \* where the call is
  site,      \* which call site made it
  filters,   \* lengths of the filters' texts
  i,         \* filters appended to the query string
  query,     \* characters of query_parms
  block,     \* bytes allocated for query_parms
  total,     \* characters of the complete URL; up to "enter", without the query string
  url,       \* what the char * points to: "buffer", or "null" after a failed malloc
  cap,       \* dest_len
  pos,       \* create_url's count of characters, stored or not
  stored,    \* characters stored in the buffer
  nul,       \* index of the terminating NUL, or NoText
  ret,       \* what create_url returned
  curlFails  \* failures of curl_easy_init in this call (environment)

vars == <<pc, site, filters, i, query, block, total, url, cap, pos, stored, nul, ret, curlFails>>

queryVars == <<filters, i, query, block>>

(***************************************************************************)
(* A new call starts with a buffer of the first size.  Only the heap       *)
(* buffer can be NULL.                                                     *)
(***************************************************************************)
FreshBuffer(s) == IF s = "grow" THEN {"buffer", "null"} ELSE {"buffer"}

FilterLists == UNION {[1 .. n -> FilterTexts] : n \in 0 .. MaxFilters}

(* strdup("?") if there are filters, else strdup("").                       *)
FirstQuery(list) == IF list = <<>> THEN 0 ELSE 1

Init ==
  /\ pc = "query"
  /\ site \in Sites
  /\ filters \in FilterLists
  /\ i = 0
  /\ query = FirstQuery(filters)
  /\ block = FirstQuery(filters) + 1
  /\ total \in 0 .. MaxUrl
  /\ url \in FreshBuffer(site)
  /\ cap = Increment
  /\ pos = 0
  /\ stored = 0
  /\ nul = NoText
  /\ ret = 0
  /\ curlFails = 0

-----------------------------------------------------------------------------
(* Mutated forms of definitions below; each one must break a property.      *)

(* The block is enlarged by the filter's own text, without its "&".         *)
RequiredWithoutSeparator == filters[i + 1] + 1

(* write_char_safe with `offset < len`: the NUL's byte is used up.          *)
HasRoomForLast == url # "null" /\ pos < cap

(* The bound of the final NUL disagrees with the one of write_char_safe.    *)
FitsWithTwoSpare == pos + 2 < cap

(* As snprintf does, the count is returned although the text was cut.       *)
TerminateLikeSnprintf ==
  /\ pc = "format"
  /\ pos = total
  /\ nul' = IF url = "null" THEN NoText ELSE IF pos + 1 < cap THEN pos ELSE cap - 1
  /\ ret' = pos
  /\ pc' = "returned"
  /\ UNCHANGED <<queryVars, site, total, url, cap, pos, stored, curlFails>>

(* The retry allocates another size than the one it must.                   *)
RegrowTo(size) ==
  /\ pc = "returned"
  /\ site = "grow"
  /\ ret < 0
  /\ cap' = size
  /\ url' \in FreshBuffer(site)
  /\ stored' = 0
  /\ nul' = NoText
  /\ pc' = "enter"
  /\ UNCHANGED <<queryVars, site, total, pos, ret, curlFails>>

RegrowForgetsToGrow == RegrowTo(cap)
RegrowDoubles == RegrowTo(2 * cap)
RegrowShrinks == RegrowTo(cap - Increment)

-----------------------------------------------------------------------------

(* gaus_check_for_updates, gaus_report: one filter is printed, with an "&"   *)
(* before all but the first, and appended to the enlarged query string.     *)
Printed == filters[i + 1] + IF i > 0 THEN 1 ELSE 0
Required == Printed + 1

AppendFilter ==
  /\ pc = "query"
  /\ i < Len(filters)
  /\ block' = query + Required
  /\ query' = query + Printed
  /\ i' = i + 1
  /\ UNCHANGED <<pc, site, filters, total, url, cap, pos, stored, nul, ret, curlFails>>

QueryDone ==
  /\ pc = "query"
  /\ i = Len(filters)
  /\ total' = total + query
  /\ pc' = "enter"
  /\ UNCHANGED <<queryVars, site, url, cap, pos, stored, nul, ret, curlFails>>

(* create_url: no curl handle, return -1 before anything is written.       *)
CurlInitFails ==
  /\ pc = "enter"
  /\ curlFails < MaxCurlFails
  /\ curlFails' = curlFails + 1
  /\ ret' = -1
  /\ pc' = "returned"
  /\ UNCHANGED <<queryVars, site, total, url, cap, pos, stored, nul>>

CurlInit ==
  /\ pc = "enter"
  /\ pos' = 0
  /\ pc' = "format"
  /\ UNCHANGED <<queryVars, site, total, url, cap, stored, nul, ret, curlFails>>

(* write_char_safe: the last byte is kept for the NUL, the count goes on.   *)
HasRoom == url # "null" /\ pos + 1 < cap

(* The loop over the format string and its arguments.                       *)
WriteChar ==
  /\ pc = "format"
  /\ pos < total
  /\ stored' = IF HasRoom THEN pos + 1 ELSE stored
  /\ pos' = pos + 1
  /\ UNCHANGED <<queryVars, pc, site, total, url, cap, nul, ret, curlFails>>

(* create_url: the end of the format string.                               *)
Fits == pos + 1 < cap

Terminate ==
  /\ pc = "format"
  /\ pos = total
  /\ nul' = IF url = "null" THEN NoText ELSE IF Fits THEN pos ELSE cap - 1
  /\ ret' = IF url = "null" \/ Fits THEN pos ELSE -1
  /\ pc' = "returned"
  /\ UNCHANGED <<queryVars, site, total, url, cap, pos, stored, curlFails>>

(* gaus_check_for_updates: while (url_length < 0) a larger buffer.         *)
Regrow ==
  /\ pc = "returned"
  /\ site = "grow"
  /\ ret < 0
  /\ cap' = cap + Increment
  /\ url' \in FreshBuffer(site)
  /\ stored' = 0
  /\ nul' = NoText
  /\ pc' = "enter"
  /\ UNCHANGED <<queryVars, site, total, pos, ret, curlFails>>

(* The URL goes to libcurl.  The fixed call sites do not look at ret.      *)
Send ==
  /\ pc = "returned"
  /\ site = "grow" => ret >= 0
  /\ pc' = "sent"
  /\ UNCHANGED <<queryVars, site, total, url, cap, pos, stored, nul, ret, curlFails>>

(* The call ends, and some other call of the library formats a URL.        *)
NewCall ==
  /\ pc = "sent"
  /\ pc' = "query"
  /\ site' \in Sites
  /\ filters' \in FilterLists
  /\ i' = 0
  /\ query' = FirstQuery(filters')
  /\ block' = FirstQuery(filters') + 1
  /\ total' \in 0 .. MaxUrl
  /\ url' \in FreshBuffer(site')
  /\ cap' = Increment
  /\ pos' = 0
  /\ stored' = 0
  /\ nul' = NoText
  /\ ret' = 0
  /\ curlFails' = 0

Next ==
  \/ AppendFilter
  \/ QueryDone
  \/ CurlInitFails
  \/ CurlInit
  \/ WriteChar
  \/ Terminate
  \/ Regrow
  \/ Send
  \/ NewCall

(* The code runs to completion once called; that another call is made is   *)
(* up to the application.                                                  *)
Fairness ==
  /\ WF_vars(AppendFilter)
  /\ WF_vars(QueryDone)
  /\ WF_vars(CurlInit \/ CurlInitFails)
  /\ WF_vars(WriteChar)
  /\ WF_vars(Terminate)
  /\ WF_vars(Regrow)
  /\ WF_vars(Send)

Spec == Init /\ [][Next]_vars

FairSpec == Spec /\ Fairness

-----------------------------------------------------------------------------

TypeOK ==
  /\ pc \in {"query", "enter", "format", "returned", "sent"}
  /\ site \in Sites
  /\ filters \in FilterLists
  /\ i \in 0 .. Len(filters)
  /\ query \in Nat
  /\ block \in Nat
  /\ total \in Nat
  /\ url \in {"buffer", "null"}
  /\ cap \in Nat \ {0}
  /\ pos \in Nat
  /\ stored \in Nat
  /\ nul \in Nat \cup {NoText}
  /\ ret \in Int
  /\ curlFails \in Nat

(***************************************************************************)
(* strcat never writes past the block it appends to: at each filter, the     *)
(* query string fits into query_parms together with its NUL.                *)
(***************************************************************************)
QueryInsideBlock == query < block

(***************************************************************************)
(* Whatever the length of the URL, create_url stores and terminates inside  *)
(* the buffer, and a terminated text has no unwritten byte before its NUL.  *)
(***************************************************************************)
TextInsideBuffer ==
  /\ stored <= cap - 1
  /\ nul # NoText => nul = stored

(***************************************************************************)
(* gaus_check_for_updates never asks the server for a truncated URL: what   *)
(* it hands to libcurl is the whole URL, or NULL after a failed malloc.     *)
(***************************************************************************)
GrownUrlIsWhole ==
  pc = "sent" /\ site = "grow" /\ url = "buffer" => nul = total

(***************************************************************************)
(* A fixed call site sends the whole URL when curl could be initialised and  *)
(* the URL leaves a spare byte beside its NUL in the 256 bytes.             *)
(***************************************************************************)
ShortUrlIsWhole ==
  pc = "sent" /\ curlFails = 0 /\ total + 1 < cap /\ url = "buffer" => nul = total

(***************************************************************************)
(* The retry loop does not overshoot: as long as curl_easy_init works, the  *)
(* buffer is at most one increment larger than the URL with its NUL.        *)
(***************************************************************************)
GrowthIsTight ==
  curlFails = 0 => cap <= total + 1 + Increment

(***************************************************************************)
(* Formatting ends: every call gets to send, provided curl_easy_init does   *)
(* not fail for ever (the loop of gaus_check_for_updates has no other exit). *)
(***************************************************************************)
UrlEventuallySent == pc = "query" ~> pc = "sent"

(***************************************************************************)
(* The header file says the filters a caller gives are used to build the    *)
(* query string: the URL sent is not a cut-off one.                         *)
(***************************************************************************)
SentUrlIsWhole ==
  pc = "sent" /\ nul # NoText => nul = total

=============================================================================
