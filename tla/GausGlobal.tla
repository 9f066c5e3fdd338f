----------------------------- MODULE GausGlobal ------------------------------
(***************************************************************************)
(* The process-wide state of the library (gaus_global_state of gaus.c), the *)
(* two functions that change it, and what every other entry point reads of  *)
(* it while threads run side by side.                                       *)
(*                                                                         *)
(* gaus_client.h forbids calling gaus_global_init and gaus_global_cleanup    *)
(* while another thread is in the library, and asks for one cleanup per     *)
(* init; the operators Alone and MayCleanUp are these two rules.  Within    *)
(* them each of the two functions is one step, since nobody can see it half *)
(* done.  An argument is a model value: which server, proxy or CA path.     *)
(***************************************************************************)
EXTENDS Integers

CONSTANTS
  Users,     \* parts of the program that use the library, each a thread
  Servers,   \* server URLs they pass to gaus_global_init
  Options,   \* proxies and CA paths
  None,      \* a NULL pointer
  MaxInits   \* bound: inits of one user that are not cleaned up yet

ASSUME NoneAssumption == None \notin Servers /\ None \notin Options
ASSUME MaxInitsAssumption == MaxInits \in Nat

Environments ==
  [serverUrl : Servers, proxy : Options \cup {None}, ca_path : Options \cup {None}]

Pointers == {"serverUrl", "proxy", "ca_path"}

NoEnvironment == [serverUrl |-> None, proxy |-> None, ca_path |-> None]

VARIABLES
  globalInitalized,  \* the flag
  global,            \* what the three pointers were last set to
  freed,             \* pointers whose block has been freed
  curlInits,         \* curl_global_init calls not cleaned up
  inits,             \* successful inits of each user, less their cleanups
  at,                \* where in a call each user is
  read,              \* what the user's call read of the global state
  effective          \* arguments of the init that set the library up (ghost)

vars == <<globalInitalized, global, freed, curlInits, inits, at, read, effective>>

Init ==
  /\ globalInitalized = FALSE
  /\ global = NoEnvironment
  /\ freed = {}
  /\ curlInits = 0
  /\ inits = [u \in Users |-> 0]
  /\ at = [u \in Users |-> "out"]
  /\ read = [u \in Users |-> NoEnvironment]
  /\ effective = NoEnvironment

(* Nobody is inside the library.                                            *)
Alone == \A u \in Users : at[u] = "out"

(* One cleanup for each init; more of them only when nothing is set up.     *)
MayCleanUp(u) == inits[u] > 0 \/ ~globalInitalized
Less(n) == IF n > 0 THEN n - 1 ELSE 0

Frame == UNCHANGED <<at, read>>

-----------------------------------------------------------------------------
(* Mutated forms of definitions below; each one must break a property.      *)

(* The else branches that set an option to NULL are missing.                *)
GlobalInitKeepsOptions(u, args) ==
  /\ Alone
  /\ ~globalInitalized
  /\ inits[u] < MaxInits
  /\ curlInits' = curlInits + 1
  /\ global' = [p \in Pointers |-> IF args[p] # None THEN args[p] ELSE global[p]]
  /\ freed' = {}
  /\ globalInitalized' = TRUE
  /\ effective' = args
  /\ inits' = [inits EXCEPT ![u] = @ + 1]
  /\ Frame

(* The arguments of a second init replace those of the first.               *)
GlobalInitAgainReplaces(u) ==
  /\ Alone
  /\ globalInitalized
  /\ inits[u] < MaxInits
  /\ global' \in Environments
  /\ inits' = [inits EXCEPT ![u] = @ + 1]
  /\ UNCHANGED <<globalInitalized, freed, curlInits, effective>>
  /\ Frame

(* A cleanup that frees only some of the pointers, or leaves the flag set,  *)
(* or does not test it.                                                     *)
CleanupOf(u, pointers, guard, flag) ==
  /\ Alone
  /\ MayCleanUp(u)
  /\ inits' = [inits EXCEPT ![u] = Less(@)]
  /\ IF guard
       THEN /\ freed' = {p \in pointers : global[p] # None}
            /\ curlInits' = curlInits - 1
            /\ globalInitalized' = flag
       ELSE UNCHANGED <<freed, curlInits, globalInitalized>>
  /\ UNCHANGED <<global, effective>>
  /\ Frame

CleanupForgetsCaPath(u) == CleanupOf(u, Pointers \ {"ca_path"}, globalInitalized, FALSE)
CleanupKeepsFlag(u) == CleanupOf(u, Pointers, globalInitalized, TRUE)
CleanupUnguarded(u) == CleanupOf(u, Pointers, TRUE, FALSE)

-----------------------------------------------------------------------------

(* gaus_global_init when the library is not set up.  Every pointer is       *)
(* assigned: an option that is not given becomes NULL.                      *)
GlobalInit(u, args) ==
  /\ Alone
  /\ ~globalInitalized
  /\ inits[u] < MaxInits
  /\ curlInits' = curlInits + 1
  /\ global' = args
  /\ freed' = {}
  /\ globalInitalized' = TRUE
  /\ effective' = args
  /\ inits' = [inits EXCEPT ![u] = @ + 1]
  /\ Frame

(* curl_global_init fails: an error is returned, nothing is changed.        *)
GlobalInitFails(u) ==
  /\ Alone
  /\ ~globalInitalized
  /\ UNCHANGED vars

(* Already set up: success, and the arguments are ignored.                  *)
GlobalInitAgain(u) ==
  /\ Alone
  /\ globalInitalized
  /\ inits[u] < MaxInits
  /\ inits' = [inits EXCEPT ![u] = @ + 1]
  /\ UNCHANGED <<globalInitalized, global, freed, curlInits, effective>>
  /\ Frame

(* gaus_global_cleanup: the first one of any user takes the library down;   *)
(* the pointers are left dangling.                                          *)
GlobalCleanup(u) ==
  /\ Alone
  /\ MayCleanUp(u)
  /\ inits' = [inits EXCEPT ![u] = Less(@)]
  /\ IF globalInitalized
       THEN /\ freed' = {p \in Pointers : global[p] # None}
            /\ curlInits' = curlInits - 1
            /\ globalInitalized' = FALSE
       ELSE UNCHANGED <<freed, curlInits, globalInitalized>>
  /\ UNCHANGED <<global, effective>>
  /\ Frame

-----------------------------------------------------------------------------
(* gaus_register, gaus_authenticate, gaus_check_for_updates, gaus_report.   *)

Enter(u) ==
  /\ at[u] = "out"
  /\ at' = [at EXCEPT ![u] = IF globalInitalized THEN "entered" ELSE "refused"]
  /\ read' = [read EXCEPT ![u] = NoEnvironment]
  /\ UNCHANGED <<globalInitalized, global, freed, curlInits, inits, effective>>

(* create_url: the server's URL is copied into the request's.               *)
FormatUrl(u) ==
  /\ at[u] = "entered"
  /\ read' = [read EXCEPT ![u].serverUrl = global.serverUrl]
  /\ at' = [at EXCEPT ![u] = "formatted"]
  /\ UNCHANGED <<globalInitalized, global, freed, curlInits, inits, effective>>

(* request_get, request_post: proxy and CA path go to the curl handle, and  *)
(* the transfer runs.                                                       *)
Transfer(u) ==
  /\ at[u] = "formatted"
  /\ read' = [read EXCEPT ![u].proxy = global.proxy, ![u].ca_path = global.ca_path]
  /\ at' = [at EXCEPT ![u] = "transferred"]
  /\ UNCHANGED <<globalInitalized, global, freed, curlInits, inits, effective>>

(* The call returns: at once with invalid parameters, before the transfer   *)
(* without a curl handle.                                                   *)
Return(u) ==
  /\ at[u] # "out"
  /\ at' = [at EXCEPT ![u] = "out"]
  /\ UNCHANGED <<globalInitalized, global, freed, curlInits, inits, read, effective>>

Next ==
  \E u \in Users :
    \/ \E args \in Environments : GlobalInit(u, args)
    \/ GlobalInitFails(u)
    \/ GlobalInitAgain(u)
    \/ GlobalCleanup(u)
    \/ Enter(u)
    \/ FormatUrl(u)
    \/ Transfer(u)
    \/ Return(u)

Spec == Init /\ [][Next]_vars

-----------------------------------------------------------------------------
TypeOK ==
  /\ globalInitalized \in BOOLEAN
  /\ global \in Environments \cup {NoEnvironment}
  /\ freed \subseteq Pointers
  /\ curlInits \in Nat
  /\ inits \in [Users -> 0 .. MaxInits]
  /\ at \in [Users -> {"out", "entered", "refused", "formatted", "transferred"}]
  /\ read \in [Users -> [serverUrl : Servers \cup {None}, proxy : Options \cup {None},
                         ca_path : Options \cup {None}]]
  /\ effective \in Environments \cup {NoEnvironment}

(***************************************************************************)
(* A call that got past the check of the flag never meets a freed pointer   *)
(* or a libcurl that has been shut down, whatever other users have set up   *)
(* and cleaned up before, and in whichever order.                           *)
(***************************************************************************)
CallsAreSafe ==
  \A u \in Users : at[u] \in {"entered", "formatted", "transferred"} =>
    freed = {} /\ curlInits = 1 /\ global.serverUrl # None

(***************************************************************************)
(* A request goes where the init that set the library up said, by the proxy *)
(* and the CA path of that same init: nothing of an earlier set-up survives *)
(* a cleanup, and a second init changes nothing.                            *)
(***************************************************************************)
CallsUseOneEnvironment ==
  \A u \in Users : at[u] = "transferred" => read[u] = effective

(***************************************************************************)
(* Across any sequence of inits and cleanups, libcurl is set up once while  *)
(* the library is, and not at all else; and no block is left behind: every  *)
(* pointer is NULL or freed once the library is down.                       *)
(***************************************************************************)
SetUpIsBalanced ==
  /\ curlInits = IF globalInitalized THEN 1 ELSE 0
  /\ ~globalInitalized => \A p \in Pointers : global[p] # None => p \in freed

(***************************************************************************)
(* The environment of a set-up library is constant: multiple calls of       *)
(* gaus_global_init have the same effect as one.                            *)
(***************************************************************************)
EnvironmentIsConstant ==
  [][globalInitalized /\ globalInitalized' => UNCHANGED <<global, freed, curlInits>>]_vars

(***************************************************************************)
(* The header file asks each user for one cleanup per init: a user that has *)
(* initialised the library and not cleaned up yet is served, also when       *)
(* another user, whose init was open at the same time, has made its cleanup. *)
(***************************************************************************)
PairedUserIsServed ==
  \A u \in Users : at[u] = "refused" => inits[u] = 0
=============================================================================
