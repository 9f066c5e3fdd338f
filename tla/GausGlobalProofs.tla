--------------------------- MODULE GausGlobalProofs ---------------------------
(***************************************************************************)
(* What gaus_global_init and gaus_global_cleanup guarantee to any number of  *)
(* users with any servers and options, that keep the two rules of the       *)
(* header file.                                                             *)
(***************************************************************************)
EXTENDS GausGlobal, TLAPS

(* While the library is set up, its pointers are those of the init that did  *)
(* it, none of them freed.                                                  *)
SetUpIsWhole ==
  globalInitalized => freed = {} /\ global = effective /\ global \in Environments

(* A call past the check of the flag has the library set up around it, and  *)
(* what it has read so far is of that set-up.                               *)
InFlight ==
  \A u \in Users :
    /\ at[u] \in {"entered", "formatted", "transferred"} => globalInitalized
    /\ at[u] = "formatted" => read[u].serverUrl = global.serverUrl
    /\ at[u] = "transferred" => read[u] = global

IInv ==
  /\ TypeOK
  /\ SetUpIsBalanced
  /\ SetUpIsWhole
  /\ InFlight

USE NoneAssumption, MaxInitsAssumption

LEMMA InitIInv == Init => IInv
<1> SUFFICES ASSUME Init PROVE IInv
  OBVIOUS
<1> USE DEF Init, NoEnvironment
<1>1. TypeOK
  <2>1. NoEnvironment \in [serverUrl : Servers \cup {None}, proxy : Options \cup {None},
                          ca_path : Options \cup {None}]
    OBVIOUS
  <2>2. read \in [Users -> [serverUrl : Servers \cup {None}, proxy : Options \cup {None},
                            ca_path : Options \cup {None}]]
    BY <2>1
  <2>3. inits \in [Users -> 0 .. MaxInits]
    OBVIOUS
  <2> QED
    BY <2>2, <2>3 DEF TypeOK
<1>2. SetUpIsBalanced
  BY DEF SetUpIsBalanced, Pointers
<1>3. SetUpIsWhole /\ InFlight
  BY DEF SetUpIsWhole, InFlight
<1> QED
  BY <1>1, <1>2, <1>3 DEF IInv

(* The actions that set up or take down the library find nobody in it.      *)
LEMMA SetUpStep ==
  ASSUME IInv, NEW u \in Users,
         \/ \E args \in Environments : GlobalInit(u, args)
         \/ GlobalInitFails(u)
         \/ GlobalInitAgain(u)
         \/ GlobalCleanup(u)
  PROVE  IInv'
<1> USE DEF IInv
<1>1. CASE \E args \in Environments : GlobalInit(u, args)
  <2>1. PICK args \in Environments : GlobalInit(u, args)
    BY <1>1
  <2>2. TypeOK'
    BY <2>1 DEF GlobalInit, Frame, TypeOK
  <2>3. SetUpIsBalanced' /\ SetUpIsWhole'
    BY <2>1 DEF GlobalInit, SetUpIsBalanced, SetUpIsWhole
  <2>4. InFlight'
    BY <2>1 DEF GlobalInit, Frame, InFlight, Alone
  <2> QED
    BY <2>2, <2>3, <2>4
<1>2. CASE GlobalInitFails(u)
  BY <1>2 DEF GlobalInitFails, vars, TypeOK, SetUpIsBalanced, SetUpIsWhole, InFlight
<1>3. CASE GlobalInitAgain(u)
  <2>1. TypeOK'
    BY <1>3 DEF GlobalInitAgain, Frame, TypeOK
  <2> QED
    BY <1>3, <2>1 DEF GlobalInitAgain, Frame, SetUpIsBalanced, SetUpIsWhole, InFlight
<1>4. CASE GlobalCleanup(u)
  <2>1. curlInits' \in Nat /\ SetUpIsBalanced'
    BY <1>4 DEF GlobalCleanup, SetUpIsBalanced
  <2>2. TypeOK'
    <3>1. inits' \in [Users -> 0 .. MaxInits]
      BY <1>4 DEF GlobalCleanup, Less, TypeOK
    <3>2. freed' \subseteq Pointers /\ globalInitalized' \in BOOLEAN
      BY <1>4 DEF GlobalCleanup, TypeOK
    <3> QED
      BY <1>4, <2>1, <3>1, <3>2 DEF GlobalCleanup, Frame, TypeOK
  <2>3. SetUpIsWhole'
    BY <1>4 DEF GlobalCleanup, SetUpIsWhole
  <2>4. InFlight'
    BY <1>4 DEF GlobalCleanup, Frame, InFlight, Alone
  <2> QED
    BY <2>1, <2>2, <2>3, <2>4
<1> QED
  BY <1>1, <1>2, <1>3, <1>4

(* The steps of a call read the global state and leave it alone.            *)
LEMMA CallStep ==
  ASSUME IInv, NEW u \in Users, Enter(u) \/ FormatUrl(u) \/ Transfer(u) \/ Return(u)
  PROVE  IInv'
<1> USE DEF IInv
<1>0. UNCHANGED <<globalInitalized, global, freed, curlInits, inits, effective>>
  BY DEF Enter, FormatUrl, Transfer, Return
<1>1. SetUpIsBalanced' /\ SetUpIsWhole'
  BY <1>0 DEF SetUpIsBalanced, SetUpIsWhole
<1>2. global.serverUrl \in Servers \cup {None} /\ global.proxy \in Options \cup {None}
      /\ global.ca_path \in Options \cup {None}
  BY DEF TypeOK, Environments, NoEnvironment
<1>3. CASE Enter(u)
  <2>1. TypeOK'
    BY <1>0, <1>3 DEF Enter, TypeOK, NoEnvironment
  <2>2. InFlight'
    BY <1>0, <1>3 DEF Enter, TypeOK, InFlight
  <2> QED
    BY <1>1, <2>1, <2>2
<1>4. CASE FormatUrl(u)
  <2>1. TypeOK'
    BY <1>0, <1>2, <1>4 DEF FormatUrl, TypeOK
  <2>2. InFlight'
    <3>1. read'[u].serverUrl = global.serverUrl
      BY <1>4 DEF FormatUrl, TypeOK
    <3>2. at'[u] = "formatted" /\ globalInitalized
      BY <1>4 DEF FormatUrl, TypeOK, InFlight
    <3>3. \A v \in Users \ {u} : at'[v] = at[v] /\ read'[v] = read[v]
      BY <1>4 DEF FormatUrl, TypeOK
    <3> QED
      BY <1>0, <3>1, <3>2, <3>3 DEF InFlight
  <2> QED
    BY <1>1, <2>1, <2>2
<1>5. CASE Transfer(u)
  <2>1. TypeOK'
    BY <1>0, <1>2, <1>5 DEF Transfer, TypeOK
  <2>2. globalInitalized /\ global \in Environments /\ read[u].serverUrl = global.serverUrl
    BY <1>5 DEF Transfer, InFlight, SetUpIsWhole
  <2>3. read'[u] = global
    BY <1>5, <2>2 DEF Transfer, TypeOK, Environments
  <2>4. InFlight'
    <3>1. at'[u] = "transferred"
      BY <1>5 DEF Transfer, TypeOK
    <3>2. \A v \in Users \ {u} : at'[v] = at[v] /\ read'[v] = read[v]
      BY <1>5 DEF Transfer, TypeOK
    <3> QED
      BY <1>0, <2>2, <2>3, <3>1, <3>2 DEF InFlight
  <2> QED
    BY <1>1, <2>1, <2>4
<1>6. CASE Return(u)
  <2>1. TypeOK'
    BY <1>0, <1>6 DEF Return, TypeOK
  <2>2. InFlight'
    BY <1>0, <1>6 DEF Return, TypeOK, InFlight
  <2> QED
    BY <1>1, <2>1, <2>2
<1> QED
  BY <1>3, <1>4, <1>5, <1>6

(* The inductive invariant holds in every reachable state.                  *)
THEOREM Inductive == Spec => []IInv
<1>1. IInv /\ [Next]_vars => IInv'
  <2> SUFFICES ASSUME IInv, [Next]_vars PROVE IInv'
    OBVIOUS
  <2>1. CASE Next
    BY <2>1, SetUpStep, CallStep DEF Next
  <2>2. CASE UNCHANGED vars
    BY <2>2 DEF vars, IInv, TypeOK, SetUpIsBalanced, SetUpIsWhole, InFlight
  <2> QED
    BY <2>1, <2>2
<1> QED
  BY InitIInv, <1>1, PTL DEF Spec

(* The global state keeps its types.                                        *)
THEOREM TypeCorrect == Spec => []TypeOK
<1>1. IInv => TypeOK
  BY DEF IInv
<1> QED
  BY <1>1, Inductive, PTL

(* libcurl is set up as often as it must be and every block is freed.       *)
THEOREM Balanced == Spec => []SetUpIsBalanced
<1>1. IInv => SetUpIsBalanced
  BY DEF IInv
<1> QED
  BY <1>1, Inductive, PTL

(* No call in flight reads a freed pointer.                                 *)
THEOREM SafeCalls == Spec => []CallsAreSafe
<1>1. IInv => CallsAreSafe
  <2> SUFFICES ASSUME IInv PROVE CallsAreSafe
    OBVIOUS
  <2>1. globalInitalized => freed = {} /\ curlInits = 1 /\ global.serverUrl # None
    BY DEF IInv, SetUpIsWhole, SetUpIsBalanced, Environments
  <2> QED
    BY <2>1 DEF IInv, InFlight, CallsAreSafe
<1> QED
  BY <1>1, Inductive, PTL

(* No call mixes the environments of two set-ups.                           *)
THEOREM OneEnvironment == Spec => []CallsUseOneEnvironment
<1>1. IInv => CallsUseOneEnvironment
  BY DEF IInv, InFlight, SetUpIsWhole, CallsUseOneEnvironment
<1> QED
  BY <1>1, Inductive, PTL

(* Nothing changes the environment of a library that stays set up.          *)
THEOREM ConstantEnvironment == Spec => EnvironmentIsConstant
<1>1. [Next]_vars =>
        [globalInitalized /\ globalInitalized' => UNCHANGED <<global, freed, curlInits>>]_vars
  BY DEF Next, GlobalInit, GlobalInitFails, GlobalInitAgain, GlobalCleanup, Enter, FormatUrl,
         Transfer, Return
<1> QED
  BY <1>1, PTL DEF Spec, EnvironmentIsConstant
=============================================================================
