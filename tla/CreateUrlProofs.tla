--------------------------- MODULE CreateUrlProofs ---------------------------
(***************************************************************************)
(* What create_url() and its call sites guarantee for every increment, every *)
(* length of URL and every number of failures of curl_easy_init.            *)
(***************************************************************************)
EXTENDS CreateUrl, TLAPS

Least(a, b) == IF a <= b THEN a ELSE b

Returned == pc \in {"returned", "sent"}

(* While the text is being formatted, the buffer holds as much of it as     *)
(* fits beside the NUL.  TextInsideBuffer alone does not say how much was   *)
(* stored, so it does not survive Terminate.                                *)
PrefixStored ==
  /\ pos <= total
  /\ pc \in {"query", "enter"} => stored = 0
  /\ pc \in {"query", "enter", "format"} => nul = NoText
  /\ pc = "query" => pos = 0
  /\ pc = "format" /\ url = "buffer" => stored = Least(pos, cap - 1)

(* What a returned value promises: a count means the whole text, and a      *)
(* failure that curl did not cause means the buffer had no spare byte.      *)
ReturnMeansWhole ==
  /\ Returned /\ ret >= 0 /\ url = "buffer" => nul = total
  /\ Returned /\ ret < 0 /\ curlFails = 0 => cap <= total + 1
  /\ pc = "sent" /\ site = "grow" => ret >= 0

IInv ==
  /\ TypeOK
  /\ QueryInsideBlock
  /\ PrefixStored
  /\ TextInsideBuffer
  /\ ReturnMeansWhole
  /\ GrowthIsTight

USE IncrementAssumption, MaxUrlAssumption, MaxCurlFailsAssumption

(* The length of a filter's text is positive: there is the "=" at least.    *)
LEMMA FilterLengths ==
  ASSUME NEW list \in FilterLists
  PROVE  Len(list) \in Nat /\ \A k \in 1 .. Len(list) : list[k] \in Nat \ {0}
<1>1. PICK n \in 0 .. MaxFilters : list \in [1 .. n -> FilterTexts]
  BY DEF FilterLists
<1>2. Len(list) = n /\ n \in Nat
  BY <1>1, MaxFiltersAssumption
<1> QED
  BY <1>1, <1>2, FilterTextsAssumption

(* What one filter adds to the query string, and to its block.              *)
LEMMA FilterPrinted ==
  ASSUME TypeOK, i < Len(filters)
  PROVE  Printed \in Nat /\ Required = Printed + 1 /\ i + 1 \in 0 .. Len(filters)
<1>1. Len(filters) \in Nat /\ i \in Nat /\ i + 1 \in 1 .. Len(filters)
  BY FilterLengths DEF TypeOK
<1>2. filters[i + 1] \in Nat
  BY <1>1, FilterLengths DEF TypeOK
<1> QED
  BY <1>1, <1>2 DEF Printed, Required

(* The first call starts with an empty buffer of the first size.            *)
LEMMA InitIInv == Init => IInv
<1> SUFFICES ASSUME Init PROVE IInv
  OBVIOUS
<1>1. TypeOK
  BY FilterLengths DEF Init, TypeOK, Sites, FreshBuffer, NoText, FirstQuery
<1>2. QueryInsideBlock
  BY DEF Init, QueryInsideBlock, FirstQuery
<1>3. PrefixStored /\ TextInsideBuffer /\ ReturnMeansWhole /\ GrowthIsTight
  BY DEF Init, PrefixStored, TextInsideBuffer, ReturnMeansWhole, Returned,
         GrowthIsTight, NoText, FreshBuffer
<1> QED
  BY <1>1, <1>2, <1>3 DEF IInv

(* Every step keeps the types: no count goes below zero and no buffer is    *)
(* empty.                                                                   *)
LEMMA NextTypeOK == TypeOK /\ [Next]_vars => TypeOK'
<1> SUFFICES ASSUME TypeOK, [Next]_vars PROVE TypeOK'
  OBVIOUS
<1>a. CASE AppendFilter
  <2>1. Printed \in Nat /\ Required = Printed + 1 /\ i + 1 \in 0 .. Len(filters)
    BY <1>a, FilterPrinted DEF AppendFilter
  <2> QED
    BY <1>a, <2>1 DEF AppendFilter, TypeOK
<1>b. CASE QueryDone
  BY <1>b DEF QueryDone, queryVars, TypeOK
<1> USE DEF TypeOK, queryVars
<1>1. CASE CurlInitFails
  BY <1>1 DEF CurlInitFails
<1>2. CASE CurlInit
  BY <1>2 DEF CurlInit
<1>3. CASE WriteChar
  BY <1>3 DEF WriteChar
<1>4. CASE Terminate
  BY <1>4 DEF Terminate, Fits, NoText
<1>5. CASE Regrow
  BY <1>5 DEF Regrow, FreshBuffer, Sites
<1>6. CASE Send
  BY <1>6 DEF Send
<1>7. CASE NewCall
  BY <1>7, FilterLengths DEF NewCall, FreshBuffer, Sites, FirstQuery
<1>8. CASE UNCHANGED vars
  BY <1>8 DEF vars
<1> QED
  BY <1>a, <1>b, <1>1, <1>2, <1>3, <1>4, <1>5, <1>6, <1>7, <1>8 DEF Next

(* The invariant is inductive: one step for each action of the code.        *)
LEMMA NextIInv == IInv /\ [Next]_vars => IInv'
<1> SUFFICES ASSUME IInv, [Next]_vars PROVE IInv'
  OBVIOUS
<1>0. TypeOK'
  BY NextTypeOK DEF IInv
<1>q. QueryInsideBlock'
  <2>1. CASE AppendFilter
    <3>1. Printed \in Nat /\ Required = Printed + 1
      BY <2>1, FilterPrinted DEF AppendFilter, IInv
    <3>2. query \in Nat /\ query' = query + Printed /\ block' = query + Required
      BY <2>1 DEF AppendFilter, IInv, TypeOK
    <3> QED
      BY <3>1, <3>2 DEF QueryInsideBlock
  <2>2. CASE NewCall
    BY <2>2 DEF NewCall, FirstQuery, QueryInsideBlock
  <2>3. CASE UNCHANGED queryVars
    BY <2>3 DEF queryVars, QueryInsideBlock, IInv
  <2> QED
    BY <2>1, <2>2, <2>3 DEF Next, vars, queryVars, QueryDone, CurlInitFails, CurlInit, WriteChar,
         Terminate, Regrow, Send
<1>a. CASE AppendFilter
  BY <1>0, <1>q, <1>a DEF AppendFilter, IInv, PrefixStored, TextInsideBuffer, ReturnMeansWhole,
       Returned, GrowthIsTight
<1>b. CASE QueryDone
  <2>1. /\ pc = "query" /\ pc' = "enter" /\ total' = total + query
        /\ UNCHANGED <<site, url, cap, pos, stored, nul, ret, curlFails>>
    BY <1>b DEF QueryDone
  <2>0. /\ total \in Nat /\ query \in Nat /\ cap \in Nat /\ pos = 0 /\ stored = 0 /\ nul = NoText
        /\ curlFails = 0 => cap <= total + 1 + Increment
    BY <1>b DEF QueryDone, IInv, TypeOK, PrefixStored, GrowthIsTight
  <2>2. /\ total \in Nat /\ query \in Nat /\ cap \in Nat /\ pos = 0 /\ stored = 0 /\ nul = NoText
        /\ curlFails = 0 => cap <= total + query + 1 + Increment
    <3>1. ASSUME NEW t \in Nat, NEW q \in Nat, cap <= t + 1 + Increment
          PROVE  cap <= t + q + 1 + Increment
      BY <2>0, <3>1
    <3> QED
      BY <2>0, <3>1
  <2>3. PrefixStored' /\ ReturnMeansWhole' /\ GrowthIsTight'
    BY <2>1, <2>2 DEF PrefixStored, ReturnMeansWhole, Returned, GrowthIsTight
  <2>4. TextInsideBuffer'
    BY <2>1 DEF IInv, TextInsideBuffer
  <2> QED
    BY <1>0, <1>q, <2>3, <2>4 DEF IInv
<1> USE DEF IInv, TypeOK, PrefixStored, TextInsideBuffer, ReturnMeansWhole, Returned,
            GrowthIsTight, Least, NoText
<1>1. CASE CurlInitFails
  BY <1>0, <1>q, <1>1 DEF CurlInitFails
<1>2. CASE CurlInit
  BY <1>0, <1>q, <1>2 DEF CurlInit
<1>3. CASE WriteChar
  BY <1>0, <1>q, <1>3 DEF WriteChar, HasRoom
<1>4. CASE Terminate
  <2>1. PrefixStored' /\ GrowthIsTight'
    BY <1>4 DEF Terminate
  <2>2. TextInsideBuffer'
    BY <1>4 DEF Terminate, Fits
  <2>3. ReturnMeansWhole'
    BY <1>4 DEF Terminate, Fits
  <2> QED
    BY <1>0, <1>q, <2>1, <2>2, <2>3
<1>5. CASE Regrow
  <2>1. cap' = cap + Increment /\ UNCHANGED <<total, curlFails>>
    BY <1>5 DEF Regrow
  <2>2. curlFails = 0 => cap <= total + 1
    BY <1>5 DEF Regrow
  <2>3. GrowthIsTight'
    BY <2>1, <2>2
  <2> QED
    BY <1>0, <1>q, <1>5, <2>1, <2>3 DEF Regrow
<1>6. CASE Send
  BY <1>0, <1>q, <1>6 DEF Send
<1>7. CASE NewCall
  <2>1. /\ pc' = "query" /\ cap' = Increment /\ pos' = 0 /\ stored' = 0
        /\ nul' = NoText /\ curlFails' = 0 /\ total' \in Nat
    BY <1>7 DEF NewCall
  <2>2. Increment \in Nat /\ Increment >= 1
    OBVIOUS
  <2>3. PrefixStored'
    BY <2>1
  <2>4. TextInsideBuffer'
    BY <2>1, <2>2
  <2>5. ReturnMeansWhole'
    BY <2>1
  <2>6. GrowthIsTight'
    <3>1. ASSUME NEW t \in Nat PROVE Increment <= t + 1 + Increment
      BY <2>2
    <3> QED
      BY <2>1, <3>1
  <2> QED
    BY <1>0, <1>q, <2>3, <2>4, <2>5, <2>6
<1>8. CASE UNCHANGED vars
  BY <1>0, <1>q, <1>8 DEF vars
<1> QED
  BY <1>a, <1>b, <1>1, <1>2, <1>3, <1>4, <1>5, <1>6, <1>7, <1>8 DEF Next

(* The inductive invariant holds in every reachable state.                  *)
THEOREM Inductive == Spec => []IInv
  BY InitIInv, NextIInv, PTL DEF Spec

(* Every variable of create_url and of its callers keeps its type.          *)
THEOREM TypeCorrect == Spec => []TypeOK
<1>1. IInv => TypeOK
  BY DEF IInv
<1> QED
  BY <1>1, Inductive, PTL

(* The query string never outgrows its block, for filters of any number and  *)
(* length.                                                                  *)
THEOREM QueryFits == Spec => []QueryInsideBlock
<1>1. IInv => QueryInsideBlock
  BY DEF IInv
<1> QED
  BY <1>1, Inductive, PTL

(* No URL, however long, is stored or terminated outside its buffer.        *)
THEOREM NoOverrun == Spec => []TextInsideBuffer
<1>1. IInv => TextInsideBuffer
  BY DEF IInv
<1> QED
  BY <1>1, Inductive, PTL

(* gaus_check_for_updates never sends a truncated URL.                      *)
THEOREM GrownUrl == Spec => []GrownUrlIsWhole
<1>1. IInv => GrownUrlIsWhole
  BY DEF IInv, ReturnMeansWhole, Returned, GrownUrlIsWhole
<1> QED
  BY <1>1, Inductive, PTL

(* A URL that leaves a spare byte beside its NUL is sent whole by every call *)
(* site, as long as curl_easy_init works.                                   *)
THEOREM ShortUrl == Spec => []ShortUrlIsWhole
<1>1. IInv => ShortUrlIsWhole
  BY DEF IInv, TypeOK, ReturnMeansWhole, Returned, ShortUrlIsWhole
<1> QED
  BY <1>1, Inductive, PTL

(* The retry loop stops at the first size that is large enough.             *)
THEOREM TightGrowth == Spec => []GrowthIsTight
<1>1. IInv => GrowthIsTight
  BY DEF IInv
<1> QED
  BY <1>1, Inductive, PTL

-----------------------------------------------------------------------------
(***************************************************************************)
(* The retry loop enlarges the buffer for any failure of create_url, also    *)
(* one that size has no part in: each failure of curl_easy_init costs one    *)
(* increment more than the URL needs, and nothing else does.                *)
(***************************************************************************)
GrowthPerFailure ==
  cap <= total + 1 + Increment + curlFails * Increment

(* After a failure the next increment is accounted for already.             *)
GrowthInv ==
  /\ GrowthPerFailure
  /\ pc = "returned" /\ ret < 0 => cap <= total + 1 + curlFails * Increment
  /\ curlFails <= MaxCurlFails

(* Filters not appended yet; and steps to the request once the query string  *)
(* is there, at most: those of one attempt for each character that the       *)
(* buffer can still grow by, and those of the attempt at hand.              *)
FiltersLeft == Len(filters) - i

Room == total + 1 + Increment + MaxCurlFails * Increment - cap

StepsOfAttempt ==
  CASE pc = "enter" -> total + 3
    [] pc = "format" -> total - pos + 2
    [] pc = "returned" -> 1
    [] OTHER -> 0

StepsToSend == Room * (total + 3) + StepsOfAttempt

(***************************************************************************)
(* No step of a call is wasted: each one appends a filter or brings the       *)
(* request nearer, through every retry of gaus_check_for_updates and every   *)
(* failure of curl_easy_init.                                               *)
(***************************************************************************)
FormattingIsBounded ==
  [][/\ pc = "query" => pc' = "enter" \/ FiltersLeft' < FiltersLeft
     /\ pc \in {"enter", "format", "returned"} => StepsToSend' < StepsToSend]_vars

LEMMA Multiples ==
  ASSUME NEW w \in Nat
  PROVE  /\ \A n \in Int : (n + 1) * w = n * w + w
         /\ \A n, m \in Nat : n <= m => n * w \in Nat /\ m * w \in Nat /\ n * w <= m * w
<1>1. \A n \in Int : (n + 1) * w = n * w + w
  OBVIOUS
<1>2. ASSUME NEW n \in Nat, NEW m \in Nat, n <= m
      PROVE  n * w \in Nat /\ m * w \in Nat /\ n * w <= m * w
  <2>1. (m - n) * w = m * w - n * w
    OBVIOUS
  <2>2. n * w \in Nat /\ m * w \in Nat /\ (m - n) * w \in Nat
    BY <1>2
  <2> QED
    BY <2>1, <2>2
<1> QED
  BY <1>1, <1>2

LEMMA AddBoth ==
  ASSUME NEW r \in Int, NEW a \in Int, NEW b \in Int, a < b
  PROVE  r + a < r + b
OBVIOUS

LEMMA InitGrowth == Init => GrowthInv
<1> SUFFICES ASSUME Init PROVE GrowthInv
  OBVIOUS
<1>1. /\ cap = Increment /\ total \in Nat /\ curlFails = 0 /\ pc = "query"
      /\ 0 * Increment = 0 /\ Increment \in Nat /\ MaxCurlFails \in Nat
  BY DEF Init
<1>2. cap <= total + 1 + Increment + 0
  BY <1>1
<1> QED
  BY <1>1, <1>2 DEF GrowthInv, GrowthPerFailure

LEMMA NextGrowth == IInv /\ GrowthInv /\ [Next]_vars => GrowthInv'
<1> SUFFICES ASSUME IInv, GrowthInv, [Next]_vars PROVE GrowthInv'
  OBVIOUS
<1>0. /\ total \in Nat /\ cap \in Nat /\ curlFails \in Nat /\ query \in Nat
      /\ Increment \in Nat /\ curlFails <= MaxCurlFails
  BY DEF IInv, TypeOK, GrowthInv
<1> DEFINE charged == curlFails * Increment
<1>1. /\ charged \in Nat /\ (curlFails + 1) * Increment = charged + Increment
      /\ cap <= total + 1 + Increment + charged
      /\ pc = "returned" /\ ret < 0 => cap <= total + 1 + charged
  BY <1>0, Multiples DEF GrowthInv, GrowthPerFailure
<1>2. CASE CurlInitFails
  <2>1. /\ pc' = "returned" /\ cap' = cap /\ total' = total
        /\ curlFails' = curlFails + 1 /\ curlFails' <= MaxCurlFails
    BY <1>0, <1>2 DEF CurlInitFails
  <2>2. curlFails' * Increment = charged + Increment
    BY <1>1, <2>1
  <2> HIDE DEF charged
  <2> QED
    BY <1>0, <1>1, <2>1, <2>2 DEF GrowthInv, GrowthPerFailure
<1>3. CASE Regrow
  <2>1. /\ pc' = "enter" /\ cap' = cap + Increment /\ total' = total
        /\ curlFails' = curlFails /\ cap <= total + 1 + charged
    BY <1>1, <1>3 DEF Regrow
  <2>2. curlFails' * Increment = charged
    BY <2>1
  <2> HIDE DEF charged
  <2> QED
    BY <1>0, <1>1, <2>1, <2>2 DEF GrowthInv, GrowthPerFailure
<1>4. CASE Terminate
  <2>1. /\ pc = "format" /\ pos = total /\ cap' = cap /\ total' = total
        /\ curlFails' = curlFails
        /\ ret' = IF url = "null" \/ Fits THEN pos ELSE -1
    BY <1>4 DEF Terminate
  <2>2. ret' < 0 => cap <= total + 1
    BY <1>0, <2>1 DEF Fits
  <2>3. curlFails' * Increment = charged
    BY <2>1
  <2> HIDE DEF charged
  <2> QED
    BY <1>0, <1>1, <2>1, <2>2, <2>3 DEF GrowthInv, GrowthPerFailure
<1>5. CASE QueryDone
  <2>1. /\ pc' = "enter" /\ cap' = cap /\ total' = total + query /\ curlFails' = curlFails
    BY <1>5 DEF QueryDone
  <2>2. curlFails' * Increment = charged
    BY <2>1
  <2> HIDE DEF charged
  <2> QED
    BY <1>0, <1>1, <2>1, <2>2 DEF GrowthInv, GrowthPerFailure
<1>6. CASE NewCall
  <2>1. /\ pc' = "query" /\ cap' = Increment /\ total' \in Nat /\ curlFails' = 0
        /\ 0 * Increment = 0
    BY <1>6 DEF NewCall
  <2>2. ASSUME NEW t \in Nat PROVE Increment <= t + 1 + Increment + 0
    BY <1>0
  <2>3. curlFails' * Increment = 0 /\ curlFails' <= MaxCurlFails
    BY <1>0, <2>1
  <2> QED
    BY <2>1, <2>2, <2>3 DEF GrowthInv, GrowthPerFailure
<1>7. CASE AppendFilter \/ CurlInit \/ WriteChar \/ Send \/ UNCHANGED vars
  <2>1. /\ UNCHANGED <<cap, total, curlFails, ret>>
        /\ pc' = "returned" => pc = "returned"
    BY <1>7 DEF AppendFilter, CurlInit, WriteChar, Send, vars
  <2> QED
    BY <2>1 DEF GrowthInv, GrowthPerFailure
<1> QED
  BY <1>2, <1>3, <1>4, <1>5, <1>6, <1>7 DEF Next

(***************************************************************************)
(* The buffer is never larger than the URL and the failures of curl account  *)
(* for, for every number of those.                                          *)
(***************************************************************************)
THEOREM ChargedGrowth == Spec => []GrowthPerFailure
<1>1. GrowthInv => GrowthPerFailure
  BY DEF GrowthInv
<1> QED
  BY <1>1, Inductive, InitGrowth, NextGrowth, PTL DEF Spec

LEMMA MeasuresInRange ==
  ASSUME IInv, GrowthInv
  PROVE  /\ FiltersLeft \in Nat
         /\ Room \in Nat /\ StepsOfAttempt \in Nat /\ StepsToSend \in Nat
<1>0. /\ total \in Nat /\ cap \in Nat /\ curlFails \in Nat /\ pos \in Nat /\ pos <= total
      /\ Increment \in Nat /\ curlFails <= MaxCurlFails /\ MaxCurlFails \in Nat
  BY DEF IInv, TypeOK, PrefixStored, GrowthInv
<1>1. FiltersLeft \in Nat
  BY FilterLengths DEF IInv, TypeOK, FiltersLeft
<1>2. Room \in Nat
  <2> DEFINE charged == curlFails * Increment
             chargeable == MaxCurlFails * Increment
  <2>1. charged \in Nat /\ chargeable \in Nat /\ charged <= chargeable
    BY <1>0, Multiples
  <2>2. cap <= total + 1 + Increment + charged
    BY DEF GrowthInv, GrowthPerFailure
  <2>3. Room = total + 1 + Increment + chargeable - cap
    BY DEF Room
  <2> HIDE DEF charged, chargeable
  <2> QED
    BY <1>0, <2>1, <2>2, <2>3
<1>3. StepsOfAttempt \in Nat
  BY <1>0 DEF StepsOfAttempt
<1>4. total + 3 \in Nat
  BY <1>0
<1> DEFINE w == total + 3
<1>5. Room * w \in Nat
  <2> HIDE DEF w
  <2> QED
    BY <1>2, <1>4, Multiples DEF w
<1> QED
  BY <1>1, <1>2, <1>3, <1>5 DEF StepsToSend

LEMMA FewerSteps ==
  ASSUME IInv, GrowthInv, Next
  PROVE  /\ pc = "query" => pc' = "enter" \/ FiltersLeft' < FiltersLeft
         /\ pc \in {"enter", "format", "returned"} => StepsToSend' < StepsToSend
<1>0. /\ total \in Nat /\ pos \in Nat /\ pos <= total /\ cap \in Nat /\ Increment \in Nat
      /\ Increment >= 1 /\ MaxCurlFails * Increment \in Nat
  BY Multiples DEF IInv, TypeOK, PrefixStored
<1>1. Room \in Nat /\ StepsOfAttempt \in Nat
  BY MeasuresInRange
<1>2. ASSUME pc = "query" PROVE pc' = "enter" \/ FiltersLeft' < FiltersLeft
  <2>1. CASE AppendFilter
    <3>1. i' = i + 1 /\ filters' = filters /\ i \in Int /\ Len(filters) \in Nat
      BY <2>1, FilterLengths DEF AppendFilter, IInv, TypeOK
    <3> QED
      BY <3>1 DEF FiltersLeft
  <2>2. CASE QueryDone
    BY <2>2 DEF QueryDone
  <2> QED
    BY <1>2, <2>1, <2>2 DEF Next, CurlInitFails, CurlInit, WriteChar, Terminate, Regrow, Send,
       NewCall
<1>3. ASSUME pc \in {"enter", "format", "returned"} PROVE StepsToSend' < StepsToSend
  <2>1. CASE Regrow
    <3>1. /\ pc = "returned" /\ pc' = "enter" /\ total' = total /\ cap' = cap + Increment
      BY <2>1 DEF Regrow
    <3>2. Room' = Room - Increment
      <4> DEFINE most == MaxCurlFails * Increment
      <4>1. /\ Room = total + 1 + Increment + most - cap
            /\ Room' = total' + 1 + Increment + most - cap'
        BY DEF Room
      <4> HIDE DEF most
      <4>2. most \in Nat
        BY <1>0 DEF most
      <4> QED
        BY <1>0, <3>1, <4>1, <4>2
    <3>3. StepsOfAttempt = 1 /\ StepsOfAttempt' = total + 3
      BY <3>1 DEF StepsOfAttempt
    <3> DEFINE w == total + 3
               n == Room - Increment
    <3>4. w \in Nat /\ n \in Nat /\ n + 1 \in Nat /\ n + 1 <= Room
      <4> DEFINE charged == curlFails * Increment
                 most == MaxCurlFails * Increment
      <4>1. charged \in Nat /\ most \in Nat /\ charged <= most
        BY <1>0, Multiples DEF IInv, TypeOK, GrowthInv
      <4>2. cap <= total + 1 + charged
        BY <2>1 DEF Regrow, GrowthInv
      <4>3. Room = total + 1 + Increment + most - cap
        BY DEF Room
      <4> HIDE DEF charged, most
      <4>4. Room - Increment \in Nat
        BY <1>0, <4>1, <4>2, <4>3
      <4> QED
        BY <1>0, <1>1, <4>4
    <3>5. StepsToSend' = n * w + w /\ StepsToSend = Room * w + 1
      BY <3>1, <3>2, <3>3 DEF StepsToSend
    <3> HIDE DEF w, n
    <3>6. n * w + w = (n + 1) * w /\ (n + 1) * w \in Nat /\ Room * w \in Nat
          /\ (n + 1) * w <= Room * w
      BY <1>1, <3>4, Multiples
    <3> QED
      BY <3>5, <3>6
  <2>2. CASE CurlInit \/ CurlInitFails \/ WriteChar \/ Terminate \/ Send
    <3>1. UNCHANGED <<total, cap>>
      BY <2>2 DEF CurlInit, CurlInitFails, WriteChar, Terminate, Send
    <3>2. /\ StepsOfAttempt \in Int /\ StepsOfAttempt' \in Int
          /\ StepsOfAttempt' < StepsOfAttempt
      <4>1. CASE CurlInit
        BY <1>0, <4>1 DEF CurlInit, StepsOfAttempt
      <4>2. CASE CurlInitFails
        BY <1>0, <4>2 DEF CurlInitFails, StepsOfAttempt
      <4>3. CASE WriteChar
        BY <1>0, <4>3 DEF WriteChar, StepsOfAttempt
      <4>4. CASE Terminate
        BY <1>0, <4>4 DEF Terminate, StepsOfAttempt
      <4>5. CASE Send
        BY <1>0, <4>5 DEF Send, StepsOfAttempt
      <4> QED
        BY <2>2, <4>1, <4>2, <4>3, <4>4, <4>5
    <3>3. Room' * (total' + 3) = Room * (total + 3) /\ Room * (total + 3) \in Int
      BY <1>0, <1>1, <3>1 DEF Room
    <3> QED
      BY <3>2, <3>3, AddBoth DEF StepsToSend
  <2> QED
    BY <1>3, <2>1, <2>2 DEF Next, AppendFilter, QueryDone, NewCall
<1> QED
  BY <1>2, <1>3

(***************************************************************************)
(* Formatting ends, for every URL and every list of filters, after a number   *)
(* of steps that the length of the URL and the failures of curl determine.   *)
(***************************************************************************)
THEOREM Bounded ==
  Spec => [](FiltersLeft \in Nat /\ StepsToSend \in Nat) /\ FormattingIsBounded
<1>1. IInv /\ GrowthInv => FiltersLeft \in Nat /\ StepsToSend \in Nat
  BY MeasuresInRange
<1>2. IInv /\ GrowthInv /\ [Next]_vars =>
        [/\ pc = "query" => pc' = "enter" \/ FiltersLeft' < FiltersLeft
         /\ pc \in {"enter", "format", "returned"} => StepsToSend' < StepsToSend]_vars
  BY FewerSteps
<1> QED
  BY <1>1, <1>2, Inductive, InitGrowth, NextGrowth, PTL DEF Spec, FormattingIsBounded
=============================================================================
