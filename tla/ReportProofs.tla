----------------------------- MODULE ReportProofs -----------------------------
(***************************************************************************)
(* What gaus_report guarantees for any number of reports and of values: who  *)
(* holds each JSON object, what is sent, and what its result says.          *)
(***************************************************************************)
EXTENDS Report, SequenceTheorems, TLAPS

Encoding == {"fields", "list", "value", "release", "append"}
ListNames(kind) == {ListsOf[kind][l] : l \in DOMAIN ListsOf[kind]}

(* How many reports are in the array.                                       *)
CountByStage ==
  /\ pc = "guards" => array = <<>> /\ Len(kinds) > 0
  /\ pc \in Encoding => Len(array) < Len(kinds) /\ Kind \in DOMAIN ListsOf
  /\ pc \in {"requested", "unsent", "answered"} => Len(array) = Len(kinds)

(* What the call is going to return, and why.                               *)
ErrorByStage ==
  /\ NoErrorSwallowed
  /\ pc \in {"guards", "report", "fields", "list", "append"} => error = NoError
  /\ pc \in {"value", "requested", "unsent", "answered"} => error \in {NoError, Unknown}
  /\ pc = "release" => error = Unknown
  /\ pc \in {"requested", "unsent"} => status = 200 /\ body = Exch!NoBody
  /\ pc = "answered" =>
       /\ status # 200 => status = answer.code
       /\ body # Exch!NoBody => answer.code = 200
  /\ pc = "exit" => error \in IF AllAppended THEN Contract!Outcomes ELSE Contract!Refusals
  /\ pc \in {"exit", "returned"} /\ error = NoError => answer.code = 200 /\ AllAppended

(* The lists of the report at hand that have been dealt with are attached to *)
(* it, unless the caller has given none.                                    *)
ListsByStage ==
  /\ pc = "fields" => k = 1 /\ attached = {}
  /\ pc \in Encoding =>
       /\ k \in 1 .. Len(ListsOf[Kind]) + 1
       /\ attached \subseteq {ListsOf[Kind][j] : j \in 1 .. k - 1}
       /\ \A j \in 1 .. k - 1 : ListsOf[Kind][j] \in wanted => ListsOf[Kind][j] \in attached
  /\ pc = "value" =>
       /\ k <= Len(ListsOf[Kind])
       /\ values = <<>> <=> ListAtHand \notin wanted
       /\ error = NoError /\ refs[ListAtHand] = 0 => at = 1
  /\ pc = "append" => k = Len(ListsOf[Kind]) + 1

(* Who holds which object.  An attached list is held by the report, and by   *)
(* its encoder until that ends.                                             *)
RefsOutside ==
  /\ pc \in {"idle", "guards"} => \A o \in Objects : refs[o] = 0
  /\ pc = "report" => \A o \in Objects : refs[o] = IF o \in {"header", "array"} THEN 1 ELSE 0
  /\ pc \in Encoding => \A o \in Objects \ Lists : refs[o] = IF o = "to_send" THEN 0 ELSE 1

RefsOfLists ==
  /\ pc = "fields" => \A l \in Lists : refs[l] = 0
  /\ pc \in {"list", "value", "release"} => \A l \in Lists :
       /\ l \in attached => refs[l] = 2
       /\ l \notin attached => refs[l] <= 1
       /\ l \notin attached /\ (pc = "value" => l # ListAtHand) /\ pc # "release" => refs[l] = 0
  /\ pc = "append" => \A l \in Lists : refs[l] = IF l \in attached THEN 1 ELSE 0

Leftover ==
  /\ \A o \in Objects : refs[o] <= 1
  /\ \A l \in Lists : refs[l] > 0 => l \in attached /\ refs["report"] = 1

RefsAtEnd ==
  /\ pc \in {"requested", "unsent", "answered"} => \A o \in Lists \cup {"report"} : refs[o] = 0
  /\ pc \in {"requested", "unsent", "crashed", "answered", "exit"} =>
       /\ refs["to_send"] > 0 =>
            \A o \in Objects : refs[o] = IF o \in {"to_send", "header", "array"} THEN 1 ELSE 0
       /\ error = NoError => refs["to_send"] > 0
  /\ pc \in {"requested", "unsent", "answered", "exit", "returned"} => Leftover
  /\ pc = "returned" =>
       refs["to_send"] = 0 /\ (error = NoError => \A o \in Objects : refs[o] = 0)

(* What is in the array is what the caller gave, as far as it is encoded.    *)
ArrayContents ==
  \A j \in DOMAIN array :
    /\ DOMAIN array[j].sent = ListNames(kinds[j]) \cap array[j].wanted
    /\ \A l \in DOMAIN array[j].sent : array[j].sent[l] = l

IInv ==
  /\ TypeOK
  /\ CountByStage
  /\ ErrorByStage
  /\ ListsByStage
  /\ RefsOutside /\ RefsOfLists /\ RefsAtEnd
  /\ ArrayContents
  /\ FirstValueWins
USE CodesAssumption, MaxBodyAssumption, MaxReportsAssumption, MaxValuesAssumption

-----------------------------------------------------------------------------
(* The lists of the two types that are encoded.                             *)
LEMMA ListsOfKinds ==
  ASSUME NEW kind \in DOMAIN ListsOf
  PROVE  /\ kind \in {"update", "generic"} /\ kind \in Kinds
         /\ Len(ListsOf[kind]) \in 1 .. 3
         /\ DOMAIN ListsOf[kind] = 1 .. Len(ListsOf[kind])
         /\ \A j \in 1 .. Len(ListsOf[kind]) : ListsOf[kind][j] \in Lists
         /\ \A j, m \in 1 .. Len(ListsOf[kind]) : ListsOf[kind][j] = ListsOf[kind][m] => j = m
<1>1. kind \in {"update", "generic"}
  BY DEF ListsOf
<1>2. CASE kind = "update"
  <2>1. ListsOf[kind] = <<"v_strings">>
    BY <1>2 DEF ListsOf
  <2> QED
    BY <1>2, <2>1 DEF Kinds, LayoutOf, Lists
<1>3. CASE kind = "generic"
  <2>1. ListsOf[kind] = <<"v_ints", "v_floats", "v_strings">>
    BY <1>3 DEF ListsOf
  <2>2. \A j \in 1 .. 3 : j \in {1, 2, 3}
    OBVIOUS
  <2> QED
    BY <1>3, <2>1, <2>2 DEF Kinds, LayoutOf, Lists
<1> QED
  BY <1>1, <1>2, <1>3

(* The structs of these two types have every list in the same place.        *)
LEMMA FoundInPlace ==
  ASSUME Kind \in DOMAIN ListsOf, NEW l \in Lists
  PROVE  Found(l) = l
<1>1. /\ DOMAIN UpdateLayout = 1 .. 6
      /\ UpdateLayout[1] = "type" /\ UpdateLayout[2] = "ts" /\ UpdateLayout[3] = "v_ints"
      /\ UpdateLayout[4] = "v_floats" /\ UpdateLayout[5] = "v_strings"
      /\ UpdateLayout[6] = "tags"
  BY DEF UpdateLayout
<1>2. \A place \in 1 .. 6 : place \in {1, 2, 3, 4, 5, 6}
  OBVIOUS
<1>3. \E place \in DOMAIN UpdateLayout : UpdateLayout[place] = l
  BY <1>1 DEF Lists
<1> DEFINE there == CHOOSE place \in DOMAIN UpdateLayout : UpdateLayout[place] = l
<1>4. UpdateLayout[there] = l
  BY <1>3
<1>5. LayoutOf[Kind] = UpdateLayout
  BY ListsOfKinds DEF LayoutOf, GenericLayout, UpdateLayout
<1> QED
  BY <1>4, <1>5 DEF Found

(* A list of values, as a sequence.                                         *)
LEMMA ValuesAreLists ==
  ASSUME NEW v \in Values \cup {<<>>}
  PROVE  /\ v \in Seq(Names \cup {Unencodable})
         /\ Len(v) \in 0 .. MaxValues
         /\ v = <<>> <=> Len(v) = 0
<1>1. CASE v = <<>>
  BY <1>1
<1>2. CASE v # <<>>
  <2>1. PICK n \in 1 .. MaxValues : v \in [1 .. n -> Names \cup {Unencodable}]
    BY <1>2 DEF Values
  <2>2. v \in Seq(Names \cup {Unencodable}) /\ Len(v) = n
    BY <2>1
  <2> QED
    BY <1>2, <2>1, <2>2
<1> QED
  BY <1>1, <1>2

LEMMA ValuesNotEmpty == <<>> \notin Values
<1> SUFFICES ASSUME <<>> \in Values PROVE FALSE
  OBVIOUS
<1>1. PICK n \in 1 .. MaxValues : <<>> \in [1 .. n -> Names \cup {Unencodable}]
  BY DEF Values
<1>2. 1 \in DOMAIN <<>>
  BY <1>1
<1> QED
  BY <1>2

(* The list at hand.                                                        *)
LEMMA AtHand ==
  ASSUME IInv, pc \in Encoding
  PROVE  /\ Kind \in DOMAIN ListsOf
         /\ Len(ListsOf[Kind]) \in 1 .. 3
         /\ k \in 1 .. Len(ListsOf[Kind]) + 1
         /\ k <= Len(ListsOf[Kind]) => ListAtHand \in Lists
         /\ \A j \in 1 .. Len(ListsOf[Kind]) : ListsOf[Kind][j] \in Lists
<1>1. Kind \in DOMAIN ListsOf /\ k \in 1 .. Len(ListsOf[Kind]) + 1
  BY DEF IInv, CountByStage, ListsByStage
<1> QED
  BY <1>1, ListsOfKinds DEF ListAtHand
-----------------------------------------------------------------------------
(* Types.  What a step does not mention it leaves as it is.                  *)

LEMMA InitIInv == Init => IInv
<1> SUFFICES ASSUME Init PROVE IInv
  OBVIOUS
<1>1. TypeOK
  <2>1. kinds \in Seq(Kinds) /\ Len(array) <= Len(kinds) /\ array \in Seq(Contents)
    BY DEF Init
  <2>2. DOMAIN object \subseteq Names /\ \A n \in DOMAIN object : object[n] \in 1 .. MaxValues
    BY DEF Init
  <2>3. /\ phase \in {"idle", "calling", "returned"} /\ answer \in Exch!Answers
        /\ status \in Codes /\ body \in Nat \cup {Exch!NoBody}
    BY DEF Init, Exch!Init, Exch!Preset, Exch!OK
  <2>4. error \in Errors /\ failed \in BOOLEAN
    BY DEF Init, NoError, Errors
  <2>5. refs \in [Objects -> Nat] /\ wanted \subseteq Attributes /\ attached \subseteq Lists
    BY DEF Init
  <2>6. values \in Values \cup {<<>>} /\ at \in 1 .. MaxValues + 1 /\ k \in 1 .. 4
    BY DEF Init
  <2>7. pc = "idle" /\ args \in [initialized : BOOLEAN, valid : BOOLEAN]
    BY DEF Init
  <2> QED
    BY <2>1, <2>2, <2>3, <2>4, <2>5, <2>6, <2>7 DEF TypeOK
<1>2. CountByStage /\ ErrorByStage /\ ListsByStage
  BY DEF Init, CountByStage, ErrorByStage, ListsByStage, NoErrorSwallowed, Encoding
<1>3. RefsOutside /\ RefsOfLists /\ RefsAtEnd
  BY DEF Init, RefsOutside, RefsOfLists, RefsAtEnd, Encoding
<1>4. ArrayContents /\ FirstValueWins
  BY DEF Init, ArrayContents, FirstValueWins
<1> QED
  BY <1>1, <1>2, <1>3, <1>4 DEF IInv

(* A report of the caller's goes into the array under its own names.         *)
LEMMA SentIsTyped ==
  ASSUME IInv, pc \in Encoding
  PROVE  /\ Sent \in UNION {[S -> Attributes] : S \in SUBSET Lists}
         /\ DOMAIN Sent = attached \cap wanted
         /\ \A l \in DOMAIN Sent : Sent[l] = l
<1>1. attached \subseteq Lists /\ wanted \subseteq Attributes
  BY DEF IInv, TypeOK
<1>2. \A l \in attached : Found(l) = l
  BY <1>1, AtHand, FoundInPlace
<1>3. DOMAIN Sent = attached \cap wanted /\ \A l \in DOMAIN Sent : Sent[l] = l
  BY <1>2 DEF Sent
<1>4. Sent \in [attached \cap wanted -> Attributes]
  BY <1>1, <1>2 DEF Sent
<1> QED
  BY <1>1, <1>3, <1>4

LEMMA ErrorTyped ==
  ASSUME IInv,
         error' \in {error, Unknown, [type |-> "NO_INIT_ERROR", code |-> 500],
                    [type |-> "HTTP_ERROR", code |-> status]},
         failed' \in {failed, TRUE}
  PROVE  error' \in Errors /\ failed' \in BOOLEAN
<1>1. error \in Errors /\ failed \in BOOLEAN /\ status \in Nat
  BY DEF IInv, TypeOK
<1>2. /\ Unknown \in Errors
      /\ [type |-> "NO_INIT_ERROR", code |-> 500] \in Errors
      /\ [type |-> "HTTP_ERROR", code |-> status] \in Errors
  BY <1>1 DEF Unknown, Errors
<1>3. error' \in Errors
  <2>1. CASE error' = error
    BY <1>1, <2>1
  <2>2. CASE error' = Unknown
    BY <1>2, <2>2
  <2>3. CASE error' \in {[type |-> "NO_INIT_ERROR", code |-> 500],
                        [type |-> "HTTP_ERROR", code |-> status]}
    BY <1>2, <2>3
  <2> QED
    BY <2>1, <2>2, <2>3
<1>4. failed' \in BOOLEAN
  BY <1>1
<1> QED
  BY <1>3, <1>4

LEMMA TypeStep ==
  ASSUME IInv, [Next]_vars
  PROVE  TypeOK'
<1>1. TypeOK
  BY DEF IInv
<1>2. /\ Unknown \in Errors /\ NoError \in Errors /\ status \in Nat
      /\ [type |-> "NO_INIT_ERROR", code |-> 500] \in Errors
  BY <1>1 DEF Unknown, NoError, TypeOK, Errors
<1>3. CASE Enter
  <2>1. kinds' \in Seq(Kinds) /\ Len(array') <= Len(kinds') /\ array' \in Seq(Contents)
    <3>1. PICK n \in 1 .. MaxReports : kinds' \in [1 .. n -> Kinds]
      BY <1>3 DEF Enter
    <3>2. kinds' \in Seq(Kinds) /\ Len(kinds') = n
      BY <3>1
    <3> QED
      BY <1>3, <3>1, <3>2 DEF Enter
  <2>2. /\ refs' \in [Objects -> Nat] /\ values' \in Values \cup {<<>>}
        /\ DOMAIN object' \subseteq Names
        /\ \A n \in DOMAIN object' : object'[n] \in 1 .. MaxValues
    BY <1>3 DEF Enter, NoList
  <2>3. /\ pc' = "guards" /\ args' \in [initialized : BOOLEAN, valid : BOOLEAN]
        /\ wanted' = {} /\ k' = 1 /\ attached' = {} /\ at' = 1
        /\ error' = NoError /\ failed' = FALSE
        /\ UNCHANGED <<phase, answer, status, body>>
    BY <1>3 DEF Enter, NoList, exchange
  <2>4. /\ error' \in Errors /\ failed' \in BOOLEAN /\ wanted' \subseteq Attributes
        /\ attached' \subseteq Lists
    BY <1>2, <2>3, Zenon
  <2>7. k' \in 1 .. 4 /\ at' \in 1 .. MaxValues + 1
    BY <2>3
  <2>5. /\ phase' \in {"idle", "calling", "returned"} /\ answer' \in Exch!Answers
        /\ status' \in Codes /\ body' \in Nat \cup {Exch!NoBody}
    BY <1>1, <2>3 DEF TypeOK
  <2>6. pc' = "guards" /\ args' \in [initialized : BOOLEAN, valid : BOOLEAN]
    BY <2>3
  <2> QED
    BY <2>1, <2>2, <2>4, <2>5, <2>6, <2>7 DEF TypeOK
<1>4. CASE Refused \/ Unsupported \/ SetFields
  <2>1. error' \in Errors /\ failed' \in BOOLEAN
    <3>1. /\ error' \in {error, Unknown, [type |-> "NO_INIT_ERROR", code |-> 500]}
          /\ failed' \in {failed, TRUE}
      BY <1>4 DEF Refused, Unsupported, SetFields, Fail, Continue
    <3> QED
      BY <3>1, ErrorTyped
  <2>2. /\ pc' \in {"exit", "list", "release"}
        /\ UNCHANGED <<args, kinds, phase, answer, status, body, refs, array, wanted, k, attached,
                       values, object, at>>
    BY <1>4 DEF Refused, Unsupported, SetFields, Fail, Continue, call, exchange, report, list
  <2> QED
    BY <1>1, <2>1, <2>2 DEF TypeOK
<1>5. CASE Prepare
  <2>1. refs' \in [Objects -> Nat]
    BY <1>5 DEF Prepare
  <2>2. error' \in Errors /\ failed' \in BOOLEAN
    <3>1. /\ error' \in {error, Unknown, [type |-> "NO_INIT_ERROR", code |-> 500]}
          /\ failed' \in {failed, TRUE}
      BY <1>5 DEF Prepare, Fail, Continue
    <3> QED
      BY <3>1, ErrorTyped
  <2>3. /\ pc' \in {"exit", "report"}
        /\ UNCHANGED <<args, kinds, phase, answer, status, body, array, wanted, k, attached,
                       values, object, at>>
    BY <1>5 DEF Prepare, Fail, Continue, call, exchange, report, list
  <2> QED
    BY <1>1, <2>1, <2>2, <2>3 DEF TypeOK
<1>6. CASE NewReport
  <2>1. refs' \in [Objects -> Nat]
    <3>1. refs \in [Objects -> Nat]
      BY <1>1 DEF TypeOK
    <3>2. refs' = [refs EXCEPT !["report"] = 1] \/ refs' = refs
      BY <1>6 DEF NewReport
    <3> QED
      BY <3>1, <3>2
  <2>2. error' \in Errors /\ failed' \in BOOLEAN
    <3>1. /\ error' \in {error, Unknown, [type |-> "NO_INIT_ERROR", code |-> 500]}
          /\ failed' \in {failed, TRUE}
      BY <1>6 DEF NewReport, Fail, Continue
    <3> QED
      BY <3>1, ErrorTyped
  <2>3. /\ pc' \in {"exit", "fields"} /\ wanted' \subseteq Attributes /\ k' = 1 /\ attached' = {}
        /\ UNCHANGED <<args, kinds, phase, answer, status, body, array, values, object, at>>
    BY <1>6 DEF NewReport, Fail, Continue, call, exchange, list
  <2> QED
    BY <1>1, <2>1, <2>2, <2>3 DEF TypeOK
<1>7. CASE NewList
  <2>1. values' \in Values \cup {<<>>} /\ object' = <<>> /\ at' = 1
    BY <1>7 DEF NewList
  <2>2. refs' \in [Objects -> Nat]
    <3>1. PICK n \in {0, 1} : refs' = [refs EXCEPT ![ListAtHand] = n]
      BY <1>7 DEF NewList
    <3>2. refs \in [Objects -> Nat] /\ n \in Nat
      BY <1>1 DEF TypeOK
    <3> QED
      BY <3>1, <3>2
  <2>3. DOMAIN object' = {}
    BY <2>1
  <2> QED
    BY <1>1, <1>7, <2>1, <2>2, <2>3 DEF TypeOK, NewList, call, exchange, report
<1>8. CASE Value
  <2>1. /\ at \in 1 .. Len(values) /\ Len(values) \in 0 .. MaxValues
        /\ values[at] \in Names
    BY <1>1, <1>8, ValuesAreLists DEF TypeOK, Value
  <2>2. /\ DOMAIN object' \subseteq Names
        /\ \A n \in DOMAIN object' : object'[n] \in 1 .. MaxValues
    BY <1>1, <1>8, <2>1 DEF TypeOK, Value, Merged
  <2>3. at' \in 1 .. MaxValues + 1
    BY <1>8, <2>1 DEF Value
  <2> QED
    BY <1>1, <1>8, <2>2, <2>3 DEF TypeOK, Value, call, exchange, report
<1>9. CASE BadValue
  <2>1. at' \in 1 .. MaxValues + 1
    BY <1>1, <1>9, ValuesAreLists DEF TypeOK, BadValue
  <2> QED
    BY <1>1, <1>2, <1>9, <2>1 DEF TypeOK, BadValue, Fail, call, exchange, report
<1>10. CASE Attach
  <2>1. pc = "value" /\ k <= Len(ListsOf[Kind])
    BY <1>10 DEF Attach, IInv, ListsByStage
  <2>2. ListAtHand \in Lists /\ k' \in 1 .. 4
    BY <1>10, <2>1, AtHand DEF Attach, Encoding
  <2>3. refs' \in [Objects -> Nat] /\ attached' \subseteq Lists /\ DOMAIN object' = {}
    BY <1>1, <1>10, <2>2 DEF TypeOK, Attach, NoList
  <2> QED
    BY <1>1, <1>10, <2>2, <2>3 DEF TypeOK, Attach, NoList, call, exchange
<1>11. CASE ListFails
  <2>1. /\ DOMAIN object' \subseteq Names /\ values' \in Values \cup {<<>>} /\ at' = 1
        /\ \A n \in DOMAIN object' : object'[n] \in 1 .. MaxValues
    BY <1>11 DEF ListFails, NoList
  <2>2. error' \in Errors /\ failed' \in BOOLEAN
    <3>1. /\ error' \in {error, Unknown, [type |-> "NO_INIT_ERROR", code |-> 500]}
          /\ failed' \in {failed, TRUE}
      BY <1>11 DEF ListFails, Fail, Continue
    <3> QED
      BY <3>1, ErrorTyped
  <2>3. /\ pc' = "release"
        /\ UNCHANGED <<args, kinds, phase, answer, status, body, refs, array, wanted, k, attached>>
    BY <1>11 DEF ListFails, Fail, Continue, call, exchange, report
  <2> QED
    BY <1>1, <2>1, <2>2, <2>3 DEF TypeOK
<1>12. CASE Release \/ AppendFails \/ Return
  <2>1. refs' \in [Objects -> Nat]
    BY <1>1, <1>12 DEF TypeOK, Release, AppendFails, Return, Drop, Handed
  <2> QED
    <3>1. error' \in Errors /\ failed' \in BOOLEAN
      <4>1. error' \in {error, Unknown} /\ failed' \in {failed, TRUE}
        BY <1>12 DEF Release, AppendFails, Return, Fail, Continue
      <4> QED
        BY <4>1, ErrorTyped
    <3>2. /\ pc' \in {"append", "exit", "returned"}
          /\ UNCHANGED <<args, kinds, phase, answer, status, body, array, wanted, k, attached,
                         values, object, at>>
      BY <1>12 DEF Release, AppendFails, Return, Fail, Continue, call, exchange, report, list
    <3> QED
      BY <1>1, <2>1, <3>1, <3>2 DEF TypeOK
<1>13. CASE AppendReport
  <2> DEFINE e == [wanted |-> wanted, sent |-> Sent]
  <2>1. pc \in Encoding
    BY <1>13 DEF AppendReport, Encoding
  <2>2. e \in Contents
    BY <1>1, <2>1, SentIsTyped DEF TypeOK, Contents
  <2>3. array \in Seq(Contents) /\ Len(array) < Len(kinds) /\ array' = Append(array, e)
    BY <1>1, <1>13, <2>1 DEF TypeOK, AppendReport, IInv, CountByStage
  <2> HIDE DEF e
  <2>4. array' \in Seq(Contents) /\ Len(array') = Len(array) + 1 /\ Len(array) \in Nat
    BY <2>2, <2>3
  <2>5. Len(array') <= Len(kinds')
    <3>1. kinds' = kinds /\ Len(kinds) \in Nat
      BY <1>1, <1>13 DEF TypeOK, AppendReport, call
    <3> QED
      BY <2>3, <2>4, <3>1
  <2>6. refs' \in [Objects -> Nat]
    BY <1>1, <1>13 DEF TypeOK, AppendReport, Handed
  <2> QED
    BY <1>1, <1>13, <2>4, <2>5, <2>6 DEF TypeOK, AppendReport, Continue, call, exchange, list
<1>14. CASE Post
  <2>1. refs' \in [Objects -> Nat]
    BY <1>1, <1>14 DEF TypeOK, Post
  <2>2. /\ phase' \in {"idle", "calling", "returned"} /\ answer' \in Exch!Answers
        /\ status' \in Codes /\ body' \in Nat \cup {Exch!NoBody}
    BY <1>14 DEF Post, Exch!Call, Exch!Preset, Exch!OK
  <2>3. /\ pc' = "requested"
        /\ UNCHANGED <<args, kinds, array, wanted, k, attached, values, object, at, error, failed>>
    BY <1>14 DEF Post, Continue, call, report, list
  <2> QED
    BY <1>1, <2>1, <2>2, <2>3 DEF TypeOK
<1>18. CASE PostNull
  <2>1. refs' \in [Objects -> Nat]
    <3>1. refs \in [Objects -> Nat]
      BY <1>1 DEF TypeOK
    <3>2. \/ refs' = [refs EXCEPT !["to_send"] = 1]
          \/ refs' = refs
          \/ refs' = Drop({"header", "array"})
      BY <1>18 DEF PostNull
    <3> QED
      BY <3>1, <3>2 DEF Drop
  <2>2. /\ phase' \in {"idle", "calling", "returned"} /\ answer' \in Exch!Answers
        /\ status' \in Codes /\ body' \in Nat \cup {Exch!NoBody}
    <3>1. CASE UNCHANGED exchange
      BY <1>1, <3>1 DEF TypeOK, exchange
    <3>2. CASE Exch!Call
      BY <3>2 DEF Exch!Call, Exch!Preset, Exch!OK
    <3> QED
      BY <1>18, <3>1, <3>2 DEF PostNull
  <2>3. error' \in Errors /\ failed' \in BOOLEAN
    <3>1. error' \in {error, Unknown} /\ failed' \in {failed, TRUE}
      BY <1>18 DEF PostNull, Fail, Continue
    <3> QED
      BY <3>1, ErrorTyped
  <2>4. /\ pc' \in {"unsent", "crashed"}
        /\ UNCHANGED <<args, kinds, array, wanted, k, attached, values, object, at>>
    BY <1>18 DEF PostNull, Fail, Continue, call, report, list
  <2> QED
    BY <1>1, <2>1, <2>2, <2>3, <2>4 DEF TypeOK
<1>15. CASE Answered
  <2>1. /\ phase' \in {"idle", "calling", "returned"} /\ answer' \in Exch!Answers
        /\ status' \in Codes /\ body' \in Nat \cup {Exch!NoBody}
    BY <1>1, <1>15 DEF TypeOK, Answered, Exch!Deliver, Exch!Refuse, Exch!GiveUp, Exch!Answers,
                       Exch!NoBody
  <2> QED
    BY <1>1, <1>15, <2>1 DEF TypeOK, Answered, Continue, call, report, list
<1>16. CASE Result
  <2>1. error' \in Errors /\ failed' \in BOOLEAN
    <3>1. error' \in {error, Unknown, [type |-> "HTTP_ERROR", code |-> status]}
      BY <1>16 DEF Result, Fail, Continue
    <3>2. failed' \in {failed, TRUE}
      BY <1>16 DEF Result, Fail, Continue
    <3> QED
      BY <3>1, <3>2, ErrorTyped
  <2>2. /\ pc' = "exit"
        /\ UNCHANGED <<args, kinds, phase, answer, status, body, refs, array, wanted, k, attached,
                       values, object, at>>
    BY <1>16 DEF Result, Fail, Continue, call, exchange, report, list
  <2> QED
    BY <1>1, <2>1, <2>2 DEF TypeOK
<1>17. CASE UNCHANGED vars
  BY <1>1, <1>17 DEF TypeOK, vars
<1> QED
  BY <1>3, <1>4, <1>5, <1>6, <1>7, <1>8, <1>9, <1>10, <1>11, <1>12, <1>13, <1>14, <1>15, <1>16,
     <1>17, <1>18 DEF Next

(* The count of the reports, which only an accepted one changes.            *)
LEMMA CountStep ==
  ASSUME IInv, [Next]_vars
  PROVE  CountByStage'
<1>0. Len(array) \in Nat /\ Len(kinds) \in Nat /\ Len(array) <= Len(kinds)
  BY DEF IInv, TypeOK
<1>1. CASE Enter
  <2>1. PICK n \in 1 .. MaxReports : kinds' \in [1 .. n -> Kinds]
    BY <1>1 DEF Enter
  <2>2. Len(kinds') > 0 /\ array' = <<>>
    BY <1>1, <2>1 DEF Enter
  <2> QED
    BY <1>1, <2>2 DEF Enter, CountByStage, Encoding
<1>2. CASE NewReport
  BY <1>0, <1>2 DEF NewReport, Fail, Continue, AllAppended, call, CountByStage, Encoding, Kind
<1>3. CASE SetFields \/ NewList \/ Value \/ BadValue \/ Attach \/ ListFails
  <2>1. pc \in Encoding /\ UNCHANGED <<array, kinds>> /\ pc' \in Encoding
    BY <1>3 DEF SetFields, NewList, Value, BadValue, Attach, ListFails, Fail, Continue, call,
                Encoding
  <2> QED
    BY <2>1 DEF IInv, CountByStage, Kind, Encoding
<1>4. CASE Release
  <2>1. pc \in Encoding /\ UNCHANGED <<array, kinds>> /\ pc' \in {"append", "exit"}
    BY <1>4 DEF Release, call, Encoding
  <2> QED
    BY <2>1 DEF IInv, CountByStage, Kind, Encoding
<1>5. CASE Refused \/ Prepare \/ Unsupported \/ AppendReport \/ AppendFails \/ Result \/ Return
  <2>1. pc' \in {"exit", "report", "returned"}
    BY <1>5 DEF Refused, Prepare, Unsupported, AppendReport, AppendFails, Result, Return, Fail,
                Continue
  <2> QED
    BY <2>1 DEF CountByStage, Encoding
<1>6. CASE Post \/ PostNull \/ Answered
  <2>1. /\ UNCHANGED <<array, kinds>> /\ Len(array) = Len(kinds)
        /\ pc' \in {"requested", "unsent", "crashed", "answered"}
    BY <1>0, <1>6 DEF Post, PostNull, Answered, Fail, Continue, AllAppended, call, IInv,
                      CountByStage
  <2> QED
    BY <2>1 DEF CountByStage, Encoding
<1>7. CASE UNCHANGED vars
  BY <1>7 DEF vars, IInv, CountByStage, Kind
<1> QED
  BY <1>1, <1>2, <1>3, <1>4, <1>5, <1>6, <1>7 DEF Next

(* The result: set by the first failure, and only changed to another error.   *)
LEMMA ErrorStep ==
  ASSUME IInv, [Next]_vars
  PROVE  ErrorByStage'
<1> DEFINE NoInit == [type |-> "NO_INIT_ERROR", code |-> 500]
           Http == [type |-> "HTTP_ERROR", code |-> status]
<1>1. /\ NoErrorSwallowed /\ failed \in BOOLEAN
      /\ Len(array) \in Nat /\ Len(kinds) \in Nat /\ status \in Nat /\ answer.code \in Nat
  <2>1. TypeOK /\ NoErrorSwallowed
    BY DEF IInv, ErrorByStage
  <2>2. Len(array) \in Nat /\ Len(kinds) \in Nat /\ status \in Nat /\ failed \in BOOLEAN
    BY <2>1 DEF TypeOK
  <2>3. answer.code \in Nat
    BY <2>1 DEF TypeOK, Exch!Answers
  <2> QED
    BY <2>1, <2>2, <2>3
<1>2. /\ Unknown # NoError /\ NoInit # NoError /\ Http # NoError
      /\ Contract!Refusals = {NoInit, Unknown}
  BY DEF Unknown, NoError, Contract!Refusals, Contract!Error
<1>3. pc \in Encoding \cup {"guards"} => ~AllAppended
  BY <1>1 DEF IInv, CountByStage, AllAppended
<1>4. CASE Enter
  BY <1>4 DEF Enter, ErrorByStage, NoErrorSwallowed
<1>5. CASE Refused
  <2>1. /\ error' \in {NoInit, Unknown} /\ failed' = TRUE /\ pc' = "exit" /\ ~AllAppended'
    BY <1>3, <1>5 DEF Refused, AllAppended, call
  <2>2. Contract!Refusals' = Contract!Refusals
    BY DEF Contract!Refusals
  <2> QED
    BY <1>2, <2>1, <2>2 DEF ErrorByStage, NoErrorSwallowed
<1>6. CASE Prepare \/ Unsupported \/ NewReport \/ SetFields \/ AppendFails
  <2>1. error = NoError /\ failed = FALSE
    <3>1. pc \in {"guards", "report", "fields", "append"}
      BY <1>6 DEF Prepare, Unsupported, NewReport, SetFields, AppendFails
    <3> QED
      BY <1>1, <3>1 DEF IInv, ErrorByStage, NoErrorSwallowed
  <2>2. ~AllAppended'
    BY <1>3, <1>6 DEF Prepare, Unsupported, NewReport, SetFields, AppendFails, AllAppended, call,
                      Encoding
  <2>3. \/ pc' \in {"report", "fields", "list"} /\ error' = NoError /\ failed' = FALSE
        \/ pc' \in {"exit", "release"} /\ error' = Unknown /\ failed' = TRUE
    BY <1>6, <2>1 DEF Prepare, Unsupported, NewReport, SetFields, AppendFails, Fail, Continue
  <2>4. Contract!Refusals' = Contract!Refusals
    BY DEF Contract!Refusals
  <2> QED
    BY <1>2, <2>2, <2>3, <2>4 DEF ErrorByStage, NoErrorSwallowed
<1>7. CASE NewList \/ Value \/ BadValue
  <2>1. /\ pc' = "value" /\ pc \in {"list", "value"}
        /\ \/ error' = error /\ failed' = failed
           \/ error' = Unknown /\ failed' = TRUE
    BY <1>7 DEF NewList, Value, BadValue, Fail
  <2>2. error' \in {NoError, Unknown}
    BY <2>1 DEF IInv, ErrorByStage
  <2> QED
    BY <1>1, <1>2, <2>1, <2>2 DEF ErrorByStage, NoErrorSwallowed
<1>8. CASE Attach \/ AppendReport
  <2>1. error = NoError /\ error' = NoError /\ failed' = failed /\ pc' \in {"list", "report"}
    BY <1>8 DEF Attach, AppendReport, Continue, IInv, ErrorByStage
  <2> QED
    BY <1>1, <2>1 DEF ErrorByStage, NoErrorSwallowed
<1>9. CASE ListFails
  <2>1. error \in {NoError, Unknown}
    BY <1>9 DEF ListFails, IInv, ErrorByStage
  <2>2. error' = Unknown /\ failed' = TRUE /\ pc' = "release"
    BY <1>1, <1>9, <2>1 DEF ListFails, Fail, Continue, NoErrorSwallowed
  <2> QED
    BY <1>2, <2>2 DEF ErrorByStage, NoErrorSwallowed
<1>10. CASE Release
  <2>1. /\ error' = error /\ failed' = failed /\ error \in {NoError, Unknown}
        /\ pc' = IF error = NoError THEN "append" ELSE "exit"
    BY <1>10 DEF Release, IInv, ErrorByStage
  <2>2. ~AllAppended'
    BY <1>3, <1>10 DEF Release, AllAppended, call, Encoding
  <2>3. Contract!Refusals' = Contract!Refusals
    BY DEF Contract!Refusals
  <2> QED
    BY <1>1, <1>2, <2>1, <2>2, <2>3 DEF ErrorByStage, NoErrorSwallowed
<1>11. CASE Post
  <2>1. /\ pc' = "requested" /\ status' = 200 /\ body' = Exch!NoBody
        /\ error' = error /\ failed' = failed /\ error = NoError
    BY <1>11 DEF Post, Continue, Exch!Call, Exch!Preset, Exch!OK, IInv, ErrorByStage
  <2> QED
    BY <1>1, <2>1 DEF ErrorByStage, NoErrorSwallowed
<1>16. CASE PostNull
  <2>1. /\ pc' \in {"unsent", "crashed"}
        /\ pc' = "unsent" => status' = 200 /\ body' = Exch!NoBody
        /\ \/ error' = error /\ failed' = failed /\ error = NoError
           \/ error' = Unknown /\ failed' = TRUE
    BY <1>16 DEF PostNull, Fail, Continue, Exch!Call, Exch!Preset, Exch!OK, IInv, ErrorByStage
  <2> QED
    BY <1>1, <1>2, <2>1 DEF ErrorByStage, NoErrorSwallowed
<1>12. CASE Answered
  <2>1. status = 200 /\ body = Exch!NoBody /\ error \in {NoError, Unknown}
    BY <1>12 DEF Answered, IInv, ErrorByStage
  <2>2. /\ pc' = "answered" /\ error' = error /\ failed' = failed
        /\ status' # 200 => status' = answer'.code
        /\ body' # Exch!NoBody => answer'.code = 200
    BY <1>12, <2>1 DEF Answered, Continue, Exch!Deliver, Exch!Refuse, Exch!GiveUp, Exch!OK
  <2> QED
    BY <1>1, <2>1, <2>2 DEF ErrorByStage, NoErrorSwallowed, Exch!NoBody
<1>13. CASE Result
  <2>1. /\ pc = "answered" /\ pc' = "exit" /\ AllAppended' /\ error \in {NoError, Unknown}
        /\ UNCHANGED <<phase, answer, status, body>>
    BY <1>1, <1>13 DEF Result, Fail, Continue, exchange, call, IInv, CountByStage, ErrorByStage,
                       AllAppended
  <2>2. body # Exch!NoBody => answer.code = 200
    BY <2>1 DEF IInv, ErrorByStage
  <2>3. CASE HttpError
    <3>1. error' = Http /\ failed' = TRUE
      BY <1>1, <1>13, <2>3 DEF Result, HttpError, NoReply
    <3>2. Http \in Contract!Outcomes'
      BY <2>1, <2>3 DEF HttpError, Contract!Outcomes, Contract!Error
    <3> QED
      BY <1>2, <2>1, <3>1, <3>2 DEF ErrorByStage, NoErrorSwallowed
  <2>4. CASE ~HttpError
    <3>1. Unknown \in Contract!Outcomes' /\ (body # Exch!NoBody => NoError \in Contract!Outcomes')
      BY <2>1, <2>4 DEF HttpError, Contract!Outcomes, Contract!Error, Unknown, NoError,
                        Contract!NoError, Exch!NoBody, Contract!Exch!NoBody
    <3>2. \/ error' = Unknown /\ failed' = TRUE
          \/ error' = error /\ failed' = failed /\ body # Exch!NoBody
      BY <1>1, <1>13, <2>4 DEF Result, HttpError, NoReply, Fail, Continue
    <3>3. error' \in Contract!Outcomes'
      BY <2>1, <3>1, <3>2
    <3>4. NoErrorSwallowed' /\ (error' = NoError => answer'.code = 200)
      BY <1>1, <1>2, <2>1, <2>2, <3>2 DEF NoErrorSwallowed
    <3> QED
      BY <2>1, <3>3, <3>4 DEF ErrorByStage
  <2> QED
    BY <2>3, <2>4
<1>14. CASE Return
  <2>1. pc = "exit" /\ pc' = "returned" /\ UNCHANGED <<error, failed, answer, array, kinds>>
    BY <1>14 DEF Return, Continue, exchange, call
  <2> QED
    BY <1>1, <2>1 DEF IInv, ErrorByStage, NoErrorSwallowed, AllAppended
<1>15. CASE UNCHANGED vars
  BY <1>15 DEF vars, IInv, ErrorByStage, NoErrorSwallowed, AllAppended, Contract!Refusals,
               Contract!Outcomes
<1> QED
  BY <1>4, <1>5, <1>6, <1>7, <1>8, <1>9, <1>10, <1>11, <1>12, <1>13, <1>14, <1>15,
     <1>16 DEF Next

(* How far the report at hand has got.                                      *)
LEMMA ListsStep ==
  ASSUME IInv, [Next]_vars
  PROVE  ListsByStage'
<1>1. CASE Enter \/ Refused \/ Prepare \/ Unsupported \/ AppendReport \/ AppendFails \/ Post
             \/ PostNull \/ Answered \/ Result \/ Return
  <2>1. pc' \in {"guards", "exit", "report", "requested", "unsent", "crashed", "answered",
                 "returned"}
    BY <1>1 DEF Enter, Refused, Prepare, Unsupported, AppendReport, AppendFails, Post, PostNull,
                Answered, Result, Return, Fail, Continue
  <2> QED
    BY <2>1 DEF ListsByStage, Encoding
<1>2. CASE NewReport
  <2>1. Kind' = Kind /\ k' = 1 /\ attached' = {} /\ pc' \in {"fields", "exit"}
    BY <1>2 DEF NewReport, Fail, Continue, Kind, call
  <2>2. Len(ListsOf[Kind]) \in 1 .. 3
    BY <1>2, ListsOfKinds DEF NewReport
  <2> QED
    BY <2>1, <2>2 DEF ListsByStage, Encoding
<1>3. CASE SetFields
  <2>1. /\ pc = "fields" /\ pc' \in {"list", "release"} /\ Kind' = Kind
        /\ UNCHANGED <<k, attached, wanted>>
    BY <1>3 DEF SetFields, Fail, Continue, Kind, call, report
  <2> QED
    BY <2>1 DEF IInv, ListsByStage, Encoding
<1>4. CASE NewList
  <2>1. /\ pc = "list" /\ pc' = "value" /\ Kind' = Kind /\ UNCHANGED <<k, attached, wanted>>
        /\ k <= Len(ListsOf[Kind]) /\ at' = 1 /\ ListAtHand' = ListAtHand
    BY <1>4 DEF NewList, Kind, call, report, ListAtHand
  <2>2. Found(ListAtHand) = ListAtHand
    BY <2>1, AtHand, FoundInPlace DEF Encoding
  <2>3. values' = <<>> <=> ListAtHand \notin wanted
    BY <1>4, <2>2, ValuesNotEmpty DEF NewList
  <2> QED
    BY <2>1, <2>3 DEF IInv, ListsByStage, Encoding
<1>5. CASE Value \/ BadValue
  <2>1. /\ pc = "value" /\ pc' = "value" /\ Kind' = Kind /\ ListAtHand' = ListAtHand
        /\ UNCHANGED <<k, attached, wanted, values, refs>>
    BY <1>5 DEF Value, BadValue, Fail, Kind, call, report, ListAtHand
  <2>2. error' # NoError \/ refs[ListAtHand] # 0
    BY <1>5 DEF Value, BadValue, Fail, Unknown, NoError
  <2> QED
    BY <2>1, <2>2 DEF IInv, ListsByStage, Encoding
<1>6. CASE Attach
  <2> DEFINE kind == Kind
             set == IF refs[ListAtHand] > 0 THEN {ListAtHand} ELSE {}
  <2>1. /\ pc = "value" /\ pc' = "list" /\ Kind' = kind /\ k' = k + 1 /\ wanted' = wanted
        /\ attached' = attached \cup set
    BY <1>6 DEF Attach, Kind, call
  <2>2. k \in 1 .. Len(ListsOf[kind]) /\ ListAtHand = ListsOf[kind][k]
    BY <2>1, AtHand DEF IInv, ListsByStage, Encoding, ListAtHand
  <2>3. /\ attached \subseteq {ListsOf[kind][j] : j \in 1 .. k - 1}
        /\ \A j \in 1 .. k - 1 : ListsOf[kind][j] \in wanted => ListsOf[kind][j] \in attached
    BY <2>1 DEF IInv, ListsByStage, Encoding
  <2>4. ListAtHand \in wanted => set = {ListAtHand}
    <3> SUFFICES ASSUME ListAtHand \in wanted, ~(refs[ListAtHand] > 0) PROVE FALSE
      OBVIOUS
    <3>1. refs[ListAtHand] = 0
      BY <2>1, <2>2, AtHand DEF IInv, TypeOK, Encoding, Objects
    <3>2. at = 1 /\ values # <<>>
      BY <1>6, <2>1, <3>1 DEF Attach, IInv, ListsByStage
    <3>3. Len(values) > 0
      BY <3>2, ValuesAreLists DEF IInv, TypeOK
    <3> QED
      BY <1>6, <3>2, <3>3 DEF Attach
  <2> HIDE DEF kind, set
  <2>5. attached' \subseteq {ListsOf[kind][j] : j \in 1 .. k}
    <3>1. set \subseteq {ListsOf[kind][k]}
      BY <2>2 DEF set
    <3>2. \A j \in 1 .. k - 1 : j \in 1 .. k
      BY <2>2
    <3>3. k \in 1 .. k
      BY <2>2
    <3> QED
      BY <2>1, <2>3, <3>1, <3>2, <3>3
  <2>6. \A j \in 1 .. k : ListsOf[kind][j] \in wanted => ListsOf[kind][j] \in attached'
    <3> SUFFICES ASSUME NEW j \in 1 .. k, ListsOf[kind][j] \in wanted
                 PROVE  ListsOf[kind][j] \in attached'
      OBVIOUS
    <3>1. CASE j = k
      BY <2>1, <2>2, <2>4, <3>1
    <3>2. CASE j # k
      <4>1. j \in 1 .. k - 1
        BY <2>2, <3>2
      <4> QED
        BY <2>1, <2>3, <4>1
    <3> QED
      BY <3>1, <3>2
  <2>7. k' - 1 = k /\ k' \in 1 .. Len(ListsOf[kind]) + 1
    BY <2>1, <2>2
  <2> QED
    BY <2>1, <2>5, <2>6, <2>7 DEF ListsByStage, Encoding
<1>7. CASE ListFails
  <2>1. pc = "value" /\ pc' = "release" /\ Kind' = Kind /\ UNCHANGED <<k, attached, wanted>>
    BY <1>7 DEF ListFails, Fail, Continue, Kind, call, report
  <2> QED
    BY <2>1 DEF IInv, ListsByStage, Encoding
<1>8. CASE Release
  <2>1. /\ pc \in Encoding /\ pc' \in {"append", "exit"} /\ Kind' = Kind
        /\ UNCHANGED <<k, attached, wanted>>
    BY <1>8 DEF Release, Kind, call, report, Encoding
  <2>2. pc' = "append" => k > Len(ListsOf[Kind])
    BY <1>8 DEF Release, IInv, ErrorByStage, Unknown, NoError
  <2>3. pc' = "append" => k = Len(ListsOf[Kind]) + 1
    BY <2>1, <2>2, AtHand
  <2> QED
    BY <2>1, <2>3 DEF IInv, ListsByStage, Encoding
<1>9. CASE UNCHANGED vars
  BY <1>9 DEF vars, IInv, ListsByStage, Kind, ListAtHand
<1> QED
  BY <1>1, <1>2, <1>3, <1>4, <1>5, <1>6, <1>7, <1>8, <1>9 DEF Next

-----------------------------------------------------------------------------
(* The references.                                                          *)

LEMMA RefsTyped ==
  ASSUME IInv
  PROVE  /\ refs \in [Objects -> Nat]
         /\ Lists \subseteq Objects /\ {"header", "array", "to_send", "report"} \subseteq Objects
         /\ \A l \in Lists : l \notin {"header", "array", "to_send", "report"}
  BY DEF IInv, TypeOK, Objects, Lists

(* Header and array stay with the call until the body takes them over.        *)
LEMMA OutsideStep ==
  ASSUME IInv, [Next]_vars
  PROVE  RefsOutside'
<1>1. CASE Refused \/ Unsupported \/ ListFails \/ SetFields \/ Value \/ BadValue \/ Answered
             \/ Result
  <2>1. /\ refs' = refs
        /\ \/ pc \in Encoding /\ pc' \in Encoding
           \/ pc' \in {"exit", "answered"}
    BY <1>1 DEF Refused, Unsupported, ListFails, SetFields, Value, BadValue, Answered, Result,
                Fail, Continue, Encoding
  <2> QED
    BY <2>1 DEF IInv, RefsOutside, Encoding
<1>2. CASE Post \/ PostNull \/ AppendFails \/ Return
  <2>1. pc' \in {"exit", "requested", "unsent", "crashed", "returned"}
    BY <1>2 DEF Post, PostNull, AppendFails, Return, Fail, Continue
  <2> QED
    BY <2>1 DEF RefsOutside, Encoding
<1>3. CASE Enter
  BY <1>3 DEF Enter, RefsOutside, Encoding
<1>4. CASE Prepare
  <2>1. CASE pc' = "report"
    <3>1. \A o \in Objects : refs'[o] = IF o \in {"header", "array"} THEN 1 ELSE 0
      BY <1>4, <2>1 DEF Prepare, Fail
    <3> QED
      BY <2>1, <3>1 DEF RefsOutside, Encoding
  <2>2. CASE pc' = "exit"
    BY <2>2 DEF RefsOutside, Encoding
  <2> QED
    BY <1>4, <2>1, <2>2 DEF Prepare, Fail, Continue
<1>5. CASE NewReport
  <2>1. \A o \in Objects : refs[o] = IF o \in {"header", "array"} THEN 1 ELSE 0
    BY <1>5 DEF NewReport, IInv, RefsOutside
  <2>2. CASE pc' = "fields"
    <3>1. refs' = [refs EXCEPT !["report"] = 1]
      BY <1>5, <2>2 DEF NewReport, Fail
    <3>2. \A o \in Objects \ Lists : refs'[o] = IF o = "to_send" THEN 0 ELSE 1
      BY <2>1, <3>1, RefsTyped DEF Objects
    <3> QED
      BY <2>2, <3>2 DEF RefsOutside, Encoding
  <2>3. CASE pc' = "exit"
    BY <2>3 DEF RefsOutside, Encoding
  <2> QED
    BY <1>5, <2>2, <2>3 DEF NewReport, Fail, Continue
<1>6. CASE NewList \/ Attach \/ Release
  <2>1. pc \in Encoding /\ pc' \in Encoding \cup {"exit"}
    BY <1>6 DEF NewList, Attach, Release, Encoding
  <2>2. pc = "value" \/ NewList => ListAtHand \in Lists
    <3>1. pc = "value" \/ NewList => k <= Len(ListsOf[Kind])
      BY DEF NewList, IInv, ListsByStage
    <3> QED
      BY <2>1, <3>1, AtHand
  <2>3. \A o \in Objects \ Lists : refs'[o] = refs[o]
    <3>1. CASE NewList
      BY <2>2, <3>1, RefsTyped DEF NewList
    <3>2. CASE Attach
      <4>1. pc = "value"
        BY <3>2 DEF Attach
      <4> QED
        BY <2>2, <3>2, <4>1, RefsTyped DEF Attach
    <3>3. CASE Release
      BY <3>3, RefsTyped DEF Release, Drop
    <3> QED
      BY <1>6, <3>1, <3>2, <3>3
  <2> QED
    BY <2>1, <2>3 DEF IInv, RefsOutside, Encoding
<1>7. CASE AppendReport
  <2>1. \A o \in Objects \ Lists : refs[o] = IF o = "to_send" THEN 0 ELSE 1
    BY <1>7 DEF AppendReport, IInv, RefsOutside, Encoding
  <2>2. refs' = Handed /\ pc' = "report"
    BY <1>7 DEF AppendReport, Continue
  <2>3. \A o \in Objects : refs'[o] = IF o \in {"header", "array"} THEN 1 ELSE 0
    BY <2>1, <2>2, RefsTyped DEF Handed, Objects
  <2> QED
    BY <2>2, <2>3 DEF RefsOutside, Encoding
<1>8. CASE UNCHANGED vars
  BY <1>8 DEF vars, IInv, RefsOutside
<1> QED
  BY <1>1, <1>2, <1>3, <1>4, <1>5, <1>6, <1>7, <1>8 DEF Next

(* A report has no list twice.                                              *)
LEMMA NotYetAttached ==
  ASSUME IInv, pc \in Encoding, k <= Len(ListsOf[Kind])
  PROVE  ListAtHand \notin attached
<1> SUFFICES ASSUME ListAtHand \in attached PROVE FALSE
  OBVIOUS
<1>1. PICK j \in 1 .. k - 1 : ListsOf[Kind][j] = ListsOf[Kind][k]
  BY DEF IInv, ListsByStage, ListAtHand
<1>2. Kind \in DOMAIN ListsOf /\ k \in 1 .. Len(ListsOf[Kind])
  BY AtHand
<1>3. j \in 1 .. Len(ListsOf[Kind]) /\ j # k
  BY <1>2
<1> QED
  BY <1>1, <1>2, <1>3, ListsOfKinds

(* An encoder holds the list it works on, and gives up its references when it *)
(* ends; the report keeps its own.                                          *)
LEMMA OfListsStep ==
  ASSUME IInv, [Next]_vars
  PROVE  RefsOfLists'
<1>1. CASE Enter \/ Refused \/ Prepare \/ Unsupported \/ AppendReport \/ AppendFails \/ Post
             \/ PostNull \/ Answered \/ Result \/ Return
  <2>1. pc' \in {"guards", "exit", "report", "requested", "unsent", "crashed", "answered",
                 "returned"}
    BY <1>1 DEF Enter, Refused, Prepare, Unsupported, AppendReport, AppendFails, Post, PostNull,
                Answered, Result, Return, Fail, Continue
  <2> QED
    BY <2>1 DEF RefsOfLists
<1>2. CASE NewReport
  <2>1. \A l \in Lists : refs[l] = 0
    BY <1>2, RefsTyped DEF NewReport, IInv, RefsOutside
  <2>2. /\ pc' \in {"fields", "exit"}
        /\ refs' = refs \/ refs' = [refs EXCEPT !["report"] = 1]
    BY <1>2 DEF NewReport, Fail, Continue
  <2>3. \A l \in Lists : refs'[l] = 0
    BY <2>1, <2>2, RefsTyped
  <2> QED
    BY <2>2, <2>3 DEF RefsOfLists
<1>3. CASE SetFields
  <2>1. /\ pc = "fields" /\ pc' \in {"list", "release"} /\ refs' = refs /\ attached' = attached
    BY <1>3 DEF SetFields, Fail, Continue, report
  <2>2. attached = {} /\ \A l \in Lists : refs[l] = 0
    BY <2>1 DEF IInv, ListsByStage, RefsOfLists
  <2> QED
    BY <2>1, <2>2 DEF RefsOfLists
<1>4. CASE NewList
  <2>1. /\ pc = "list" /\ pc' = "value" /\ attached' = attached /\ ListAtHand' = ListAtHand
        /\ k <= Len(ListsOf[Kind])
    BY <1>4 DEF NewList, Kind, call, report, ListAtHand
  <2>2. ListAtHand \in Lists
    BY <2>1, AtHand DEF Encoding
  <2>3. ListAtHand \notin attached
    BY <2>1, NotYetAttached DEF Encoding
  <2>4. PICK n \in {0, 1} : refs' = [refs EXCEPT ![ListAtHand] = n]
    BY <1>4 DEF NewList
  <2>5. \A l \in Lists : refs[l] = IF l \in attached THEN 2 ELSE 0
    BY <2>1 DEF IInv, RefsOfLists
  <2>6. \A l \in Lists : refs'[l] = IF l \in attached THEN 2 ELSE IF l = ListAtHand THEN n ELSE 0
    BY <2>2, <2>3, <2>4, <2>5, RefsTyped
  <2> QED
    BY <2>1, <2>6 DEF RefsOfLists
<1>5. CASE Value \/ BadValue
  <2>1. /\ pc = "value" /\ pc' = "value" /\ ListAtHand' = ListAtHand
        /\ UNCHANGED <<attached, refs>>
    BY <1>5 DEF Value, BadValue, Fail, Kind, call, report, ListAtHand
  <2> QED
    BY <2>1 DEF IInv, RefsOfLists
<1>6. CASE Attach
  <2> DEFINE set == IF refs[ListAtHand] > 0 THEN {ListAtHand} ELSE {}
  <2>1. /\ pc = "value" /\ pc' = "list" /\ attached' = attached \cup set
        /\ refs' = [o \in Objects |-> IF o \in set THEN refs[o] + 1 ELSE refs[o]]
    BY <1>6 DEF Attach
  <2>2. ListAtHand \in Lists /\ ListAtHand \notin attached
    <3>1. k <= Len(ListsOf[Kind])
      BY <2>1 DEF IInv, ListsByStage
    <3> QED
      BY <2>1, <3>1, AtHand, NotYetAttached DEF Encoding
  <2>3. \A l \in Lists :
          /\ l \in attached => refs[l] = 2
          /\ l \notin attached => refs[l] <= 1
          /\ l \notin attached /\ l # ListAtHand => refs[l] = 0
    BY <2>1 DEF IInv, RefsOfLists
  <2>4. \A l \in Lists : refs'[l] = IF l \in attached' THEN 2 ELSE 0
    BY <2>1, <2>2, <2>3, RefsTyped
  <2> QED
    BY <2>1, <2>4 DEF RefsOfLists
<1>7. CASE ListFails
  <2>1. pc = "value" /\ pc' = "release" /\ UNCHANGED <<attached, refs>>
    BY <1>7 DEF ListFails, Fail, Continue, report
  <2> QED
    BY <2>1 DEF IInv, RefsOfLists
<1>8. CASE Release
  <2>1. /\ attached' = attached /\ refs' = Drop(Lists)
        /\ pc' = IF error = NoError THEN "append" ELSE "exit"
    BY <1>8 DEF Release, report
  <2>2. CASE pc = "list"
    <3>1. \A l \in Lists : refs[l] = IF l \in attached THEN 2 ELSE 0
      BY <2>2 DEF IInv, RefsOfLists
    <3>2. \A l \in Lists : refs'[l] = IF l \in attached' THEN 1 ELSE 0
      BY <2>1, <3>1, RefsTyped DEF Drop
    <3> QED
      BY <2>1, <3>2 DEF RefsOfLists
  <2>3. CASE pc = "release"
    <3>1. pc' = "exit"
      BY <2>1, <2>3 DEF IInv, ErrorByStage, Unknown, NoError
    <3> QED
      BY <3>1 DEF RefsOfLists
  <2> QED
    BY <1>8, <2>2, <2>3 DEF Release
<1>9. CASE UNCHANGED vars
  BY <1>9 DEF vars, IInv, RefsOfLists, ListAtHand, Kind
<1> QED
  BY <1>1, <1>2, <1>3, <1>4, <1>5, <1>6, <1>7, <1>8, <1>9 DEF Next

(* What a call leaves when it fails: a list only in the report at hand.      *)
LEMMA AtEndStep ==
  ASSUME IInv, [Next]_vars
  PROVE  RefsAtEnd'
<1>1. CASE Enter \/ SetFields \/ NewList \/ Value \/ BadValue \/ Attach \/ ListFails
             \/ AppendReport
  <2>1. pc' \in {"guards", "report"} \cup Encoding
    BY <1>1 DEF Enter, SetFields, NewList, Value, BadValue, Attach, ListFails, AppendReport, Fail,
                Continue, Encoding
  <2> QED
    BY <2>1 DEF RefsAtEnd, Encoding
<1>2. CASE Refused
  <2>1. refs' = refs /\ pc' = "exit" /\ error' # NoError /\ \A o \in Objects : refs[o] = 0
    BY <1>2 DEF Refused, IInv, RefsOutside, Unknown, NoError
  <2> QED
    BY <2>1, RefsTyped DEF RefsAtEnd, Leftover
<1>3. CASE Prepare
  <2>1. CASE pc' = "report"
    BY <2>1 DEF RefsAtEnd
  <2>2. CASE pc' = "exit"
    <3>1. error' = Unknown
      BY <1>3, <2>2 DEF Prepare, Fail, Continue
    <3>2. \A o \in Objects : refs'[o] \in {0, 1} /\ (o \notin {"header", "array"} => refs'[o] = 0)
      BY <1>3 DEF Prepare
    <3> QED
      BY <2>2, <3>1, <3>2, RefsTyped DEF RefsAtEnd, Leftover, Unknown, NoError
  <2> QED
    BY <1>3, <2>1, <2>2 DEF Prepare, Fail, Continue
<1>4. CASE Unsupported \/ NewReport
  <2>1. CASE pc' = "exit"
    <3>1. error' = Unknown /\ refs' = refs
      BY <1>4, <2>1 DEF Unsupported, NewReport, Fail, Continue
    <3>2. \A o \in Objects : refs[o] = IF o \in {"header", "array"} THEN 1 ELSE 0
      BY <1>4 DEF Unsupported, NewReport, IInv, RefsOutside
    <3> QED
      BY <2>1, <3>1, <3>2, RefsTyped DEF RefsAtEnd, Leftover, Unknown, NoError
  <2>2. CASE pc' = "fields"
    BY <2>2 DEF RefsAtEnd
  <2> QED
    BY <1>4, <2>1, <2>2 DEF Unsupported, NewReport, Fail, Continue
<1>5. CASE Release
  <2>1. CASE error = NoError
    <3>1. pc' = "append"
      BY <1>5, <2>1 DEF Release
    <3> QED
      BY <3>1 DEF RefsAtEnd
  <2>2. CASE error # NoError
    <3>1. pc' = "exit" /\ error' = error /\ attached' = attached /\ refs' = Drop(Lists)
      BY <1>5, <2>2 DEF Release, report
    <3>2. \A o \in Objects \ Lists : refs[o] = IF o = "to_send" THEN 0 ELSE 1
      BY <1>5 DEF Release, IInv, RefsOutside, Encoding
    <3>3. \A l \in Lists : (l \in attached => refs[l] = 2) /\ (l \notin attached => refs[l] <= 1)
      BY <1>5 DEF Release, IInv, RefsOfLists
    <3>4. /\ \A o \in Objects \ Lists : refs'[o] = IF o = "to_send" THEN 0 ELSE 1
          /\ \A l \in Lists : refs'[l] = IF l \in attached THEN 1 ELSE 0
      BY <3>1, <3>2, <3>3, RefsTyped DEF Drop
    <3>5. \A o \in Objects : refs'[o] <= 1
      BY <3>4, RefsTyped
    <3> QED
      BY <2>2, <3>1, <3>4, <3>5, RefsTyped DEF RefsAtEnd, Leftover
  <2> QED
    BY <2>1, <2>2
<1>6. CASE AppendFails
  <2>1. pc' = "exit" /\ error' = Unknown /\ refs' = Handed
    BY <1>6 DEF AppendFails, Fail
  <2>2. \A o \in Objects \ Lists : refs[o] = IF o = "to_send" THEN 0 ELSE 1
    BY <1>6 DEF AppendFails, IInv, RefsOutside, Encoding
  <2>3. \A o \in Objects : refs'[o] = IF o \in {"header", "array"} THEN 1 ELSE 0
    BY <2>1, <2>2, RefsTyped DEF Handed, Objects
  <2> QED
    BY <2>1, <2>3, RefsTyped DEF RefsAtEnd, Leftover, Unknown, NoError
<1>7. CASE Post \/ PostNull
  <2>1. \A o \in Objects : refs[o] = IF o \in {"header", "array"} THEN 1 ELSE 0
    BY <1>7 DEF Post, PostNull, IInv, RefsOutside
  <2>2. pc' \in {"requested", "unsent", "crashed"}
    BY <1>7 DEF Post, PostNull, Fail, Continue
  <2>3. CASE refs' = [refs EXCEPT !["to_send"] = 1]
    <3>1. \A o \in Objects : refs'[o] = IF o \in {"to_send", "header", "array"} THEN 1 ELSE 0
      BY <2>1, <2>3, RefsTyped
    <3> QED
      BY <2>2, <3>1, RefsTyped DEF RefsAtEnd, Leftover
  <2>4. CASE refs' \in {refs, Drop({"header", "array"})} /\ error' = Unknown
    <3>1. \A o \in Objects : refs'[o] <= 1 /\ (o \notin {"header", "array"} => refs'[o] = 0)
      BY <2>1, <2>4, RefsTyped DEF Drop
    <3>2. error' # NoError
      BY <2>4 DEF Unknown, NoError
    <3> QED
      BY <2>2, <3>1, <3>2, RefsTyped DEF RefsAtEnd, Leftover
  <2> QED
    BY <1>7, <2>3, <2>4 DEF Post, PostNull, Fail
<1>8. CASE Answered \/ Result
  <2>1. /\ UNCHANGED <<refs, attached>> /\ pc \in {"requested", "unsent", "answered"}
        /\ pc' \in {"answered", "exit"} /\ (error' = NoError => error = NoError)
    BY <1>8 DEF Answered, Result, Fail, Continue, report, Unknown, NoError
  <2> QED
    BY <2>1 DEF IInv, RefsAtEnd, Leftover
<1>9. CASE Return
  <2>1. /\ pc' = "returned" /\ UNCHANGED <<error, attached>>
        /\ refs' = IF refs["to_send"] > 0 THEN Drop({"to_send", "header", "array"}) ELSE refs
    BY <1>9 DEF Return, Continue, report
  <2>2. /\ refs["to_send"] > 0 =>
             \A o \in Objects : refs[o] = IF o \in {"to_send", "header", "array"} THEN 1 ELSE 0
        /\ error = NoError => refs["to_send"] > 0
        /\ Leftover
    BY <1>9 DEF Return, IInv, RefsAtEnd
  <2>3. CASE refs["to_send"] > 0
    <3>1. \A o \in Objects : refs'[o] = 0
      BY <2>1, <2>2, <2>3, RefsTyped DEF Drop
    <3> QED
      BY <2>1, <3>1, RefsTyped DEF RefsAtEnd, Leftover
  <2>4. CASE ~(refs["to_send"] > 0)
    <3>1. refs' = refs /\ refs["to_send"] = 0 /\ error # NoError
      BY <2>1, <2>2, <2>4, RefsTyped
    <3> QED
      BY <2>1, <2>2, <3>1 DEF RefsAtEnd, Leftover
  <2> QED
    BY <2>3, <2>4
<1>10. CASE UNCHANGED vars
  BY <1>10 DEF vars, IInv, RefsAtEnd, Leftover
<1> QED
  BY <1>1, <1>2, <1>3, <1>4, <1>5, <1>6, <1>7, <1>8, <1>9, <1>10 DEF Next

-----------------------------------------------------------------------------
(* What is sent.                                                            *)

LEMMA ArrayStep ==
  ASSUME IInv, [Next]_vars
  PROVE  ArrayContents'
<1>1. CASE Enter
  BY <1>1 DEF Enter, ArrayContents
<1>2. CASE AppendReport
  <2> DEFINE e == [wanted |-> wanted, sent |-> Sent]
  <2>1. /\ pc \in Encoding /\ array' = Append(array, e) /\ kinds' = kinds
    BY <1>2 DEF AppendReport, call, Encoding
  <2>2. array \in Seq(Contents) /\ Len(array) \in Nat
    BY DEF IInv, TypeOK
  <2>3. DOMAIN Sent = ListNames(Kind) \cap wanted /\ \A l \in DOMAIN Sent : Sent[l] = l
    <3>1. /\ attached \subseteq {ListsOf[Kind][j] : j \in 1 .. k - 1}
          /\ \A j \in 1 .. k - 1 : ListsOf[Kind][j] \in wanted => ListsOf[Kind][j] \in attached
          /\ k - 1 = Len(ListsOf[Kind])
      BY <1>2, <2>1, AtHand DEF IInv, ListsByStage, AppendReport
    <3>2. DOMAIN ListsOf[Kind] = 1 .. k - 1
      BY <2>1, <3>1, AtHand, ListsOfKinds
    <3> QED
      BY <2>1, <3>1, <3>2, SentIsTyped DEF ListNames
  <2>4. e.wanted = wanted /\ e.sent = Sent
    OBVIOUS
  <2> HIDE DEF e
  <2>5. /\ \A j \in 1 .. Len(array) : array'[j] = array[j]
        /\ array'[Len(array) + 1] = e
        /\ DOMAIN array' = 1 .. Len(array) + 1 /\ DOMAIN array = 1 .. Len(array)
    BY <2>1, <2>2
  <2>6. ASSUME NEW j \in DOMAIN array'
        PROVE  /\ DOMAIN array'[j].sent = ListNames(kinds'[j]) \cap array'[j].wanted
               /\ \A l \in DOMAIN array'[j].sent : array'[j].sent[l] = l
    <3>1. CASE j = Len(array) + 1
      BY <2>1, <2>3, <2>4, <2>5, <3>1 DEF Kind
    <3>2. CASE j # Len(array) + 1
      <4>1. j \in 1 .. Len(array)
        BY <2>2, <2>5, <3>2
      <4> QED
        BY <2>1, <2>5, <4>1 DEF IInv, ArrayContents
    <3> QED
      BY <3>1, <3>2
  <2> QED
    BY <2>6 DEF ArrayContents, ListNames
<1>3. CASE UNCHANGED <<array, kinds>>
  BY <1>3 DEF IInv, ArrayContents, ListNames
<1>4. ASSUME ~Enter, ~AppendReport PROVE UNCHANGED <<array, kinds>>
  BY <1>4 DEF Next, vars, Refused, Prepare, Unsupported, NewReport, SetFields, NewList, Value,
              BadValue, Attach, ListFails, Release, AppendFails, Post, PostNull, Answered, Result,
              Return, call
<1> QED
  BY <1>1, <1>2, <1>3, <1>4

LEMMA FirstStep ==
  ASSUME IInv, [Next]_vars
  PROVE  FirstValueWins'
<1>1. CASE NewList
  BY <1>1 DEF NewList, FirstValueWins
<1>2. CASE Value
  <2> DEFINE v == values[at]
  <2>1. /\ error' = error /\ values' = values /\ at' = at + 1 /\ pc = "value"
        /\ object' = Merged(v)
    BY <1>2 DEF Value
  <2>2. at \in Nat \ {0} /\ at' - 1 = at
    BY <2>1 DEF IInv, TypeOK
  <2>3. SUFFICES ASSUME error = NoError
                 PROVE  /\ DOMAIN object' = {values[j] : j \in 1 .. at}
                        /\ \A n \in DOMAIN object' :
                             values[object'[n]] = n /\ \A j \in 1 .. object'[n] - 1 : values[j] # n
    BY <2>1, <2>2 DEF FirstValueWins
  <2>4. /\ DOMAIN object = {values[j] : j \in 1 .. at - 1}
        /\ \A n \in DOMAIN object :
             values[object[n]] = n /\ \A j \in 1 .. object[n] - 1 : values[j] # n
    BY <2>1, <2>3 DEF IInv, FirstValueWins
  <2>5. /\ DOMAIN object' = DOMAIN object \cup {v}
        /\ \A n \in DOMAIN object' : object'[n] = IF n \in DOMAIN object THEN object[n] ELSE at
    BY <2>1 DEF Merged
  <2>6. 1 .. at = (1 .. at - 1) \cup {at}
    BY <2>2
  <2>7. DOMAIN object' = {values[j] : j \in 1 .. at}
    BY <2>4, <2>5, <2>6
  <2>8. ASSUME NEW n \in DOMAIN object'
        PROVE  values[object'[n]] = n /\ \A j \in 1 .. object'[n] - 1 : values[j] # n
    <3>1. CASE n \in DOMAIN object
      BY <2>4, <2>5, <3>1
    <3>2. CASE n \notin DOMAIN object
      BY <2>4, <2>5, <3>2
    <3> QED
      BY <3>1, <3>2
  <2> QED
    BY <2>7, <2>8
<1>3. CASE BadValue
  BY <1>3 DEF BadValue, Fail, Unknown, NoError, FirstValueWins
<1>4. CASE UNCHANGED vars
  BY <1>4 DEF vars, IInv, FirstValueWins
<1>5. ASSUME ~NewList, ~Value, ~BadValue, Next PROVE pc' # "value"
  BY <1>5 DEF Next, Enter, Refused, Prepare, Unsupported, NewReport, SetFields, Attach, ListFails,
              Release, AppendReport, AppendFails, Post, PostNull, Answered, Result, Return, Fail,
              Continue
<1> QED
  BY <1>1, <1>2, <1>3, <1>4, <1>5 DEF FirstValueWins

-----------------------------------------------------------------------------
(* The inductive invariant: at each point of the call, who holds what and    *)
(* what has been done.                                                      *)
THEOREM Inductive == Spec => []IInv
<1>1. IInv /\ [Next]_vars => IInv'
  BY TypeStep, CountStep, ErrorStep, ListsStep, OutsideStep, OfListsStep, AtEndStep, ArrayStep,
     FirstStep DEF IInv
<1> QED
  BY <1>1, InitIInv, PTL DEF Spec

(* Every variable of a gaus_report call keeps its type.                     *)
THEOREM TypeCorrect == Spec => []TypeOK
<1>1. IInv => TypeOK
  BY DEF IInv
<1> QED
  BY <1>1, Inductive, PTL

(* json_object_update_missing: the first of the values with one name is sent, *)
(* however many values a list has.                                          *)
THEOREM FirstWins == Spec => []FirstValueWins
<1>1. IInv => FirstValueWins
  BY DEF IInv
<1> QED
  BY <1>1, Inductive, PTL

(* Once gaus_create_error was called, gaus_report does not return NULL,      *)
(* whatever the encoders do after it, and also when the error was met only   *)
(* before a body of NULL which the exchange failed to send.                  *)
THEOREM ErrorsKept == Spec => []NoErrorSwallowed
<1>1. IInv => NoErrorSwallowed
  BY DEF IInv, ErrorByStage
<1> QED
  BY <1>1, Inductive, PTL

(* No JSON object is freed too early, and what is left behind is bounded, for *)
(* any number of reports.                                                   *)
THEOREM Balanced == Spec => []ReferencesBalance
<1>1. IInv => ReferencesBalance
  <2> SUFFICES ASSUME IInv PROVE ReferencesBalance
    OBVIOUS
  <2>1. pc = "append" => \A o \in Lists \cup {"report"} :
          refs[o] = IF o \in attached \cup {"report"} THEN 1 ELSE 0
    BY RefsTyped DEF IInv, RefsOutside, RefsOfLists, Encoding
  <2>2. refs["to_send"] > 0 => \A o \in Objects :
          refs[o] = IF o \in {"to_send", "header", "array"} THEN 1 ELSE 0
    <3>1. refs["to_send"] > 0 => pc \in {"requested", "unsent", "crashed", "answered", "exit"}
      <4>1. pc \in {"idle", "guards", "report", "returned"} \cup Encoding => refs["to_send"] = 0
        BY RefsTyped DEF IInv, RefsOutside, RefsAtEnd
      <4> QED
        BY <4>1 DEF IInv, TypeOK, Encoding
    <3> QED
      BY <3>1 DEF IInv, RefsAtEnd
  <2>3. pc = "returned" /\ error = NoError => \A o \in Objects : refs[o] = 0
    BY DEF IInv, RefsAtEnd
  <2>4. pc = "returned" =>
          /\ refs["to_send"] = 0
          /\ \A o \in Objects : refs[o] <= 1
          /\ \A l \in Lists : refs[l] > 0 => l \in attached /\ refs["report"] = 1
    BY DEF IInv, RefsAtEnd, Leftover
  <2> QED
    BY <2>1, <2>2, <2>3, <2>4 DEF ReferencesBalance
<1> QED
  BY <1>1, Inductive, PTL

(* NULL means that the server has accepted every report with every list the   *)
(* library encodes.                                                         *)
THEOREM Accepted == Spec => []SuccessMeansAccepted
<1>1. IInv => SuccessMeansAccepted
  <2> SUFFICES ASSUME IInv, pc = "returned", error = NoError PROVE SuccessMeansAccepted
    BY DEF SuccessMeansAccepted
  <2>1. answer.code = 200 /\ Len(array) = Len(kinds)
    BY DEF IInv, ErrorByStage, AllAppended, TypeOK
  <2>2. \A j \in DOMAIN array : DOMAIN array[j].sent =
          {ListsOf[kinds[j]][l] : l \in DOMAIN ListsOf[kinds[j]]} \cap array[j].wanted
    BY DEF IInv, ArrayContents, ListNames
  <2> QED
    BY <2>1, <2>2 DEF SuccessMeansAccepted
<1> QED
  BY <1>1, Inductive, PTL

(* Reading a generic report through the struct of an update status finds each *)
(* list in its place.                                                       *)
THEOREM OwnNames == Spec => []SentUnderOwnName
<1>1. IInv => SentUnderOwnName
  BY DEF IInv, ArrayContents, SentUnderOwnName
<1> QED
  BY <1>1, Inductive, PTL

(* gaus_report keeps the promises of an entry point: one exchange at most, and *)
(* a result that follows from how it ended.                                 *)
THEOREM Implements == Spec => ImplementsEntryPoint
<1>1. Init => Contract!Init
  BY DEF Init, Contract!Init, Contract!Exch!Init, Exch!Init, Stage, Outcome,
         NoError, Contract!NoError, Exch!Preset, Exch!OK, Exch!NoBody, Exch!Answers,
         Contract!Exch!Preset, Contract!Exch!OK, Contract!Exch!NoBody, Contract!Exch!Answers
<1>2. IInv /\ [Next]_vars => [Contract!Next]_(Contract!evars)
  <2> SUFFICES ASSUME IInv, [Next]_vars
               PROVE  Contract!Next \/ UNCHANGED Contract!evars
    OBVIOUS
  <2>0. /\ Len(array) \in Nat /\ Len(kinds) \in Nat
        /\ pc \in Encoding \cup {"guards"} => ~AllAppended
    BY DEF IInv, TypeOK, CountByStage, AllAppended
  <2>1. CASE Enter
    <3>1. UNCHANGED exchange /\ Stage' = "entered" /\ Outcome' = Contract!NoError
      BY <2>1 DEF Enter, exchange, Stage, Outcome, NoError, Contract!NoError
    <3>2. CASE pc \in {"idle", "returned"}
      BY <3>1, <3>2 DEF exchange, Contract!Enter, Contract!Next, Contract!exchange, Stage
    <3>3. CASE pc = "crashed"
      BY <3>1, <3>3 DEF exchange, Contract!evars, Stage, Outcome, NoError, Contract!NoError
    <3> QED
      BY <2>1, <3>2, <3>3 DEF Enter
  <2>2. CASE Refused \/ Prepare \/ Unsupported \/ NewReport \/ SetFields \/ NewList \/ Value
             \/ BadValue \/ Attach \/ ListFails \/ Release \/ AppendReport \/ AppendFails
    <3> DEFINE early == Encoding \cup {"guards", "report"}
    <3>1. UNCHANGED exchange /\ pc \in early
      BY <2>2 DEF Refused, Prepare, Unsupported, NewReport, SetFields, NewList, Value, BadValue,
                  Attach, ListFails, Release, AppendReport, AppendFails, Encoding
    <3>2. pc' \in early \/ (pc' = "exit" /\ ~AllAppended')
      BY <2>0, <2>2
      DEF Refused, Prepare, Unsupported, NewReport, SetFields, NewList, Value, BadValue, Attach,
          ListFails, Release, AppendReport, AppendFails, Fail, Continue, Encoding, AllAppended,
          call
    <3>3. Stage = "entered" /\ Stage' = "entered" /\ Outcome' = Outcome
      BY <3>1, <3>2 DEF Stage, Outcome, Encoding
    <3> QED
      BY <3>1, <3>3 DEF Contract!evars, exchange
  <2>3. CASE Post \/ (PostNull /\ pc' = "unsent")
    <3>1. Contract!Exch!Call /\ Stage = "entered" /\ Stage' = "asking" /\ Outcome' = Outcome
      BY <2>3 DEF Post, PostNull, Fail, Continue, Stage, Outcome, Exch!Call, Contract!Exch!Call,
                  Exch!Preset, Exch!OK, Exch!NoBody, Exch!Answers, Contract!Exch!Preset,
                  Contract!Exch!OK, Contract!Exch!NoBody, Contract!Exch!Answers
    <3> QED
      BY <3>1 DEF Contract!Ask, Contract!Next
  <2>8. CASE PostNull /\ pc' # "unsent"
    <3>1. UNCHANGED exchange /\ pc = "report" /\ pc' = "crashed"
      BY <2>8 DEF PostNull, Fail, Continue
    <3> QED
      BY <3>1 DEF Contract!evars, exchange, Stage, Outcome
  <2>4. CASE Answered
    <3>1. /\ Contract!Exch!Deliver \/ Contract!Exch!Refuse \/ Contract!Exch!GiveUp
          /\ Stage = "asking" /\ Stage' = "answered" /\ Outcome' = Outcome
      BY <2>4 DEF Answered, Continue, Stage, Outcome, Exch!Deliver, Exch!Refuse, Exch!GiveUp,
                  Exch!OK, Exch!NoBody, Contract!Exch!Deliver, Contract!Exch!Refuse,
                  Contract!Exch!GiveUp, Contract!Exch!OK, Contract!Exch!NoBody
    <3> QED
      BY <3>1 DEF Contract!Answered, Contract!Next
  <2>5. CASE Result
    <3>1. UNCHANGED exchange /\ pc = "answered" /\ pc' = "exit" /\ AllAppended'
      BY <2>0, <2>5 DEF Result, Fail, Continue, call, IInv, CountByStage, AllAppended
    <3> QED
      BY <3>1 DEF Contract!evars, exchange, Stage, Outcome
  <2>6. CASE Return
    <3>1. /\ UNCHANGED exchange /\ pc = "exit" /\ Stage' = "returned" /\ Outcome' = error
          /\ error \in IF AllAppended THEN Contract!Outcomes ELSE Contract!Refusals
      BY <2>6 DEF Return, Continue, Stage, Outcome, IInv, ErrorByStage
    <3>2. CASE AllAppended
      BY <3>1, <3>2 DEF Stage, exchange, Contract!ReturnAnswered, Contract!Next, Contract!exchange
    <3>3. CASE ~AllAppended
      BY <3>1, <3>3 DEF Stage, exchange, Contract!ReturnUnasked, Contract!Next, Contract!exchange
    <3> QED
      BY <3>2, <3>3
  <2>7. CASE UNCHANGED vars
    BY <2>7 DEF vars, Contract!evars, Stage, Outcome, AllAppended
  <2> QED
    BY <2>1, <2>2, <2>3, <2>4, <2>5, <2>6, <2>7, <2>8 DEF Next
<1> QED
  BY <1>1, <1>2, Inductive, PTL DEF Spec, ImplementsEntryPoint, Contract!Spec
-----------------------------------------------------------------------------
(* An error of the server is that of this call.                             *)
CauseAtEnd ==
  pc \in {"exit", "returned"} /\ error.type = "HTTP_ERROR" =>
    error.code = answer.code /\ answer.code >= 400

LEMMA CauseStep ==
  ASSUME IInv, CauseAtEnd, [Next]_vars
  PROVE  CauseAtEnd'
<1> USE DEF CauseAtEnd
<1>1. CASE pc' \notin {"exit", "returned"}
  BY <1>1
<1>2. CASE Refused \/ (Prepare /\ pc' = "exit") \/ Unsupported
           \/ (NewReport /\ pc' = "exit") \/ AppendFails
  BY <1>2 DEF Refused, Prepare, Unsupported, NewReport, AppendFails, Fail, Continue, Unknown
<1>3. CASE Release /\ pc' = "exit"
  BY <1>3 DEF Release, IInv, ErrorByStage, Unknown, NoError
<1>4. CASE Result
  <2>1. CASE Fail("exit")
    BY <2>1 DEF Fail, Unknown
  <2>2. CASE error' = [type |-> "HTTP_ERROR", code |-> status]
    <3>1. /\ pc = "answered" /\ answer' = answer /\ 200 \in Nat
          /\ status >= 400
      BY <1>4, <2>2 DEF Result, HttpError, exchange, Fail, Continue, Unknown, IInv, ErrorByStage,
                        NoError
    <3>2. status = answer.code
      BY <3>1 DEF IInv, ErrorByStage
    <3> QED
      BY <2>2, <3>1, <3>2
  <2>3. CASE UNCHANGED error
    BY <1>4, <2>3 DEF Result, IInv, ErrorByStage, NoError, Unknown
  <2> QED
    BY <1>4, <2>1, <2>2, <2>3 DEF Result, Continue
<1>5. CASE Return
  BY <1>5 DEF Return, Continue, exchange
<1>6. CASE UNCHANGED vars
  BY <1>6 DEF vars
<1> QED
  BY <1>1, <1>2, <1>3, <1>4, <1>5, <1>6
     DEF Next, Enter, Prepare, NewReport, SetFields, NewList, Value, BadValue, Attach, ListFails,
         Release, AppendReport, Post, PostNull, Answered, Fail, Continue

(***************************************************************************)
(* HTTP_ERROR has the code with which the server has answered this very call, *)
(* never that of an earlier one or one made up for a call that was refused, a *)
(* report that was not encoded or a body that was not sent; NULL means that  *)
(* the answer to this call was 200.                                         *)
(***************************************************************************)
THEOREM NamedCause == Spec => []Contract!ErrorNamesItsCause
<1>1. Init => CauseAtEnd
  BY DEF Init, CauseAtEnd
<1>2. IInv /\ CauseAtEnd => Contract!ErrorNamesItsCause
  <2> SUFFICES ASSUME IInv, CauseAtEnd, Stage = "returned"
               PROVE  /\ Outcome.type = "HTTP_ERROR" =>
                           Outcome.code = answer.code /\ answer.code >= 400
                      /\ Outcome = Contract!NoError => answer.code = 200
    BY DEF Contract!ErrorNamesItsCause
  <2>1. pc = "returned" /\ Outcome = error
    BY DEF Stage, Outcome
  <2> QED
    BY <2>1 DEF CauseAtEnd, IInv, ErrorByStage, NoError, Contract!NoError
<1> QED
  BY <1>1, <1>2, CauseStep, Inductive, PTL DEF Spec
-----------------------------------------------------------------------------
(* Steps that one list takes at most: one to start it, one for each value    *)
(* and one to set it; and those of a report, with three lists.              *)
PerList == MaxValues + 2
PerReport == 3 * PerList + 4

ReportsLeft == (Len(kinds) - Len(array)) * PerReport
ListsDone == (k - 1) * PerList

(* Steps that a call has left, at most.                                     *)
StepsLeft ==
  CASE pc = "guards" -> ReportsLeft + 5
    [] pc = "report" -> ReportsLeft + 4
    [] pc = "fields" -> ReportsLeft + 3
    [] pc = "list" -> ReportsLeft - ListsDone + 2
    [] pc = "value" -> ReportsLeft - ListsDone - PerList + (Len(values) - at) + 4
    [] pc = "release" -> ReportsLeft - PerReport + 6
    [] pc = "append" -> ReportsLeft - PerReport + 5
    [] pc \in {"requested", "unsent"} -> 3
    [] pc = "answered" -> 2
    [] pc = "exit" -> 1
    [] OTHER -> 0

(***************************************************************************)
(* The encoders go on after an error: still every step, in the loops over    *)
(* reports, lists and values too, brings the call nearer to its end, which   *)
(* is its return or the crash on a body of NULL.                             *)
(***************************************************************************)
CallIsBounded ==
  [][pc \notin {"idle", "returned", "crashed"} => StepsLeft' < StepsLeft]_vars

LEMMA Multiples ==
  ASSUME NEW w \in Nat
  PROVE  /\ \A n \in Int : (n - 1) * w + w = n * w
         /\ \A n \in Nat : n * w \in Nat
         /\ 1 * w = w /\ 2 * w = w + w /\ 3 * w = w + w + w /\ 0 * w = 0
<1>1. \A n \in Int : (n - 1) * w + w = n * w
  OBVIOUS
<1>2. \A n \in Nat : n * w \in Nat
  OBVIOUS
<1> QED
  BY <1>1, <1>2

LEMMA Sizing ==
  /\ PerList \in Nat /\ PerList = MaxValues + 2
  /\ PerReport \in Nat /\ PerReport = 3 * PerList + 4
  /\ PerList' = PerList /\ PerReport' = PerReport
<1>1. PerList \in Nat /\ PerList = MaxValues + 2
  BY DEF PerList
<1> QED
  BY <1>1 DEF PerReport, PerList

(* The report at hand is among those that are left, and the list at hand     *)
(* among its lists.                                                         *)
LEMMA ReportsInRange ==
  ASSUME IInv
  PROVE  /\ ReportsLeft \in Nat
         /\ pc \in Encoding => ReportsLeft >= PerReport
<1>1. Len(kinds) \in Nat /\ Len(array) \in Nat /\ Len(array) <= Len(kinds)
  BY DEF IInv, TypeOK
<1> DEFINE n == Len(kinds) - Len(array)
<1>2. n \in Nat /\ n \in Int /\ (pc \in Encoding => n - 1 \in Nat)
  BY <1>1 DEF IInv, CountByStage
<1>3. ReportsLeft = n * PerReport
  BY DEF ReportsLeft
<1> HIDE DEF n
<1>4. /\ (n - 1) * PerReport + PerReport = n * PerReport
      /\ n * PerReport \in Nat
      /\ pc \in Encoding => (n - 1) * PerReport \in Nat
  BY <1>2, Sizing, Multiples
<1> QED
  BY <1>3, <1>4, Sizing

LEMMA ListsInRange ==
  ASSUME IInv, pc \in Encoding
  PROVE  /\ ListsDone \in Nat /\ ListsDone <= 3 * PerList
         /\ pc = "fields" => ListsDone = 0
         /\ pc = "value" => ListsDone <= 2 * PerList
<1>1. k \in {1, 2, 3, 4} /\ (pc = "fields" => k = 1) /\ (pc = "value" => k \in {1, 2, 3})
  BY AtHand DEF IInv, TypeOK, ListsByStage
<1>2. PerList \in Nat
  BY Sizing
<1>3. ListsDone \in {0, PerList, 2 * PerList, 3 * PerList}
      /\ (k = 1 => ListsDone = 0)
      /\ (k \in {1, 2, 3} => ListsDone \in {0, PerList, 2 * PerList})
  <2>1. CASE k = 1
    BY <1>2, <2>1, Multiples DEF ListsDone
  <2>2. CASE k = 2
    BY <1>2, <2>2, Multiples DEF ListsDone
  <2>3. CASE k = 3
    BY <1>2, <2>3 DEF ListsDone
  <2>4. CASE k = 4
    BY <1>2, <2>4 DEF ListsDone
  <2> QED
    BY <1>1, <2>1, <2>2, <2>3, <2>4
<1> QED
  BY <1>1, <1>2, <1>3

LEMMA ValuesInRange ==
  ASSUME IInv
  PROVE  Len(values) \in 0 .. MaxValues /\ at \in 1 .. MaxValues + 1
  BY ValuesAreLists DEF IInv, TypeOK

(* The cases of StepsLeft, before and after a step.                         *)
LEMMA StepsByStage ==
  /\ pc = "guards" => StepsLeft = ReportsLeft + 5
  /\ pc = "report" => StepsLeft = ReportsLeft + 4
  /\ pc = "fields" => StepsLeft = ReportsLeft + 3
  /\ pc = "list" => StepsLeft = ReportsLeft - ListsDone + 2
  /\ pc = "value" => StepsLeft = ReportsLeft - ListsDone - PerList + (Len(values) - at) + 4
  /\ pc = "release" => StepsLeft = ReportsLeft - PerReport + 6
  /\ pc = "append" => StepsLeft = ReportsLeft - PerReport + 5
  /\ pc \in {"requested", "unsent"} => StepsLeft = 3
  /\ pc = "answered" => StepsLeft = 2
  /\ pc = "exit" => StepsLeft = 1
  /\ pc \in {"idle", "returned", "crashed"} => StepsLeft = 0
  BY DEF StepsLeft

LEMMA StepsByStageAfter ==
  /\ pc' = "report" => StepsLeft' = ReportsLeft' + 4
  /\ pc' = "fields" => StepsLeft' = ReportsLeft' + 3
  /\ pc' = "list" => StepsLeft' = ReportsLeft' - ListsDone' + 2
  /\ pc' = "value" =>
       StepsLeft' = ReportsLeft' - ListsDone' - PerList + (Len(values') - at') + 4
  /\ pc' = "release" => StepsLeft' = ReportsLeft' - PerReport + 6
  /\ pc' = "append" => StepsLeft' = ReportsLeft' - PerReport + 5
  /\ pc' \in {"requested", "unsent"} => StepsLeft' = 3
  /\ pc' = "answered" => StepsLeft' = 2
  /\ pc' = "exit" => StepsLeft' = 1
  /\ pc' \in {"returned", "crashed"} => StepsLeft' = 0
  BY Sizing DEF StepsLeft

(* No list is read past its end.                                            *)
WithinList == pc = "value" => at <= Len(values) + 1

LEMMA WithinListStep ==
  ASSUME IInv, WithinList, [Next]_vars
  PROVE  WithinList'
<1>1. CASE NewList
  <2>1. values' \in Values \cup {<<>>} /\ at' = 1
    BY <1>1 DEF NewList
  <2>2. Len(values') \in 0 .. MaxValues
    BY <2>1, ValuesAreLists
  <2> QED
    BY <2>1, <2>2 DEF WithinList
<1>2. CASE Value \/ BadValue
  BY <1>2, ValuesInRange DEF Value, BadValue, Fail, WithinList
<1>3. CASE UNCHANGED vars
  BY <1>3 DEF vars, WithinList
<1>4. CASE pc' # "value"
  BY <1>4 DEF WithinList
<1> QED
  BY <1>1, <1>2, <1>3, <1>4
     DEF Next, Enter, Refused, Prepare, Unsupported, NewReport, SetFields, Attach, ListFails,
         Release, AppendReport, AppendFails, Post, PostNull, Answered, Result, Return, Fail,
         Continue

LEMMA StepsInRange ==
  ASSUME IInv, WithinList
  PROVE  StepsLeft \in 0 .. Len(kinds) * PerReport + 5
<1>1. /\ ReportsLeft \in Nat /\ PerReport \in Nat /\ PerList \in Nat
      /\ PerReport = 3 * PerList + 4 /\ PerList = MaxValues + 2
  BY ReportsInRange, Sizing
<1>2. ReportsLeft <= Len(kinds) * PerReport /\ Len(kinds) * PerReport \in Nat
  <2> DEFINE given == Len(kinds)
             appended == Len(array)
  <2>1. given \in Nat /\ appended \in Nat
    BY DEF IInv, TypeOK
  <2>2. ReportsLeft = (given - appended) * PerReport
    BY DEF ReportsLeft
  <2> HIDE DEF given, appended
  <2>3. (given - appended) * PerReport = given * PerReport - appended * PerReport
    BY <1>1, <2>1
  <2>4. given * PerReport \in Nat /\ appended * PerReport \in Nat
    BY <1>1, <2>1
  <2>5. ReportsLeft <= given * PerReport
    BY <2>2, <2>3, <2>4
  <2> QED
    BY <2>4, <2>5 DEF given
<1> DEFINE all == Len(kinds) * PerReport
<1>3. all \in Nat /\ ReportsLeft <= all
  BY <1>2
<1> HIDE DEF all
<1>4. StepsLeft \in Nat /\ StepsLeft <= all + 5
  <2>1. CASE pc \in Encoding
    <3>1. /\ ReportsLeft >= PerReport /\ ListsDone \in Nat /\ ListsDone <= 3 * PerList
          /\ pc = "value" => ListsDone <= 2 * PerList
      BY <2>1, ReportsInRange, ListsInRange
    <3> DEFINE long == Len(values)
    <3>2. /\ long \in 0 .. MaxValues /\ at \in 1 .. MaxValues + 1
          /\ pc = "value" => at <= long + 1
      BY ValuesInRange DEF WithinList
    <3>3. pc = "value" =>
            StepsLeft = ReportsLeft - ListsDone - PerList + (long - at) + 4
      BY StepsByStage
    <3> HIDE DEF long
    <3>4. CASE pc = "value"
      BY <1>1, <1>3, <3>1, <3>2, <3>3, <3>4
    <3>5. CASE pc # "value"
      BY <1>1, <1>3, <2>1, <3>1, <3>5, StepsByStage DEF Encoding
    <3> QED
      BY <3>4, <3>5
  <2>2. CASE pc \notin Encoding
    BY <1>1, <1>3, <2>2, StepsByStage DEF Encoding, IInv, TypeOK
  <2> QED
    BY <2>1, <2>2
<1> QED
  BY <1>3, <1>4 DEF all

LEMMA FewerSteps ==
  ASSUME IInv, WithinList, Next, pc \notin {"idle", "returned", "crashed"}
  PROVE  StepsLeft' < StepsLeft
<1>1. /\ ReportsLeft \in Nat /\ PerReport \in Nat /\ PerList \in Nat
      /\ PerReport = 3 * PerList + 4 /\ PerList = MaxValues + 2
  BY ReportsInRange, Sizing
<1>2. pc \in Encoding =>
        /\ ReportsLeft >= PerReport /\ ListsDone \in Nat /\ ListsDone <= 3 * PerList
        /\ pc = "fields" => ListsDone = 0
        /\ pc = "value" => ListsDone <= 2 * PerList
  BY ReportsInRange, ListsInRange
<1> DEFINE room == Len(values) - at
<1>3. /\ room \in Int /\ room >= -1 - MaxValues
      /\ pc = "value" => StepsLeft = ReportsLeft - ListsDone - PerList + room + 4
  BY ValuesInRange, StepsByStage
<1>4. UNCHANGED <<array, kinds>> => ReportsLeft' = ReportsLeft
  BY Sizing DEF ReportsLeft
<1>5. UNCHANGED k => ListsDone' = ListsDone
  BY Sizing DEF ListsDone
<1>6. CASE Refused \/ Unsupported \/ AppendFails \/ Result \/ Return
           \/ (Prepare /\ pc' = "exit") \/ (NewReport /\ pc' = "exit")
           \/ (Release /\ pc' = "exit")
  <2>1. pc' \in {"exit", "returned"} /\ (pc' = "returned" => pc = "exit")
        /\ pc \in {"guards", "report", "list", "release", "append", "answered", "exit"}
        /\ (pc = "exit" => pc' = "returned")
    BY <1>6 DEF Refused, Unsupported, AppendFails, Result, Return, Release, Prepare, NewReport,
                Fail, Continue
  <2>2. StepsLeft' = IF pc' = "exit" THEN 1 ELSE 0
    BY <2>1, StepsByStageAfter
  <2>3. StepsLeft \in Int /\ (pc # "exit" => StepsLeft > 1) /\ (pc = "exit" => StepsLeft = 1)
    BY <1>1, <1>2, <2>1, StepsByStage DEF Encoding
  <2> QED
    BY <2>1, <2>2, <2>3
<1>7. CASE (Prepare /\ pc' # "exit") \/ (NewReport /\ pc' # "exit") \/ Post \/ PostNull
           \/ Answered
  <2>1. UNCHANGED <<array, kinds>>
        /\ \/ pc = "guards" /\ pc' = "report"
           \/ pc = "report" /\ pc' \in {"fields", "requested", "unsent", "crashed"}
           \/ pc \in {"requested", "unsent"} /\ pc' = "answered"
    BY <1>7 DEF Prepare, NewReport, Post, PostNull, Answered, Fail, Continue, call
  <2> QED
    BY <1>1, <1>4, <2>1, StepsByStage, StepsByStageAfter
<1>8. CASE SetFields
  <2>1. UNCHANGED <<array, kinds, k>> /\ pc = "fields" /\ pc' \in {"list", "release"}
    BY <1>8 DEF SetFields, Fail, Continue, call, report
  <2> QED
    BY <1>1, <1>2, <1>4, <1>5, <2>1, StepsByStage, StepsByStageAfter DEF Encoding
<1>9. CASE NewList
  <2>1. UNCHANGED <<array, kinds, k>> /\ pc = "list" /\ pc' = "value" /\ at' = 1
        /\ values' \in Values \cup {<<>>}
    BY <1>9 DEF NewList, call, report
  <2> DEFINE long == Len(values')
  <2>2. long \in 0 .. MaxValues
    BY <2>1, ValuesAreLists
  <2>3. StepsLeft' = ReportsLeft' - ListsDone' - PerList + (long - 1) + 4
    BY <2>1, StepsByStageAfter
  <2>4. StepsLeft = ReportsLeft - ListsDone + 2
    BY <2>1, StepsByStage
  <2>5. ReportsLeft' = ReportsLeft /\ ListsDone' = ListsDone /\ ListsDone \in Nat
    BY <1>2, <1>4, <1>5, <2>1 DEF Encoding
  <2> HIDE DEF long
  <2> QED
    BY <1>1, <2>2, <2>3, <2>4, <2>5
<1>10. CASE Value \/ BadValue
  <2>1. UNCHANGED <<array, kinds, k, values>> /\ pc = "value" /\ pc' = "value" /\ at' = at + 1
    BY <1>10 DEF Value, BadValue, Fail, call, report
  <2>2. StepsLeft' = ReportsLeft' - ListsDone' - PerList + (Len(values') - at') + 4
    BY <2>1, StepsByStageAfter
  <2>3. Len(values') - at' = room - 1
    BY <2>1, ValuesInRange
  <2>4. ReportsLeft' = ReportsLeft /\ ListsDone' = ListsDone /\ ListsDone \in Nat
    BY <1>2, <1>4, <1>5, <2>1 DEF Encoding
  <2>5. StepsLeft' = ReportsLeft - ListsDone - PerList + (room - 1) + 4
    BY <2>2, <2>3, <2>4
  <2> HIDE DEF room
  <2> QED
    BY <1>1, <1>3, <2>1, <2>4, <2>5
<1>11. CASE Attach \/ ListFails
  <2>1. /\ UNCHANGED <<array, kinds>> /\ pc = "value" /\ at > Len(values)
        /\ \/ pc' = "list" /\ k' = k + 1
           \/ pc' = "release"
    BY <1>11 DEF Attach, ListFails, Fail, Continue, call, report
  <2>2. room = -1
    BY <2>1, ValuesInRange DEF WithinList
  <2>3. ReportsLeft' = ReportsLeft /\ ListsDone \in Nat /\ ListsDone <= 2 * PerList
        /\ ReportsLeft >= PerReport
    BY <1>2, <1>4, <2>1 DEF Encoding
  <2>4. StepsLeft = ReportsLeft - ListsDone - PerList + 3
    BY <1>1, <1>3, <2>1, <2>2, <2>3
  <2>5. CASE pc' = "release"
    BY <1>1, <2>3, <2>4, <2>5, StepsByStageAfter
  <2>6. CASE pc' = "list" /\ k' = k + 1
    <3>1. ListsDone' = k * PerList /\ ListsDone = (k - 1) * PerList /\ k \in Int
      BY <2>6, Sizing DEF ListsDone, IInv, TypeOK
    <3>2. ListsDone' = ListsDone + PerList
      BY <1>1, <3>1, Multiples
    <3> QED
      BY <1>1, <2>3, <2>4, <2>6, <3>2, StepsByStageAfter
  <2> QED
    BY <2>1, <2>5, <2>6
<1>12. CASE Release /\ pc' # "exit"
  <2>1. UNCHANGED <<array, kinds>> /\ pc \in {"list", "release"} /\ pc' = "append"
    BY <1>12 DEF Release, call
  <2> QED
    BY <1>1, <1>2, <1>4, <2>1, StepsByStage, StepsByStageAfter DEF Encoding
<1>13. CASE AppendReport
  <2>1. /\ pc = "append" /\ pc' = "report" /\ kinds' = kinds
        /\ Len(array') = Len(array) + 1 /\ Len(array) \in Nat /\ Len(kinds) \in Nat
    <3>1. array \in Seq(Contents) /\ kinds \in Seq(Kinds)
      BY DEF IInv, TypeOK
    <3> QED
      BY <1>13, <3>1 DEF AppendReport, Continue, call
  <2> DEFINE n == Len(kinds) - Len(array)
  <2>2. n \in Int /\ Len(kinds') - Len(array') = n - 1
    BY <2>1
  <2>3. ReportsLeft = n * PerReport /\ ReportsLeft' = (n - 1) * PerReport
    BY <2>2, Sizing DEF ReportsLeft
  <2> HIDE DEF n
  <2> DEFINE fewer == (n - 1) * PerReport
  <2>4. fewer + PerReport = ReportsLeft /\ fewer \in Int /\ ReportsLeft' = fewer
    BY <1>1, <2>2, <2>3, Multiples
  <2> HIDE DEF fewer
  <2>5. fewer = ReportsLeft - PerReport
    BY <1>1, <2>4
  <2>6. StepsLeft = ReportsLeft - PerReport + 5 /\ StepsLeft' = ReportsLeft - PerReport + 4
    BY <2>1, <2>4, <2>5, StepsByStage, StepsByStageAfter
  <2> HIDE DEF room
  <2> QED
    BY <1>1, <2>6
<1> QED
  BY <1>6, <1>7, <1>8, <1>9, <1>10, <1>11, <1>12, <1>13 DEF Next, Enter

(***************************************************************************)
(* A call makes at most 5 steps, and for each of its reports one for each     *)
(* value, two for each list and four more.                                  *)
(***************************************************************************)
THEOREM Bounded ==
  Spec => [](StepsLeft \in 0 .. Len(kinds) * PerReport + 5) /\ CallIsBounded
<1>1. IInv /\ WithinList => StepsLeft \in 0 .. Len(kinds) * PerReport + 5
  BY StepsInRange
<1>2. IInv /\ WithinList /\ [Next]_vars => [pc \notin {"idle", "returned", "crashed"} => StepsLeft' < StepsLeft]_vars
  BY FewerSteps
<1>3. Init => WithinList
  BY DEF Init, WithinList
<1> QED
  BY <1>1, <1>2, <1>3, WithinListStep, Inductive, PTL DEF Spec, CallIsBounded
=============================================================================
