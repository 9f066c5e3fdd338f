-------------------------------- MODULE Report --------------------------------
(***************************************************************************)
(* gaus_report(): the caller's reports are encoded one by one into JSON      *)
(* objects that pass from hand to hand (list -> report -> array -> body),    *)
(* and the body is posted in one exchange (module Exchange).                *)
(*                                                                         *)
(* refs counts the references to each object as jansson does: an object     *)
(* with no reference is freed, or was never allocated.  Once a report is    *)
(* appended its objects belong to the array, and the names "report" and     *)
(* "v_..." stand for those of the next report.  The failures are those the  *)
(* code tests for: no memory for an object, a name or text that JSON cannot *)
(* encode.  The query string and the URL are the subject of CreateUrl.      *)
(***************************************************************************)
EXTENDS Integers, Sequences

CONSTANTS
  Codes,       \* HTTP status codes a server answers with
  MaxBody,     \* bound: the longest body; longer than 0 is all that matters
  MaxReports,  \* bound: reports of one call
  MaxValues,   \* bound: values of one list
  Names        \* names of values that can be encoded

ASSUME CodesAssumption == Codes \subseteq Nat /\ 200 \in Codes
ASSUME MaxBodyAssumption == MaxBody \in Nat
ASSUME MaxReportsAssumption == MaxReports \in Nat \ {0}
ASSUME MaxValuesAssumption == MaxValues \in Nat

(* The structs of the union, member by member; an array and its count are    *)
(* one member.                                                              *)
CounterLayout == <<"type", "ts", "v_ints", "v_floats", "tags">>
GaugeLayout == <<"type", "ts", "v_ints", "v_floats", "tags">>
GenericLayoutReordered ==  \* a mutated form, which breaks a property
  <<"type", "ts", "v_floats", "v_ints", "v_strings", "tags">>
GenericLayout == <<"type", "ts", "v_ints", "v_floats", "v_strings", "tags">>
UpdateLayout == <<"type", "ts", "v_ints", "v_floats", "v_strings", "tags">>
LayoutOf == [counter |-> CounterLayout, gauge |-> GaugeLayout,
             generic |-> GenericLayout, update |-> UpdateLayout]
Kinds == DOMAIN LayoutOf

(* The lists the library encodes for each type of report; it rejects the     *)
(* other types.                                                             *)
ListsOf == [update |-> <<"v_strings">>, generic |-> <<"v_ints", "v_floats", "v_strings">>]

Lists == {"v_ints", "v_floats", "v_strings"}
Objects == {"header", "array", "to_send", "report"} \cup Lists

(* What a caller can put into a report; a value is its name, or one whose    *)
(* name or text is NULL or no UTF-8.                                        *)
Attributes == Lists \cup {"tags"}
Unencodable == "unencodable"
Values == UNION {[1 .. n -> Names \cup {Unencodable}] : n \in 1 .. MaxValues}

NoError == [type |-> "NULL", code |-> 0]
Unknown == [type |-> "UNKNOWN_ERROR", code |-> 500]

VARIABLES
  pc,
  args,      \* whether the library is set up and the arguments are valid
  kinds,     \* the types of the reports given
  phase, answer, status, body,  \* the exchange
  refs,      \* references to each object
  array,     \* the reports appended: what the caller gave, and what is encoded
  wanted,    \* what the caller gave with the report at hand
  k,         \* position in ListsOf of the list at hand
  attached,  \* lists set in the report at hand
  values,    \* values of the list at hand
  object,    \* its JSON object: for a name, which of the values it has
  at,        \* position in values
  error,     \* the error to return
  failed     \* whether gaus_create_error was called (ghost)

vars == <<pc, args, kinds, phase, answer, status, body, refs, array, wanted, k, attached,
          values, object, at, error, failed>>

Exch == INSTANCE Exchange

exchange == <<phase, answer, status, body>>
call == <<args, kinds>>
report == <<wanted, k, attached>>
list == <<values, object, at>>

Kind == kinds[Len(array) + 1]
ListAtHand == ListsOf[Kind][k]

(* Every access to the union goes by the member update_status, whatever the  *)
(* report is: it finds what the caller's own struct has in the same place.   *)
Found(member) ==
  LayoutOf[Kind][CHOOSE place \in DOMAIN UpdateLayout : UpdateLayout[place] = member]

Fail(to) ==
  /\ error' = Unknown
  /\ failed' = TRUE
  /\ pc' = to

Continue(to) ==
  /\ pc' = to
  /\ UNCHANGED <<error, failed>>

(* json_decref; a NULL object has no reference to drop.                     *)
Drop(set) == [o \in Objects |-> IF o \in set /\ refs[o] > 0 THEN refs[o] - 1 ELSE refs[o]]

(* No list is at hand.                                                      *)
NoList == values' = <<>> /\ object' = <<>> /\ at' = 1

Init ==
  /\ Exch!Init
  /\ pc = "idle"
  /\ args = [initialized |-> FALSE, valid |-> FALSE]
  /\ kinds = <<>>
  /\ refs = [o \in Objects |-> 0]
  /\ array = <<>>
  /\ wanted = {}
  /\ k = 1
  /\ attached = {}
  /\ values = <<>>
  /\ object = <<>>
  /\ at = 1
  /\ error = NoError
  /\ failed = FALSE

(* The report at hand has gone to the array.                                *)
Handed == [o \in Objects |-> IF o \in Lists \cup {"report"} THEN 0 ELSE refs[o]]

-----------------------------------------------------------------------------
(* Mutated forms of definitions below; each one must break a property.      *)

(* json_object_update_missing.                                              *)
Merged(name) ==
  [n \in DOMAIN object \cup {name} |-> IF n \in DOMAIN object THEN object[n] ELSE at]

(* json_object_update instead of json_object_update_missing.                *)
ValueOverwrites ==
  /\ pc = "value"
  /\ at <= Len(values)
  /\ values[at] # Unencodable
  /\ refs[ListAtHand] > 0
  /\ object' = [n \in DOMAIN object \cup {values[at]} |->
                   IF n = values[at] THEN at ELSE object[n]]
  /\ at' = at + 1
  /\ UNCHANGED <<pc, call, exchange, refs, array, report, values, error, failed>>

(* Each value starts with no error.                                         *)
ValueForgetsError ==
  /\ pc = "value"
  /\ at <= Len(values)
  /\ values[at] # Unencodable
  /\ refs[ListAtHand] > 0
  /\ object' = Merged(values[at])
  /\ at' = at + 1
  /\ error' = NoError
  /\ UNCHANGED <<pc, call, exchange, refs, array, report, values, failed>>

(* json_object_set_new: the report takes over the only reference.           *)
AttachKeepsCount ==
  /\ pc = "value"
  /\ at > Len(values)
  /\ error = NoError
  /\ refs[ListAtHand] > 0
  /\ attached' = attached \cup {ListAtHand}
  /\ k' = k + 1
  /\ pc' = "list"
  /\ NoList
  /\ UNCHANGED <<call, exchange, refs, array, wanted, error, failed>>

(* The last report is not encoded.                                          *)
AllButOneAppended == Len(array) + 1 >= Len(kinds)

(* Only the server's own errors are taken for one.                          *)
HttpErrorFrom500 == status >= 500

(* A report that json_array_append_new has not taken is released once more.  *)
AppendFailsReleases ==
  /\ pc = "append"
  /\ refs' = [Handed EXCEPT !["report"] = -1]
  /\ Fail("exit")
  /\ UNCHANGED <<call, exchange, array, report, list>>

-----------------------------------------------------------------------------
(* gaus_report, up to the loop over the reports.                            *)

(* After a crash the call is one of a new process.                          *)
Enter ==
  /\ pc \in {"idle", "returned", "crashed"}
  /\ args' \in [initialized : BOOLEAN, valid : BOOLEAN]
  /\ kinds' \in UNION {[1 .. n -> Kinds] : n \in 1 .. MaxReports}
  /\ refs' = [o \in Objects |-> 0]
  /\ array' = <<>>
  /\ wanted' = {} /\ k' = 1 /\ attached' = {}
  /\ NoList
  /\ error' = NoError
  /\ failed' = FALSE
  /\ pc' = "guards"
  /\ UNCHANGED exchange

Refused ==
  /\ pc = "guards"
  /\ ~(args.initialized /\ args.valid)
  /\ error' = IF args.initialized THEN Unknown ELSE [type |-> "NO_INIT_ERROR", code |-> 500]
  /\ failed' = TRUE
  /\ pc' = "exit"
  /\ UNCHANGED <<call, exchange, refs, array, report, list>>

(* The header, then the array; each may fail.                               *)
Prepare ==
  /\ pc = "guards"
  /\ args.initialized /\ args.valid
  /\ \E made \in {{}, {"header"}, {"header", "array"}} :
       /\ refs' = [o \in Objects |-> IF o \in made THEN 1 ELSE 0]
       /\ IF "array" \in made THEN Continue("report") ELSE Fail("exit")
  /\ UNCHANGED <<call, exchange, array, report, list>>

-----------------------------------------------------------------------------
(* create_json_for_update_status, create_json_for_generic.                  *)

AllAppended == Len(array) >= Len(kinds)

Unsupported ==
  /\ pc = "report"
  /\ ~AllAppended
  /\ Kind \notin DOMAIN ListsOf
  /\ Fail("exit")
  /\ UNCHANGED <<call, exchange, refs, array, report, list>>

NewReport ==
  /\ pc = "report"
  /\ ~AllAppended
  /\ Kind \in DOMAIN ListsOf
  /\ wanted' \in SUBSET Attributes
  /\ k' = 1
  /\ attached' = {}
  /\ \/ refs' = [refs EXCEPT !["report"] = 1] /\ Continue("fields")
     \/ UNCHANGED refs /\ Fail("exit")
  /\ UNCHANGED <<call, exchange, array, list>>

(* Type and time stamp.                                                     *)
SetFields ==
  /\ pc = "fields"
  /\ Continue("list") \/ Fail("release")
  /\ UNCHANGED <<call, exchange, refs, array, report, list>>

(* get_json_for_vints, get_json_for_vfloats, get_json_for_vstrings: the      *)
(* result of json_object() is not tested.                                   *)
NewList ==
  /\ pc = "list"
  /\ k <= Len(ListsOf[Kind])
  /\ values' \in IF Found(ListAtHand) \in wanted THEN Values ELSE {<<>>}
  /\ object' = <<>>
  /\ at' = 1
  /\ \E n \in {0, 1} : refs' = [refs EXCEPT ![ListAtHand] = n]
  /\ pc' = "value"
  /\ UNCHANGED <<call, exchange, array, report, error, failed>>

Value ==
  /\ pc = "value"
  /\ at <= Len(values)
  /\ values[at] # Unencodable
  /\ refs[ListAtHand] > 0
  /\ object' = Merged(values[at])
  /\ at' = at + 1
  /\ UNCHANGED <<pc, call, exchange, refs, array, report, values, error, failed>>

(* Not encoded, or no memory.  The loop goes on; a later error takes the      *)
(* place of this one.                                                       *)
BadValue ==
  /\ pc = "value"
  /\ at <= Len(values)
  /\ at' = at + 1
  /\ Fail("value")
  /\ UNCHANGED <<call, exchange, refs, array, report, values, object>>

(* json_object_set: the report has a reference of its own to the list.  An    *)
(* update report without a list of strings is only worth a warning.         *)
NullAllowed == Kind = "update"

Attach ==
  /\ pc = "value"
  /\ at > Len(values)
  /\ error = NoError
  /\ refs[ListAtHand] > 0 \/ NullAllowed
  /\ LET set == IF refs[ListAtHand] > 0 THEN {ListAtHand} ELSE {}
     IN  /\ refs' = [o \in Objects |-> IF o \in set THEN refs[o] + 1 ELSE refs[o]]
         /\ attached' = attached \cup set
  /\ k' = k + 1
  /\ pc' = "list"
  /\ NoList
  /\ UNCHANGED <<call, exchange, array, wanted, error, failed>>

(* The list has an error, is NULL, or cannot be set.                        *)
ListFails ==
  /\ pc = "value"
  /\ at > Len(values)
  /\ \/ error # NoError /\ Continue("release")
     \/ error = NoError /\ (refs[ListAtHand] = 0 => ~NullAllowed) /\ Fail("release")
  /\ NoList
  /\ UNCHANGED <<call, exchange, refs, array, report>>

(* The error label of both functions, where success ends as well.           *)
Release ==
  /\ \/ pc = "list" /\ k > Len(ListsOf[Kind])
     \/ pc = "release"
  /\ refs' = Drop(Lists)
  /\ pc' = IF error = NoError THEN "append" ELSE "exit"
  /\ UNCHANGED <<call, exchange, array, report, list, error, failed>>

-----------------------------------------------------------------------------
(* What of the caller's is sent, by the name it is sent under.               *)
Sent == [l \in {l \in attached : Found(l) \in wanted} |-> Found(l)]

(* gaus_report: json_array_append_new takes the report, or frees it.        *)
AppendReport ==
  /\ pc = "append"
  /\ array' = Append(array, [wanted |-> wanted, sent |-> Sent])
  /\ refs' = Handed
  /\ wanted' = {} /\ k' = 1 /\ attached' = {}
  /\ Continue("report")
  /\ UNCHANGED <<call, exchange, list>>

AppendFails ==
  /\ pc = "append"
  /\ refs' = Handed
  /\ Fail("exit")
  /\ UNCHANGED <<call, exchange, array, report, list>>

(* json_pack takes over header and array, and json_dumps makes the body.     *)
Post ==
  /\ pc = "report"
  /\ AllAppended
  /\ refs' = [refs EXCEPT !["to_send"] = 1]
  /\ Exch!Call
  /\ Continue("requested")
  /\ UNCHANGED <<call, array, report, list>>

(* json_dumps fails, or json_pack does, which is noted but does not end the   *)
(* call, and json_dumps makes a NULL string of a NULL object.  Either way    *)
(* NULL is posted, and request_post crashes in strlen(payload) -- unless it   *)
(* has got no curl handle, and given up before.                             *)
PostNull ==
  /\ pc = "report"
  /\ AllAppended
  /\ \E to \in {"unsent", "crashed"} :
       /\ IF to = "unsent" THEN Exch!Call ELSE UNCHANGED exchange
       /\ \/ refs' = [refs EXCEPT !["to_send"] = 1] /\ Continue(to)
          \/ refs' \in {refs, Drop({"header", "array"})} /\ Fail(to)
  /\ UNCHANGED <<call, array, report, list>>

Answered ==
  /\ \/ pc = "requested" /\ (Exch!Deliver \/ Exch!Refuse \/ Exch!GiveUp)
     \/ pc = "unsent" /\ Exch!GiveUp
  /\ Continue("answered")
  /\ UNCHANGED <<call, refs, array, report, list>>

NoReply == body = Exch!NoBody /\ status < 400
HttpError == status >= 400

Result ==
  /\ pc = "answered"
  /\ \/ NoReply /\ Fail("exit")
     \/ /\ ~NoReply /\ HttpError
        /\ error' = [type |-> "HTTP_ERROR", code |-> status]
        /\ failed' = TRUE
        /\ pc' = "exit"
     \/ ~NoReply /\ ~HttpError /\ Continue("exit")
  /\ UNCHANGED <<call, exchange, refs, array, report, list>>

(* The error label: what json_to_send refers to goes with it, nothing else.  *)
Return ==
  /\ pc = "exit"
  /\ refs' = IF refs["to_send"] > 0 THEN Drop({"to_send", "header", "array"}) ELSE refs
  /\ Continue("returned")
  /\ UNCHANGED <<call, exchange, array, report, list>>

Next ==
  \/ Enter \/ Refused \/ Prepare
  \/ Unsupported \/ NewReport \/ SetFields
  \/ NewList \/ Value \/ BadValue \/ Attach \/ ListFails
  \/ Release \/ AppendReport \/ AppendFails
  \/ Post \/ PostNull \/ Answered \/ Result \/ Return

Spec == Init /\ [][Next]_vars

-----------------------------------------------------------------------------
Contents ==
  [wanted : SUBSET Attributes, sent : UNION {[S -> Attributes] : S \in SUBSET Lists}]

Errors == [type : {"NULL", "NO_INIT_ERROR", "UNKNOWN_ERROR", "HTTP_ERROR"}, code : Nat]

TypeOK ==
  /\ pc \in {"idle", "guards", "report", "fields", "list", "value", "release",
             "append", "requested", "unsent", "answered", "exit", "returned", "crashed"}
  /\ args \in [initialized : BOOLEAN, valid : BOOLEAN]
  /\ kinds \in Seq(Kinds)
  /\ phase \in {"idle", "calling", "returned"}
  /\ answer \in Exch!Answers
  /\ status \in Codes
  /\ body \in Nat \cup {Exch!NoBody}
  /\ refs \in [Objects -> Nat]
  /\ array \in Seq(Contents)
  /\ Len(array) <= Len(kinds)
  /\ wanted \subseteq Attributes
  /\ k \in 1 .. 4
  /\ attached \subseteq Lists
  /\ values \in Values \cup {<<>>}
  /\ at \in 1 .. MaxValues + 1
  /\ DOMAIN object \subseteq Names
  /\ \A n \in DOMAIN object : object[n] \in 1 .. MaxValues
  /\ error \in Errors
  /\ failed \in BOOLEAN

(***************************************************************************)
(* Of values with the same name the first one is sent, and no value is left  *)
(* out of a list that is encoded without error.                             *)
(***************************************************************************)
FirstValueWins ==
  pc = "value" /\ error = NoError =>
    /\ DOMAIN object = {values[j] : j \in 1 .. at - 1}
    /\ \A n \in DOMAIN object :
         values[object[n]] = n /\ \A j \in 1 .. object[n] - 1 : values[j] # n

(***************************************************************************)
(* An error, once met, is not swallowed: whatever comes after it in the      *)
(* call, the call does not return NULL.                                     *)
(***************************************************************************)
NoErrorSwallowed == failed <=> error # NoError

(***************************************************************************)
(* The JSON objects change hands without a reference too few or too many: a  *)
(* report that is appended holds the only reference to each of its lists,   *)
(* the body the only ones to header and array, and a call that succeeds      *)
(* leaves nothing behind.  A call that fails leaves header, array and the    *)
(* report at hand, each at most once, and no list but through that report.   *)
(***************************************************************************)
ReferencesBalance ==
  /\ pc = "append" => \A o \in Lists \cup {"report"} :
       refs[o] = IF o \in attached \cup {"report"} THEN 1 ELSE 0
  /\ refs["to_send"] > 0 => \A o \in Objects :
       refs[o] = IF o \in {"to_send", "header", "array"} THEN 1 ELSE 0
  /\ pc = "returned" /\ error = NoError => \A o \in Objects : refs[o] = 0
  /\ pc = "returned" =>
       /\ refs["to_send"] = 0
       /\ \A o \in Objects : refs[o] <= 1
       /\ \A l \in Lists : refs[l] > 0 => l \in attached /\ refs["report"] = 1

(***************************************************************************)
(* NULL is returned for reports the server has accepted as a whole: every    *)
(* one of them, in order, with every list the library encodes for its type. *)
(***************************************************************************)
SuccessMeansAccepted ==
  pc = "returned" /\ error = NoError =>
    /\ answer.code = 200
    /\ Len(array) = Len(kinds)
    /\ \A j \in DOMAIN array : DOMAIN array[j].sent =
         {ListsOf[kinds[j]][l] : l \in DOMAIN ListsOf[kinds[j]]} \cap array[j].wanted

(***************************************************************************)
(* What is sent under the name of a list is what the caller put into that    *)
(* list, although the encoders read a generic report through the struct of   *)
(* another type.                                                            *)
(***************************************************************************)
SentUnderOwnName ==
  \A j \in DOMAIN array : \A l \in DOMAIN array[j].sent : array[j].sent[l] = l

(***************************************************************************)
(* The call keeps the promises of module EntryPoint: at most one exchange,   *)
(* none after a refusal, and a result that follows from how it ended.       *)
(***************************************************************************)
Stage ==
  CASE pc = "idle" -> "idle"
    [] pc = "returned" -> "returned"
    [] pc \in {"requested", "unsent"} -> "asking"
    [] pc = "answered" \/ (pc = "exit" /\ AllAppended) -> "answered"
    [] OTHER -> "entered"

Outcome == IF pc = "returned" THEN error ELSE NoError

Contract == INSTANCE EntryPoint WITH stage <- Stage, error <- Outcome

ImplementsEntryPoint == Contract!Spec

(***************************************************************************)
(* The header file: v_ints, v_floats, v_strings and tags are NULL if there   *)
(* is nothing to report; what is given is reported.                         *)
(***************************************************************************)
AllGivenIsReported ==
  pc = "returned" /\ error = NoError => \A j \in DOMAIN array : DOMAIN array[j].sent = array[j].wanted
=============================================================================
