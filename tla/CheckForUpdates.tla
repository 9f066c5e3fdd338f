--------------------------- MODULE CheckForUpdates ---------------------------
(***************************************************************************)
(* gaus_check_for_updates(): its guards, its one exchange with the server    *)
(* (by the contract of module Exchange), and parse_update_json(), which      *)
(* builds the caller's array of updates in place, entry by entry and field  *)
(* by field, and stops at the first thing it does not like.                 *)
(*                                                                         *)
(* A field of an update is "garbage" (malloc'd, never assigned), "null"     *)
(* (NULL, or 0 for the size) or "live".  Of the server's reply the model    *)
(* keeps, for each update, its package type, how many metadata pairs it has, *)
(* and the first thing in it that the parser rejects.                       *)
(***************************************************************************)
EXTENDS JsonHelpers, Sequences

CONSTANTS
  Codes,       \* HTTP status codes a server answers with
  MaxBody,     \* bound: the longest body; longer than 0 is all that matters
  MaxUpdates,  \* bound: updates in one reply
  MaxPairs,    \* bound: metadata pairs of one update
  Sizes        \* integers a server gives for the size of a file

ASSUME CodesAssumption == Codes \subseteq Nat /\ 200 \in Codes
ASSUME MaxBodyAssumption == MaxBody \in Nat
ASSUME MaxUpdatesAssumption == MaxUpdates \in Nat
ASSUME MaxPairsAssumption == MaxPairs \in Nat
ASSUME SizesAssumption == Sizes \subseteq Int /\ 0 \in Sizes

(* The fields in the order they are parsed; a package that is not a file     *)
(* has none after the version.                                              *)
Order == <<"update_type", "package_type", "update_id", "version",
           "size", "md5", "download_url">>
Fields == {Order[k] : k \in DOMAIN Order}
FileOnly == {"size", "md5", "download_url"}

(* An update of the reply: `rejected` is the missing or ill-typed item met    *)
(* first, `badPair` the first pair whose value is not a string (0 if none).  *)
Replies ==
  [package : {"file", "other"}, pairs : 0 .. MaxPairs, badPair : 0 .. MaxPairs,
   rejected : {"nothing", "metadata"} \cup Fields, size : Sizes]

NoUpdate == [package |-> "file", pairs |-> 0, badPair |-> 0, rejected |-> "nothing",
             size |-> 0]

(* `size` is the number in the field of that name.  Of the `pairs` announced *)
(* in metadata_count the first `keys` have a key, the first `copied` a value. *)
Unwritten == [fields |-> [f \in Fields |-> "garbage"], pairs |-> 0, keys |-> 0,
              copied |-> 0, package |-> "garbage", size |-> 0]

(* A pointer or count the call has not assigned.                            *)
Untouched == -1

Locals == {"url", "query_parms", "raw", "json"}

NoError == [type |-> "NULL", code |-> 0]
Error(type, code) == [type |-> type, code |-> code]

VARIABLES
  pc,
  args,         \* whether the library is set up and the arguments are valid
  phase, answer, status, body,  \* the exchange
  local,        \* local pointers: "none", "held" or "freed"
  updateCount,  \* *updateCount
  updates,      \* the entries of *updates, or <<>> while no array is allocated
  i,            \* entry being parsed
  reply,        \* what the server says about it
  next,         \* position in Order of the field to parse next
  error         \* the error to return

vars == <<pc, args, phase, answer, status, body, local, updateCount, updates, i, reply,
          next, error>>

Exch == INSTANCE Exchange

exchange == <<phase, answer, status, body>>
outs == <<updateCount, updates>>
parse == <<i, reply, next>>

Init ==
  /\ Exch!Init
  /\ pc = "idle"
  /\ args = [initialized |-> FALSE, valid |-> FALSE]
  /\ local = [l \in Locals |-> "none"]
  /\ updateCount = Untouched
  /\ updates = <<>>
  /\ i = 0
  /\ reply = NoUpdate
  /\ next = 1
  /\ error = NoError

(* goto error, with the error to return.                                    *)
Exit(e) ==
  /\ error' = e
  /\ pc' = "exit"

Invalid == Error("UNKNOWN_ERROR", 500)

-----------------------------------------------------------------------------
(* Mutated forms of definitions below; each one must break a property.      *)

(* A request that failed without an answer is made once more.               *)
RequestFailedRetries ==
  /\ pc = "answered"
  /\ \/ local["raw"] = "none" /\ status < 400 /\ pc' = "guards" /\ UNCHANGED error
     \/ status >= 400 /\ Exit(Error("HTTP_ERROR", status))
  /\ UNCHANGED <<args, exchange, local, outs, parse>>

(* An entry is not set to NULL before its fields are parsed.                *)
StartEntryUnset ==
  /\ pc = "entry"
  /\ reply' \in Replies
  /\ pc' = "metadata"
  /\ UNCHANGED <<args, exchange, local, outs, i, next, error>>

(* The loop over the metadata runs once too often.                          *)
PairTooMany ==
  /\ pc = "pairs"
  /\ updates[i].copied <= updates[i].pairs
  /\ IF reply.badPair = updates[i].copied + 1
       THEN updates' = [updates EXCEPT ![i].keys = @ + 1] /\ Exit(Invalid)
       ELSE /\ updates' = [updates EXCEPT ![i].keys = @ + 1, ![i].copied = @ + 1]
            /\ UNCHANGED <<pc, error>>
  /\ UNCHANGED <<args, exchange, local, updateCount, parse>>

(* The package type is tested before the id is parsed, or after the URL.    *)
AtFileFieldsEarly == next = 3
AtFileFieldsLate == next > Len(Order)

(* The position in the array is not advanced.                               *)
EntryDoneStays ==
  /\ pc = "fields"
  /\ next > Len(Order)
  /\ pc' = IF i = updateCount THEN "exit" ELSE "entry"
  /\ UNCHANGED <<args, exchange, local, outs, i, reply, next, error>>

-----------------------------------------------------------------------------
(* The call: the first buffer for the URL is allocated before any guard.    *)
Enter ==
  /\ pc \in {"idle", "returned"}
  /\ args' \in [initialized : BOOLEAN, valid : BOOLEAN]
  /\ local' = [l \in Locals |-> IF l = "url" THEN "held" ELSE "none"]
  /\ updateCount' = Untouched
  /\ updates' = <<>>
  /\ i' = 0
  /\ reply' = NoUpdate
  /\ next' = 1
  /\ error' = NoError
  /\ pc' = "guards"
  /\ UNCHANGED exchange

Refused ==
  /\ pc = "guards"
  /\ \/ ~args.initialized /\ Exit(Error("NO_INIT_ERROR", 500))
     \/ args.initialized /\ ~args.valid /\ Exit(Invalid)
  /\ UNCHANGED <<args, exchange, local, outs, parse>>

(* Query string, URL (module CreateUrl) and the start of the request.       *)
Send ==
  /\ pc = "guards"
  /\ args.initialized /\ args.valid
  /\ local' = [local EXCEPT !["query_parms"] = "held"]
  /\ Exch!Call
  /\ pc' = "requested"
  /\ UNCHANGED <<args, outs, parse, error>>

Answered ==
  /\ pc = "requested"
  /\ Exch!Deliver \/ Exch!Refuse \/ Exch!GiveUp
  /\ local' = IF body' # Exch!NoBody THEN [local EXCEPT !["raw"] = "held"] ELSE local
  /\ pc' = "answered"
  /\ UNCHANGED <<args, outs, parse, error>>

NoReply == local["raw"] = "none" /\ status < 400
HttpError == status >= 400

RequestFailed ==
  /\ pc = "answered"
  /\ \/ NoReply /\ Exit(Invalid)
     \/ ~NoReply /\ HttpError /\ Exit(Error("HTTP_ERROR", status))
  /\ UNCHANGED <<args, exchange, local, outs, parse>>

(* json_loads: an empty body is no JSON value.                              *)
NotJson ==
  /\ pc = "answered"
  /\ ~NoReply /\ ~HttpError
  /\ Exit(Invalid)
  /\ UNCHANGED <<args, exchange, local, outs, parse>>

Loaded ==
  /\ pc = "answered"
  /\ ~NoReply /\ ~HttpError
  /\ body > 0
  /\ local' = [local EXCEPT !["json"] = "held"]
  /\ pc' = "root"
  /\ UNCHANGED <<args, exchange, outs, parse, error>>

-----------------------------------------------------------------------------
(* parse_update_json.                                                       *)

RootInvalid ==
  /\ pc = "root"
  /\ Exit(Invalid)
  /\ UNCHANGED <<args, exchange, local, outs, parse>>

(* The count is stored and the whole array allocated before any entry.      *)
RootValid ==
  /\ pc = "root"
  /\ \E n \in 0 .. MaxUpdates :
       /\ updateCount' = n
       /\ updates' = [k \in 1 .. n |-> Unwritten]
       /\ pc' = IF n = 0 THEN "exit" ELSE "entry"
  /\ i' = 1
  /\ UNCHANGED <<args, exchange, local, reply, next, error>>

StartEntry ==
  /\ pc = "entry"
  /\ reply' \in Replies
  /\ updates' = [updates EXCEPT
       ![i] = [Unwritten EXCEPT !.fields = [f \in Fields |-> "null"]]]
  /\ pc' = "metadata"
  /\ UNCHANGED <<args, exchange, local, updateCount, i, next, error>>

Metadata ==
  /\ pc = "metadata"
  /\ IF reply.rejected = "metadata"
       THEN Exit(Invalid) /\ UNCHANGED updates
       ELSE /\ updates' = [updates EXCEPT ![i].pairs = reply.pairs]
            /\ pc' = "pairs"
            /\ UNCHANGED error
  /\ UNCHANGED <<args, exchange, local, updateCount, parse>>

(* One metadata pair, whose key is copied before its value is looked at;     *)
(* json_object_foreach ends when all are copied.                            *)
Pair ==
  /\ pc = "pairs"
  /\ updates[i].copied < updates[i].pairs
  /\ IF reply.badPair = updates[i].copied + 1
       THEN updates' = [updates EXCEPT ![i].keys = @ + 1] /\ Exit(Invalid)
       ELSE /\ updates' = [updates EXCEPT ![i].keys = @ + 1, ![i].copied = @ + 1]
            /\ UNCHANGED <<pc, error>>
  /\ UNCHANGED <<args, exchange, local, updateCount, parse>>

PairsDone ==
  /\ pc = "pairs"
  /\ updates[i].copied = updates[i].pairs
  /\ next' = 1
  /\ pc' = "fields"
  /\ UNCHANGED <<args, exchange, local, outs, i, reply, error>>

(* The test of the package type, between "version" and "size".              *)
AtFileFields == next = 5

(* The size as it is stored; 0 stands for one that is not there.             *)
Size == ToUnsigned(get_dict_int(reply.rejected # "size", reply.size, 0))

Rejected == reply.rejected = Order[next] \/ (Order[next] = "size" /\ Size = 0)

(* The field in turn is copied, or found missing or ill-typed.              *)
Field ==
  /\ pc = "fields"
  /\ next <= Len(Order)
  /\ AtFileFields => reply.package = "file"
  /\ IF Rejected
       THEN Exit(Invalid) /\ UNCHANGED <<updates, next>>
       ELSE /\ updates' = [updates EXCEPT
                 ![i].fields[Order[next]] = "live",
                 ![i].package = IF Order[next] = "package_type" THEN reply.package ELSE @,
                 ![i].size = IF Order[next] = "size" THEN Size ELSE @]
            /\ next' = next + 1
            /\ UNCHANGED <<pc, error>>
  /\ UNCHANGED <<args, exchange, local, updateCount, i, reply>>

(* A package that is not a file: "not processing further" leaves the whole  *)
(* function, with no error.                                                 *)
NotAFile ==
  /\ pc = "fields"
  /\ AtFileFields
  /\ reply.package = "other"
  /\ updates' = [updates EXCEPT
       ![i].fields = [f \in Fields |-> IF f \in FileOnly THEN "null" ELSE @[f]]]
  /\ pc' = "exit"
  /\ UNCHANGED <<args, exchange, local, updateCount, parse, error>>

EntryDone ==
  /\ pc = "fields"
  /\ next > Len(Order)
  /\ i' = i + 1
  /\ pc' = IF i = updateCount THEN "exit" ELSE "entry"
  /\ UNCHANGED <<args, exchange, local, outs, reply, next, error>>

-----------------------------------------------------------------------------
(* The error label, where every path of the function ends.                  *)
Return ==
  /\ pc = "exit"
  /\ local' = [l \in Locals |-> IF local[l] = "held" THEN "freed" ELSE local[l]]
  /\ pc' = "returned"
  /\ UNCHANGED <<args, exchange, outs, parse, error>>

Next ==
  \/ Enter
  \/ Refused
  \/ Send
  \/ Answered
  \/ RequestFailed
  \/ NotJson
  \/ Loaded
  \/ RootInvalid
  \/ RootValid
  \/ StartEntry
  \/ Metadata
  \/ Pair
  \/ PairsDone
  \/ Field
  \/ NotAFile
  \/ EntryDone
  \/ Return

Spec == Init /\ [][Next]_vars

(* A call that has begun goes on by itself.  For the exchange this assumes   *)
(* that request.c returns; module UpdatesOverRequest assumes less.          *)
Running == pc \notin {"idle", "returned"}
FairSpec == Spec /\ WF_vars(Running /\ Next)

-----------------------------------------------------------------------------
Entry == [fields : [Fields -> {"garbage", "null", "live"}], pairs : 0 .. MaxPairs,
          keys : 0 .. MaxPairs, copied : 0 .. MaxPairs, package : {"garbage", "file", "other"},
          size : 0 .. Word - 1]

TypeOK ==
  /\ pc \in {"idle", "guards", "requested", "answered", "root", "entry", "metadata",
             "pairs", "fields", "exit", "returned"}
  /\ args \in [initialized : BOOLEAN, valid : BOOLEAN]
  /\ phase \in {"idle", "calling", "returned"}
  /\ answer \in Exch!Answers
  /\ status \in Codes
  /\ body \in Nat \cup {Exch!NoBody}
  /\ local \in [Locals -> {"none", "held", "freed"}]
  /\ updateCount \in 0 .. MaxUpdates \cup {Untouched}
  /\ updates \in Seq(Entry)
  /\ Len(updates) \in 0 .. MaxUpdates
  /\ i \in 0 .. MaxUpdates + 1
  /\ reply \in Replies
  /\ next \in 1 .. Len(Order) + 1
  /\ error \in [type : {"NULL", "NO_INIT_ERROR", "UNKNOWN_ERROR", "HTTP_ERROR"}, code : Nat]

(***************************************************************************)
(* Whichever of its exits a call takes, its own allocations are freed: the   *)
(* URL, the query string, the reply and its parsed form.                    *)
(***************************************************************************)
LocalsReleased ==
  pc = "returned" => \A l \in Locals : local[l] # "held"

(* All of an update is there: the caller can use and free every field.      *)
AllPairs(u) == u.keys = u.pairs /\ u.copied = u.pairs

Complete(u) ==
  /\ AllPairs(u)
  /\ \A f \in Fields : u.fields[f] = IF u.package = "other" /\ f \in FileOnly THEN "null"
                                                                             ELSE "live"

(***************************************************************************)
(* A successful call delivers every update up to and including the first    *)
(* one that is not a file; all of them if there is no such update.          *)
(***************************************************************************)
DeliveredUpToOther ==
  pc = "returned" /\ error = NoError =>
    /\ Len(updates) = updateCount
    /\ \A k \in 1 .. updateCount :
         (\A j \in 1 .. k - 1 : updates[j].package = "file") => Complete(updates[k])

(***************************************************************************)
(* The size passes through a signed int and is tested against 0 on its way:  *)
(* every size that the caller's unsigned field can hold is delivered as it   *)
(* was sent, and none of them is taken for a missing one.                    *)
(***************************************************************************)
SizesAreExact ==
  reply.rejected # "size" /\ reply.size \in 1 .. Word - 1 =>
    /\ pc = "fields" /\ next > 5 => updates[i].size = reply.size
    /\ pc = "returned" /\ next = 5 => error = NoError

(***************************************************************************)
(* HTTP_ERROR is returned for an answer of the server, with its code; any    *)
(* other code comes from the client.  No error hides a refusal: a call that  *)
(* succeeds has had a 200 answer.                                           *)
(***************************************************************************)
ErrorNamesItsCause ==
  pc = "returned" =>
    /\ error.type = "HTTP_ERROR" => error.code = answer.code /\ answer.code >= 400
    /\ error = NoError => answer.code = 200
    /\ local["query_parms"] = "freed" /\ status >= 400 => error.type = "HTTP_ERROR"

(***************************************************************************)
(* The call keeps the promises of module EntryPoint: at most one exchange,   *)
(* none after a refusal, and a result that follows from how it ended.       *)
(***************************************************************************)
Stage ==
  CASE pc = "idle" -> "idle"
    [] pc = "returned" -> "returned"
    [] pc = "requested" -> "asking"
    [] pc = "guards" \/ (pc = "exit" /\ local["query_parms"] # "held") -> "entered"
    [] OTHER -> "answered"

Result == IF pc = "returned" THEN error ELSE NoError

Contract == INSTANCE EntryPoint WITH stage <- Stage, error <- Result

ImplementsEntryPoint == Contract!Spec

(***************************************************************************)
(* A string the parser has copied stays where it is until the call returns: *)
(* none is overwritten, none is leaked.                                     *)
(***************************************************************************)
NoStringOverwritten ==
  [][pc # "returned" => \A k \in DOMAIN updates : \A f \in Fields :
       updates[k].fields[f] = "live" => updates'[k].fields[f] = "live"]_vars

(***************************************************************************)
(* Whatever the reply holds, the loops over updates and pairs come to an     *)
(* end, or are left, and the call returns.                                  *)
(***************************************************************************)
CallReturns == Running ~> pc = "returned"

(***************************************************************************)
(* Where a call fails in the array, it is known what has been assigned: the  *)
(* entries before the failing one are complete, and of the failing one all   *)
(* seven fields and either all of its pairs or, if a pair was rejected, the  *)
(* pairs before that one and its key.  The pairs behind it, which            *)
(* metadata_count counts too, and the entries behind are not assigned.       *)
(***************************************************************************)
AssignedUpToFailure ==
  pc = "returned" /\ i <= Len(updates) =>
    \A k \in 1 .. i :
      /\ \A f \in Fields : updates[k].fields[f] # "garbage"
      /\ k < i => Complete(updates[k])
      /\ \/ AllPairs(updates[k])
         \/ /\ error # NoError
            /\ reply.badPair = updates[k].copied + 1 /\ updates[k].keys = reply.badPair

(***************************************************************************)
(* The header file: the out parameters are valid when NULL is returned, and *)
(* each of the updates should be processed by the caller.                   *)
(***************************************************************************)
SuccessIsValid ==
  pc = "returned" /\ error = NoError =>
    \A k \in DOMAIN updates : \A f \in Fields : updates[k].fields[f] # "garbage"

(***************************************************************************)
(* The header file: out parameters and their contents should always be      *)
(* freed by the caller -- whatever the call returned.                       *)
(***************************************************************************)
AlwaysFreeable ==
  pc = "returned" /\ error # NoError =>
    \A k \in DOMAIN updates :
      /\ \A f \in Fields : updates[k].fields[f] # "garbage"
      /\ AllPairs(updates[k])
=============================================================================
