----------------------------- MODULE Credentials ------------------------------
(***************************************************************************)
(* gaus_register() and gaus_authenticate(): the keys of a device and its     *)
(* session, written item by item into memory of the caller, over any        *)
(* sequence of calls that succeed, are refused or fail half-way.            *)
(*                                                                         *)
(* A string is the number of the call that allocated it.  Which of the      *)
(* items of a reply is the first one missing or ill-typed is all the model   *)
(* keeps of the reply.  The request bodies, the 256 byte URL (CreateUrl) and *)
(* the transfer (Request, here by its contract Exchange) are not repeated.   *)
(***************************************************************************)
EXTENDS Integers, Sequences

CONSTANTS
  Codes,     \* HTTP status codes a server answers with
  MaxBody,   \* bound: the longest body; longer than 0 is all that matters
  MaxCalls   \* bound: calls the application makes

ASSUME CodesAssumption == Codes \subseteq Nat /\ 200 \in Codes
ASSUME MaxBodyAssumption == MaxBody \in Nat
ASSUME MaxCallsAssumption == MaxCalls \in Nat

Functions == {"register", "authenticate"}

(* The items of a reply in the order they are read.                         *)
Items == [register |-> <<"root", "poll", "deviceAuthParameters", "access", "secret">>,
          authenticate |-> <<"root", "device_guid", "product_guid", "token">>]

(* What the caller owns: the strings of the registration and of the session. *)
Keys == {"access", "secret"}
Session == {"device_guid", "product_guid", "token"}
Strings == Keys \cup Session

(* A NULL pointer, or a poll interval that is 0; a pointer that must not be   *)
(* freed, because it was never assigned or has been freed.                  *)
Null == 0
Garbage == -1

NoError == [type |-> "NULL", code |-> 0]
Invalid == [type |-> "UNKNOWN_ERROR", code |-> 500]

VARIABLES
  pc,
  function,   \* the function called last
  args,       \* whether the library is set up and the arguments are valid
  phase, answer, status, body,  \* the exchange
  out,        \* the caller's strings and poll interval
  rejected,   \* the item of the reply the parser will reject, or "nothing"
  next,       \* position of the item to read next
  error,      \* the error to return
  calls,      \* calls made, the last one included
  lost        \* strings whose last pointer was overwritten: who allocated and who lost it

vars == <<pc, function, args, phase, answer, status, body, out, rejected, next, error,
          calls, lost>>

Exch == INSTANCE Exchange

exchange == <<phase, answer, status, body>>

(* What an application starts with.  Assumed of it, here and in CallerFrees: *)
(* its keys never dangle, because by the header file gaus_register will call *)
(* free() on what they point to.  A session may hold anything: the code      *)
(* clears its pointers itself.                                              *)
Fresh == [o \in Strings \cup {"poll"} |-> IF o \in Session THEN Garbage ELSE Null]

Init ==
  /\ Exch!Init
  /\ pc = "returned"
  /\ function = "register"
  /\ args = [initialized |-> FALSE, valid |-> FALSE]
  /\ out = Fresh
  /\ rejected = "nothing"
  /\ next = 1
  /\ error = NoError
  /\ calls = 0
  /\ lost = {}

Return(e) ==
  /\ error' = e
  /\ pc' = "returned"

(* A pointer is overwritten; the string it pointed to is not freed.         *)
Overwritten(names) ==
  lost \cup {[by |-> calls, from |-> out[s]] : s \in {s \in names \cap Strings : out[s] > 0}}

(* What a function writes when the reply is complete.                       *)
Filled == IF function = "register" THEN Keys \cup {"poll"} ELSE Session

(* An item is stored, as NULL if missing, before it is tested.              *)
Value(item) == IF rejected = item THEN Null ELSE calls

-----------------------------------------------------------------------------
(* Mutated forms of definitions below; each one must break a property.      *)

(* The last item of a reply is not tested.                                  *)
FailsAtUnlessLast(item) == Value(item) = Null /\ item \notin {"secret", "token"}

FailsAt(item) == Value(item) = Null

(* A missing string leaves the pointer as it was.                           *)
AssignUnlessNull(item) ==
  /\ out' = [o \in DOMAIN out |-> IF o = item /\ Value(item) # Null THEN calls ELSE out[o]]
  /\ lost' = Overwritten({item})

Assign(item) ==
  /\ out' = [o \in DOMAIN out |-> IF o = item THEN Value(item) ELSE out[o]]
  /\ lost' = Overwritten({item})

(* Server errors only.                                                      *)
HttpErrorFrom500 == status >= 500

(* The session's pointers are not set to NULL before the request.           *)
SendKeepsSession ==
  /\ pc = "guards"
  /\ args.initialized /\ args.valid
  /\ Exch!Call
  /\ pc' = "requested"
  /\ UNCHANGED <<function, args, out, rejected, next, error, calls, lost>>

(* A rejected reply clears the out parameters, or frees them all and leaves  *)
(* the pointers dangling.                                                   *)
RejectAnd(value, losing) ==
  /\ pc = "parse"
  /\ next <= Len(Items[function])
  /\ FailsAt(Items[function][next])
  /\ out' = [o \in DOMAIN out |-> IF o \in Filled THEN value ELSE out[o]]
  /\ lost' = IF losing THEN Overwritten(Filled) ELSE lost
  /\ Return(Invalid)
  /\ UNCHANGED <<function, args, exchange, rejected, next, calls>>

RejectClears == RejectAnd(Null, TRUE)
RejectFrees == RejectAnd(Garbage, FALSE)

-----------------------------------------------------------------------------
(* The application.                                                         *)

(* No call is going on; after a crash, in the process started next.         *)
Idle == pc \in {"returned", "crashed"}

Enter ==
  /\ Idle
  /\ calls < MaxCalls
  /\ calls' = calls + 1
  /\ function' \in Functions
  /\ args' \in [initialized : BOOLEAN, valid : BOOLEAN]
  /\ rejected' = "nothing"
  /\ next' = 1
  /\ error' = NoError
  /\ pc' = "guards"
  /\ UNCHANGED <<exchange, out, lost>>

(* free(); the pointer is set to NULL, or left as it is in a session, which  *)
(* gaus_authenticate starts afresh.                                         *)
CallerFrees ==
  /\ Idle
  /\ \E s \in Strings :
       /\ out[s] # Garbage
       /\ \E p \in IF s \in Session THEN {Null, Garbage} ELSE {Null} :
            out' = [out EXCEPT ![s] = p]
  /\ UNCHANGED <<pc, function, args, exchange, rejected, next, error, calls, lost>>

-----------------------------------------------------------------------------
(* gaus_register and gaus_authenticate.                                     *)

Refused ==
  /\ pc = "guards"
  /\ \/ ~args.initialized /\ Return([type |-> "NO_INIT_ERROR", code |-> 500])
     \/ args.initialized /\ ~args.valid /\ Return(Invalid)
  /\ UNCHANGED <<function, args, exchange, out, rejected, next, calls, lost>>

(* gaus_authenticate clears the session before it asks for a new one.       *)
Send ==
  /\ pc = "guards"
  /\ args.initialized /\ args.valid
  /\ LET cleared == IF function = "authenticate" THEN Session ELSE {}
     IN  /\ out' = [o \in DOMAIN out |-> IF o \in cleared THEN Null ELSE out[o]]
         /\ lost' = Overwritten(cleared)
  /\ Exch!Call
  /\ pc' = "requested"
  /\ UNCHANGED <<function, args, rejected, next, error, calls>>

(* json_pack fails, of arguments that are no UTF-8 or for want of memory,    *)
(* json_dumps makes a NULL string of NULL, and strlen of it in request_post  *)
(* ends the process: a new one starts afresh.  (If request_post gives up     *)
(* before, having no curl handle, the call goes the way of Send and GiveUp.) *)
SendNull ==
  /\ pc = "guards"
  /\ args.initialized /\ args.valid
  /\ out' = Fresh
  /\ lost' = {}
  /\ pc' = "crashed"
  /\ UNCHANGED <<function, args, exchange, rejected, next, error, calls>>

Answered ==
  /\ pc = "requested"
  /\ Exch!Deliver \/ Exch!Refuse \/ Exch!GiveUp
  /\ pc' = "answered"
  /\ UNCHANGED <<function, args, out, rejected, next, error, calls, lost>>

NoReply == body = Exch!NoBody /\ status < 400
HttpError == status >= 400

RequestFailed ==
  /\ pc = "answered"
  /\ \/ NoReply /\ Return(Invalid)
     \/ ~NoReply /\ HttpError /\ Return([type |-> "HTTP_ERROR", code |-> status])
  /\ UNCHANGED <<function, args, exchange, out, rejected, next, calls, lost>>

NotJson ==
  /\ pc = "answered"
  /\ ~NoReply /\ ~HttpError
  /\ Return(Invalid)
  /\ UNCHANGED <<function, args, exchange, out, rejected, next, calls, lost>>

Loaded ==
  /\ pc = "answered"
  /\ ~NoReply /\ ~HttpError
  /\ body > 0
  /\ rejected' \in {Items[function][k] : k \in DOMAIN Items[function]} \cup {"nothing"}
  /\ pc' = "parse"
  /\ UNCHANGED <<function, args, exchange, out, next, error, calls, lost>>

(* parse_device_json, parse_authenticate_json: an item that is there ...    *)
Read ==
  /\ pc = "parse"
  /\ next <= Len(Items[function])
  /\ LET item == Items[function][next]
     IN  ~FailsAt(item) /\ Assign(item)
  /\ next' = next + 1
  /\ UNCHANGED <<pc, function, args, exchange, rejected, error, calls>>

(* ... and one that is not: its own pointer is assigned NULL all the same.  *)
Reject ==
  /\ pc = "parse"
  /\ next <= Len(Items[function])
  /\ LET item == Items[function][next]
     IN  FailsAt(item) /\ Assign(item)
  /\ Return(Invalid)
  /\ UNCHANGED <<function, args, exchange, rejected, next, calls>>

Parsed ==
  /\ pc = "parse"
  /\ next > Len(Items[function])
  /\ Return(NoError)
  /\ UNCHANGED <<function, args, exchange, out, rejected, next, calls, lost>>

Next ==
  \/ Enter
  \/ CallerFrees
  \/ Refused
  \/ Send
  \/ SendNull
  \/ Answered
  \/ RequestFailed
  \/ NotJson
  \/ Loaded
  \/ Read
  \/ Reject
  \/ Parsed

Spec == Init /\ [][Next]_vars

-----------------------------------------------------------------------------
TypeOK ==
  /\ pc \in {"guards", "requested", "answered", "parse", "returned", "crashed"}
  /\ function \in Functions
  /\ args \in [initialized : BOOLEAN, valid : BOOLEAN]
  /\ phase \in {"idle", "calling", "returned"}
  /\ answer \in Exch!Answers
  /\ status \in Codes
  /\ body \in Nat \cup {Exch!NoBody}
  /\ out \in [Strings \cup {"poll"} -> Garbage .. calls]
  /\ \A o \in Keys \cup {"poll"} : out[o] # Garbage
  /\ rejected \in {"nothing"} \cup {Items[function][k] : k \in DOMAIN Items[function]}
  /\ next \in 1 .. Len(Items[function]) + 1
  /\ error \in [type : {"NULL", "NO_INIT_ERROR", "UNKNOWN_ERROR", "HTTP_ERROR"}, code : Nat]
  /\ calls \in 0 .. MaxCalls
  /\ lost \subseteq [by : 1 .. MaxCalls, from : 1 .. MaxCalls]

(***************************************************************************)
(* Keys or a session that the other functions accept (all pointers set) are  *)
(* those of one reply of the server, whatever calls failed half-way through  *)
(* another reply before: no access key is paired with the secret of another *)
(* registration, no token with the GUIDs of another session.                *)
(***************************************************************************)
OneReply(names) ==
  (\A s \in names : out[s] > 0) => \E reply \in 1 .. calls : \A s \in names : out[s] = reply

UsableIsOfOneReply ==
  pc = "returned" => OneReply(Keys) /\ OneReply(Session)

(***************************************************************************)
(* Whatever was in the session before, and however the call ends, a session  *)
(* gaus_authenticate has asked for can be freed.                            *)
(***************************************************************************)
SessionFreeable ==
  [][pc \notin {"guards", "returned"} /\ pc' = "returned" /\ function = "authenticate" =>
       \A s \in Session : out'[s] # Garbage]_vars

(***************************************************************************)
(* A call that returns NULL has had a 200 answer, and has filled in every    *)
(* out parameter from it.                                                   *)
(***************************************************************************)
SuccessFillsAll ==
  [][pc # "returned" /\ pc' = "returned" /\ error' = NoError =>
       answer.code = 200 /\ \A o \in Filled : out'[o] = calls]_vars

(***************************************************************************)
(* No call loses a string it has allocated itself, however it ends: callers  *)
(* that free every string between two calls leak nothing.                   *)
(***************************************************************************)
NoOwnStringLost == \A string \in lost : string.from < string.by

(***************************************************************************)
(* Both calls keep the promises of module EntryPoint: at most one exchange,  *)
(* none after a refusal, and a result that follows from how it ended.       *)
(***************************************************************************)
Stage ==
  CASE pc = "returned" -> IF calls = 0 THEN "idle" ELSE "returned"
    [] pc \in {"guards", "crashed"} -> "entered"
    [] pc = "requested" -> "asking"
    [] OTHER -> "answered"

Contract == INSTANCE EntryPoint WITH stage <- Stage

ImplementsEntryPoint == Contract!Spec

(***************************************************************************)
(* The header file: free will be called on the current contents of the out   *)
(* parameters, so that none is lost.                                        *)
(***************************************************************************)
OldContentsFreed == lost = {}
=============================================================================
