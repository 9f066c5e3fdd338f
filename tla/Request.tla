------------------------------- MODULE Request -------------------------------
(***************************************************************************)
(* One HTTP exchange as request.c makes it: request_get() or request_post() *)
(* with the resources they acquire, the two response writers libcurl calls  *)
(* back while the transfer is running, and the three functions around them  *)
(* (request_get_as_string, request_post_as_string, request_get_as_file).    *)
(*                                                                         *)
(* The failures are those the code has a branch for: no curl handle, no     *)
(* FILE, no memory for the response, a short fwrite, a transfer libcurl     *)
(* gives up.  A body is a number of bytes, delivered in any chunks.  The    *)
(* "too large" branches of the headers cannot be taken: the length is       *)
(* computed from the same format and arguments just before.                 *)
(***************************************************************************)
EXTENDS Integers

CONSTANTS
  Codes,     \* HTTP status codes a server answers with
  MaxBody    \* bound: the longest body of an answer, in bytes

VARIABLES
  pc,        \* where the exchange is
  call,      \* which function was called, and whether with a token
  answer,    \* the server's answer
  received,  \* bytes of the body libcurl has handed to the writer
  res,       \* what the call acquired: "none", "held" or "freed"
  block,     \* response.data: "null", "held", or after the call "freed" or "given"
  pos,       \* response.pos; for a file the bytes stdio accepted
  good,      \* bytes of the body that really are in the block or the file
  fd,        \* the caller's descriptor: "none", "open" or "closed"
  status,    \* *status_code
  result,    \* what request_get, request_post or request_get_as_file returned
  body       \* what the caller got: a number of bytes, or NoBody

vars == <<pc, call, answer, received, res, block, pos, good, fd, status,
          result, body>>

Exch == INSTANCE Exchange WITH
  phase <- CASE pc = "idle" -> "idle"
             [] pc = "returned" -> "returned"
             [] OTHER -> "calling",
  status <- IF pc = "returned" THEN status ELSE 200

OK == Exch!OK
NoBody == Exch!NoBody

ASSUME CodesAssumption == Codes \subseteq Nat /\ OK \in Codes
ASSUME MaxBodyAssumption == MaxBody \in Nat

Calls == [method : {"GET"}, sink : {"string", "file"}, token : BOOLEAN]
         \cup [method : {"POST"}, sink : {"string"}, token : BOOLEAN]

(* "lost" is a response block that nothing points to any more.              *)
Resources == {"curl", "auth", "agent", "headers", "file", "lost"}

(* What request_get and request_post release on their way out.              *)
Releases == {"curl", "auth", "agent", "headers"}

Released(set) ==
  [r \in Resources |-> IF r \in set /\ res[r] = "held" THEN "freed" ELSE res[r]]

(* realloc's NULL is stored over the only pointer to the block there was.   *)
LoseBlock ==
  /\ block' = "null"
  /\ res' = IF block = "held" THEN [res EXCEPT !["lost"] = "held"] ELSE res

-----------------------------------------------------------------------------
(* Mutated forms of definitions below; each one must break a property.      *)

Rest == <<call, answer, fd, status, body>>

(* in_memory_response_writer with `resp->pos = total_size`.                 *)
StoreCountsNul(n) ==
  /\ pc = "perform"
  /\ call.sink = "string"
  /\ received' = received + n
  /\ block' = "held"
  /\ pos' = pos + n + 1
  /\ good' = good + n
  /\ UNCHANGED <<pc, res, result>> /\ UNCHANGED Rest

(* It reports the bytes as taken although there is no memory for them.      *)
StoreFailsUnnoticed(n) ==
  /\ pc = "perform"
  /\ call.sink = "string"
  /\ received' = received + n
  /\ LoseBlock
  /\ good' = 0
  /\ UNCHANGED <<pc, pos, result>> /\ UNCHANGED Rest

(* The response code is stored but not tested.                              *)
TransferEndsUnchecked ==
  /\ pc = "perform"
  /\ received = answer.size
  /\ status' = answer.code
  /\ pc' = "success"
  /\ UNCHANGED <<call, answer, received, res, block, pos, good, fd, result, body>>

(* A failed transfer is started again, without limit.                       *)
TransferFailsRetries ==
  /\ pc = "perform"
  /\ pc' = "agent"
  /\ UNCHANGED <<received, res, block, pos, good, result>> /\ UNCHANGED Rest

(* The error label forgets something, or returns the same in both.          *)
FailWith(releases, code) ==
  /\ pc = "error"
  /\ res' = Released(releases)
  /\ result' = code
  /\ pc' = "unwind"
  /\ UNCHANGED <<received, block, pos, good>> /\ UNCHANGED Rest

FailKeepsHeaders == FailWith(Releases \ {"headers"}, IF call.method = "GET" THEN -1 ELSE 1)
FailReturnsOne == FailWith(Releases, 1)

-----------------------------------------------------------------------------
Init ==
  /\ pc = "idle"
  /\ call \in Calls
  /\ answer \in Exch!Answers
  /\ received = 0
  /\ res = [r \in Resources |-> "none"]
  /\ block = "null"
  /\ pos = 0
  /\ good = 0
  /\ fd = "none"
  /\ status = Exch!Preset
  /\ result = 0
  /\ body = NoBody

(* An entry point presets the status and makes its exchange.                *)
Begin ==
  /\ pc \in {"idle", "returned"}
  /\ call' \in Calls
  /\ answer' \in Exch!Answers
  /\ received' = 0
  /\ res' = [r \in Resources |-> "none"]
  /\ block' = "null"
  /\ pos' = 0
  /\ good' = 0
  /\ fd' = IF call'.sink = "file" THEN "open" ELSE "none"
  /\ status' = Exch!Preset
  /\ result' = 0
  /\ body' = NoBody
  /\ pc' = IF call'.sink = "file" THEN "fdopen" ELSE "init"

(* request_get_as_file: fdopen.                                             *)
FdOpen ==
  /\ pc = "fdopen"
  /\ res' = [res EXCEPT !["file"] = "held"]
  /\ pc' = "init"
  /\ UNCHANGED <<call, answer, received, block, pos, good, fd, status, result, body>>

FdOpenFails ==
  /\ pc = "fdopen"
  /\ result' = 1
  /\ pc' = "returned"
  /\ UNCHANGED <<call, answer, received, res, block, pos, good, fd, status, body>>

CurlInit ==
  /\ pc = "init"
  /\ res' = [res EXCEPT !["curl"] = "held"]
  /\ pc' = "auth"
  /\ UNCHANGED <<call, answer, received, block, pos, good, fd, status, result, body>>

CurlInitFails ==
  /\ pc = "init"
  /\ pc' = "error"
  /\ UNCHANGED <<call, answer, received, res, block, pos, good, fd, status, result, body>>

(* The token's header string, and the list it is copied to.                 *)
AuthHeader ==
  /\ pc = "auth"
  /\ res' = IF call.token THEN [res EXCEPT !["auth"] = "held", !["headers"] = "held"]
                          ELSE res
  /\ pc' = "agent"
  /\ UNCHANGED <<call, answer, received, block, pos, good, fd, status, result, body>>

(* The User-Agent string, the rest of the list and the options of curl.     *)
AgentHeader ==
  /\ pc = "agent"
  /\ res' = [res EXCEPT !["agent"] = "held", !["headers"] = "held"]
  /\ pc' = "perform"
  /\ UNCHANGED <<call, answer, received, block, pos, good, fd, status, result, body>>

-----------------------------------------------------------------------------
(* curl_easy_perform.  An empty body may come as no chunk or an empty one.  *)
Chunks ==
  IF answer.size = 0 THEN {0} ELSE 1 .. (answer.size - received)

Store(n) ==
  /\ pc = "perform"
  /\ call.sink = "string"
  /\ received' = received + n
  /\ block' = "held"
  /\ pos' = pos + n
  /\ good' = good + n
  /\ UNCHANGED <<pc, call, answer, res, fd, status, result, body>>

(* realloc returns NULL: a block allocated before is leaked, and libcurl     *)
(* stops because fewer bytes were taken than offered -- unless none were.   *)
StoreFails(n) ==
  /\ pc = "perform"
  /\ call.sink = "string"
  /\ received' = received + n
  /\ LoseBlock
  /\ good' = 0
  /\ pc' = IF n = 0 THEN "perform" ELSE "error"
  /\ UNCHANGED <<call, answer, pos, fd, status, result, body>>

(* fwrite takes k of the n bytes.                                           *)
WriteFile(n, k) ==
  /\ pc = "perform"
  /\ call.sink = "file"
  /\ received' = received + n
  /\ pos' = pos + k
  /\ good' = good + k
  /\ pc' = IF k = n THEN "perform" ELSE "error"
  /\ UNCHANGED <<call, answer, res, block, fd, status, result, body>>

Receive ==
  \E n \in Chunks :
    \/ Store(n)
    \/ StoreFails(n)
    \/ \E k \in 0 .. n : WriteFile(n, k)

TransferFails ==
  /\ pc = "perform"
  /\ pc' = "error"
  /\ UNCHANGED <<call, answer, received, res, block, pos, good, fd, status, result, body>>

(* The transfer is complete; the answer's code is read and tested.          *)
TransferEnds ==
  /\ pc = "perform"
  /\ received = answer.size
  /\ status' = answer.code
  /\ pc' = IF answer.code = OK THEN "success" ELSE "error"
  /\ UNCHANGED <<call, answer, received, res, block, pos, good, fd, result, body>>

-----------------------------------------------------------------------------
Succeed ==
  /\ pc = "success"
  /\ res' = Released(Releases)
  /\ result' = 0
  /\ pc' = "unwind"
  /\ UNCHANGED <<call, answer, received, block, pos, good, fd, status, body>>

(* The error label: request_get returns -1, request_post 1.                 *)
Fail ==
  /\ pc = "error"
  /\ res' = Released(Releases)
  /\ result' = IF call.method = "GET" THEN -1 ELSE 1
  /\ pc' = "unwind"
  /\ UNCHANGED <<call, answer, received, block, pos, good, fd, status, body>>

(* request_*_as_string: the block goes to the caller or is freed.           *)
ReturnString ==
  /\ pc = "unwind"
  /\ call.sink = "string"
  /\ block' = IF block = "held" THEN IF result = 0 THEN "given" ELSE "freed" ELSE block
  /\ body' = IF block = "held" /\ result = 0 THEN pos ELSE NoBody
  /\ pc' = "returned"
  /\ UNCHANGED <<call, answer, received, res, pos, good, fd, status, result>>

(* request_get_as_file: fclose closes the descriptor.  Its result is ignored, *)
(* so that what stdio had still buffered may be lost without an error.       *)
ReturnFile ==
  /\ pc = "unwind"
  /\ call.sink = "file"
  /\ res' = Released({"file"})
  /\ fd' = "closed"
  /\ good' \in 0 .. good
  /\ body' = IF result = 0 THEN pos ELSE NoBody
  /\ pc' = "returned"
  /\ UNCHANGED <<call, answer, received, block, pos, status, result>>

Next ==
  \/ Begin
  \/ FdOpen
  \/ FdOpenFails
  \/ CurlInit
  \/ CurlInitFails
  \/ AuthHeader
  \/ AgentHeader
  \/ Receive
  \/ TransferFails
  \/ TransferEnds
  \/ Succeed
  \/ Fail
  \/ ReturnString
  \/ ReturnFile

Spec == Init /\ [][Next]_vars

(* The code runs on by itself.  No timeout is set on the handle, so that a   *)
(* transfer ends is an assumption about the server and the network.         *)
Fairness ==
  /\ WF_vars(FdOpen \/ FdOpenFails)
  /\ WF_vars(CurlInit \/ CurlInitFails)
  /\ WF_vars(AuthHeader)
  /\ WF_vars(AgentHeader)
  /\ WF_vars(TransferEnds \/ TransferFails)
  /\ WF_vars(Succeed)
  /\ WF_vars(Fail)
  /\ WF_vars(ReturnString)
  /\ WF_vars(ReturnFile)

FairSpec == Spec /\ Fairness

-----------------------------------------------------------------------------
TypeOK ==
  /\ pc \in {"idle", "fdopen", "init", "auth", "agent", "perform", "success",
             "error", "unwind", "returned"}
  /\ call \in Calls
  /\ answer \in Exch!Answers
  /\ received \in 0 .. answer.size
  /\ res \in [Resources -> {"none", "held", "freed"}]
  /\ block \in {"null", "held", "freed", "given"}
  /\ pos \in 0 .. MaxBody
  /\ good \in 0 .. MaxBody
  /\ fd \in {"none", "open", "closed"}
  /\ status \in Codes
  /\ result \in {-1, 0, 1}
  /\ body \in 0 .. MaxBody \cup {NoBody}

(***************************************************************************)
(* However an exchange ends, request.c has released every handle, header    *)
(* and file it acquired, and the response block is the caller's or freed.    *)
(* The exception is the block that a failed realloc has lost: that one is    *)
(* leaked, but only by an exchange that fails or whose body is empty.        *)
(***************************************************************************)
ReleasedUnlessLost ==
  pc \in {"idle", "returned"} =>
    /\ \A r \in Resources \ {"lost"} : res[r] # "held"
    /\ block # "held"
    /\ res["lost"] = "held" => result # 0 \/ answer.size = 0

(***************************************************************************)
(* What a call hands out is the complete body of a 200 answer: no byte      *)
(* before `pos` is missing from it, although a realloc may have failed; and *)
(* the caller owns a block exactly when there is a string.  For a file this  *)
(* holds of what stdio was given; fclose may lose some of it unnoticed.      *)
(***************************************************************************)
BodyIsWhole ==
  pc = "returned" =>
    /\ block = "given" <=> call.sink = "string" /\ body # NoBody
    /\ body # NoBody =>
         answer.code = OK /\ body = answer.size /\ (call.sink = "string" => good = body)

(***************************************************************************)
(* The result of request_get_as_file tells the caller whether the descriptor *)
(* is still theirs to close: 1 when fdopen failed, else it is closed.       *)
(***************************************************************************)
FdOwnerKnown ==
  pc = "returned" /\ call.sink = "file" => (fd = "open" <=> result = 1)

(***************************************************************************)
(* request.c implements the contract its callers rely on.                   *)
(***************************************************************************)
ImplementsExchange == Exch!Spec

(***************************************************************************)
(* Every exchange returns, if every transfer ends.                          *)
(***************************************************************************)
ExchangeReturns == pc \notin {"idle", "returned"} ~> pc = "returned"
=============================================================================
