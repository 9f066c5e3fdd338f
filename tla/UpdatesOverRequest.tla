------------------------- MODULE UpdatesOverRequest --------------------------
(***************************************************************************)
(* gaus_check_for_updates() with the exchange that request.c really makes    *)
(* for it, in place of the contract of module Exchange: the two components   *)
(* step by step, and what passes between them -- the status that            *)
(* request_get() writes through its caller's pointer, and the response block *)
(* that changes its owner.                                                  *)
(***************************************************************************)
EXTENDS CheckForUpdates

VARIABLES
  rpc, call, received, res, block, pos, good, fd, result,  \* as in module Request
  written   \* *status_code, as request.c has written it so far

Req == INSTANCE Request WITH pc <- rpc, status <- written

transfer == <<rpc, call, received, res, block, pos, good, fd, result, written>>
ovars == <<vars, transfer>>

(* request_get_as_string(url, session->token, &status_code).                *)
TheCall == [method |-> "GET", sink |-> "string", token |-> TRUE]

InitOver ==
  /\ Init
  /\ Req!Init
  /\ call = TheCall

-----------------------------------------------------------------------------
BeginRequest ==
  /\ Send
  /\ Req!Begin
  /\ call' = TheCall

(* request_get() and the writer that libcurl calls.                         *)
Perform ==
  /\ pc = "requested"
  /\ \/ Req!CurlInit
     \/ Req!CurlInitFails
     \/ Req!AuthHeader
     \/ Req!AgentHeader
     \/ Req!Receive
     \/ Req!TransferFails
     \/ Req!TransferEnds
     \/ Req!Succeed
     \/ Req!Fail
  /\ UNCHANGED vars

(* The string is the caller's, who finds the status as it is now.           *)
GetReply ==
  /\ pc = "requested"
  /\ Req!ReturnString
  /\ phase' = "returned"
  /\ status' = written
  /\ local' = IF body' # Exch!NoBody THEN [local EXCEPT !["raw"] = "held"] ELSE local
  /\ pc' = "answered"
  /\ UNCHANGED <<args, outs, parse, error>>

(* free(raw_check_for_update_result) frees the response block.              *)
ReturnOver ==
  /\ Return
  /\ block' = IF local["raw"] # local'["raw"] THEN "freed" ELSE block
  /\ UNCHANGED <<rpc, call, received, res, pos, good, fd, result, written>>

NextOver ==
  \/ BeginRequest
  \/ Perform
  \/ GetReply
  \/ ReturnOver
  \/ /\ \/ Enter
        \/ Refused
        \/ RequestFailed
        \/ NotJson
        \/ Loaded
        \/ RootInvalid
        \/ RootValid
        \/ StartEntry
        \/ Metadata
        \/ Pair
        \/ PairsDone
        \/ Field
        \/ NotAFile
        \/ EntryDone
     /\ UNCHANGED transfer

SpecOver == InitOver /\ [][NextOver]_ovars

(* A call that has begun goes on by itself, but for the transfer, which ends *)
(* or is given up: no other step of it is assumed.                          *)
EndTransfer == (Req!TransferEnds \/ Req!TransferFails) /\ UNCHANGED vars

FairSpecOver ==
  /\ SpecOver
  /\ WF_ovars(Running /\ ~(pc = "requested" /\ rpc = "perform") /\ NextOver)
  /\ WF_ovars(pc = "requested" /\ EndTransfer)

-----------------------------------------------------------------------------
(***************************************************************************)
(* What gaus_check_for_updates was specified against is what it gets: with   *)
(* the code of request.c below it, it behaves as module CheckForUpdates says, *)
(* so that all that is shown there holds of the two together.               *)
(***************************************************************************)
ImplementsUpdates == Spec

(***************************************************************************)
(* The response block has one owner at any time, and is whole when it is     *)
(* read: the caller has a string exactly if request.c has given it away, and *)
(* all of the server's 200 body is in it while it is parsed.  When the call   *)
(* returns neither of the two holds anything it has acquired; the block that *)
(* a failed realloc has lost is leaked, but never by a call that succeeds.   *)
(***************************************************************************)
ReplyIsOwned ==
  /\ pc # "requested" => (local["raw"] = "held" <=> block = "given")
  /\ local["json"] = "held" =>
       answer.code = 200 /\ body = answer.size /\ good = answer.size
  /\ pc = "returned" => LocalsReleased /\ Req!ReleasedUnlessLost
  /\ pc = "returned" /\ error = NoError => res["lost"] # "held"
=============================================================================
