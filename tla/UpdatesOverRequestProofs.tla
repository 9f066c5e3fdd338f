---------------------- MODULE UpdatesOverRequestProofs -----------------------
(***************************************************************************)
(* gaus_check_for_updates() and request.c, composed, do what the two were    *)
(* shown to do apart: the exchange made is one of the contract's, so that    *)
(* every result about module CheckForUpdates holds of the composition, and   *)
(* the response block passes from one to the other without a leak.          *)
(***************************************************************************)
EXTENDS UpdatesOverRequest, CheckForUpdatesProofs

Setup == {"init", "auth", "agent"}

TransferTypeOK ==
  /\ rpc \in Setup \cup {"idle", "perform", "success", "error", "unwind", "returned"}
  /\ call = TheCall
  /\ received \in 0 .. answer.size
  /\ pos \in Nat
  /\ good \in Nat
  /\ block \in {"null", "held", "given", "freed"}
  /\ res \in [Req!Resources -> {"none", "held", "freed"}]

(* The two components take turns.                                           *)
Turns ==
  /\ pc = "requested" <=> rpc \notin {"idle", "returned"}
  /\ pc = "requested" => phase = "calling" /\ body = Exch!NoBody
                         /\ block \in {"null", "held"}

(* What request.c holds at each of its stages, and nothing outside of them.  *)
HeldByStage ==
  /\ rpc \in {"idle", "init", "unwind", "returned"} => \A r \in Req!Releases : res[r] # "held"
  /\ res["file"] # "held"
  /\ rpc \in {"idle", "returned"} => block # "held"

(* How much of the body the response block holds.                           *)
StoredByStage ==
  /\ rpc \in Setup => received = 0 /\ pos = 0 /\ good = 0 /\ block = "null"
  /\ rpc \in {"perform", "success"} =>
       IF block = "held" THEN pos = received /\ good = received
                         ELSE received = 0 /\ pos = 0 /\ good = 0

(* What the status and the result stand for once the transfer is over.      *)
TransferByStage ==
  /\ rpc \in Setup \cup {"perform"} => written = 200
  /\ pc = "requested" /\ written # 200 => written = answer.code
  /\ rpc = "success" => answer.code = 200 /\ written = 200 /\ received = answer.size
  /\ rpc = "unwind" /\ result = 0 =>
       /\ answer.code = 200 /\ written = 200
       /\ IF block = "held" THEN pos = answer.size /\ good = answer.size
                            ELSE answer.size = 0

(* When a response block may have been lost: by a realloc that ends the       *)
(* transfer with an error, or one for an empty body.                        *)
LostByStage ==
  /\ res["lost"] = "held" =>
       \/ answer.size = 0 \/ rpc = "error"
       \/ rpc \in {"unwind", "returned"} /\ result # 0
  /\ pc \in {"root"} \cup Parsing \/ (pc \in {"exit", "returned"} /\ error = NoError) =>
       res["lost"] # "held"

(* Whose the response block is, and what is in it.                          *)
Ownership ==
  /\ pc # "requested" => (local["raw"] = "held" <=> block = "given")
  /\ block = "given" => result = 0 /\ rpc = "returned"
                        /\ answer.code = 200 /\ body = answer.size /\ good = answer.size
  /\ pc = "answered" => (local["raw"] = "held" <=> body # Exch!NoBody)
  /\ local["json"] = "held" => local["raw"] = "held"
  /\ pc \in {"idle", "guards", "requested"} =>
       local["raw"] # "held" /\ local["json"] # "held"

OInv ==
  /\ TransferTypeOK
  /\ Turns
  /\ HeldByStage
  /\ StoredByStage
  /\ TransferByStage
  /\ LostByStage
  /\ Ownership

USE CodesAssumption, MaxBodyAssumption
    DEF Exch!NoBody, Exch!OK, Exch!Preset, Req!NoBody, Req!OK, Req!Exch!NoBody, Req!Exch!OK,
        Req!Exch!Preset

-----------------------------------------------------------------------------
(* The parts of an answer.                                                  *)
LEMMA AnswerParts ==
  ASSUME TypeOK
  PROVE  answer.code \in Nat /\ answer.code \in Codes /\ answer.size \in 0 .. MaxBody
  BY DEF TypeOK, Exch!Answers

(* What may be released is one of the resources, and a released one is not  *)
(* held any more.                                                           *)
LEMMA ReleasedSet ==
  ASSUME res \in [Req!Resources -> {"none", "held", "freed"}], NEW S \in SUBSET Req!Resources
  PROVE  /\ Req!Released(S) \in [Req!Resources -> {"none", "held", "freed"}]
         /\ \A r \in S : Req!Released(S)[r] # "held"
         /\ \A r \in Req!Resources : res[r] # "held" => Req!Released(S)[r] # "held"
  BY DEF Req!Released

(* What the exchange returns is what the contract of module Exchange allows. *)
LEMMA ReplyKeepsContract ==
  ASSUME IInv, OInv, GetReply
  PROVE  Answered
<1>1. /\ pc = "requested" /\ rpc = "unwind" /\ phase = "calling" /\ phase' = "returned"
      /\ answer' = answer /\ status' = written /\ body = Exch!NoBody
      /\ body' = IF block = "held" /\ result = 0 THEN pos ELSE Exch!NoBody
      /\ written # 200 => written = answer.code
      /\ status = 200
  BY DEF IInv, CauseByStage, OInv, Turns, TransferByStage, GetReply, Req!ReturnString
<1>2. Exch!Deliver \/ Exch!Refuse \/ Exch!GiveUp
  <2>1. CASE result = 0
    BY <1>1, <2>1 DEF OInv, TransferByStage, Exch!Deliver
  <2>2. CASE result # 0 /\ written # 200
    BY <1>1, <2>2 DEF Exch!Refuse
  <2>3. CASE result # 0 /\ written = 200
    BY <1>1, <2>3 DEF Exch!GiveUp
  <2> QED
    BY <2>1, <2>2, <2>3
<1> QED
  BY <1>2 DEF GetReply, Answered

LEMMA InitOInv == InitOver => OInv
<1> SUFFICES ASSUME InitOver PROVE OInv
  OBVIOUS
<1>1. TransferTypeOK
  BY AnswerParts, InitIInv DEF InitOver, IInv, Req!Init, TransferTypeOK
<1>2. Turns /\ HeldByStage /\ StoredByStage /\ TransferByStage /\ LostByStage
  BY DEF InitOver, Init, Req!Init, Turns, HeldByStage, StoredByStage, TransferByStage,
         LostByStage, Setup, Req!Resources, Req!Releases
<1>3. Ownership
  BY DEF InitOver, Init, Req!Init, Ownership, Locals
<1> QED
  BY <1>1, <1>2, <1>3 DEF OInv

LEMMA BeginStep ==
  ASSUME IInv, OInv, BeginRequest
  PROVE  OInv'
<1>1. /\ pc = "guards" /\ pc' = "requested" /\ phase' = "calling" /\ body' = Exch!NoBody
      /\ local' = [local EXCEPT !["query_parms"] = "held"]
      /\ local["raw"] # "held" /\ local["json"] # "held"
  BY DEF BeginRequest, Send, Exch!Call, OInv, Ownership
<1>2. /\ call' = TheCall /\ rpc' = "init" /\ received' = 0 /\ pos' = 0 /\ good' = 0
      /\ block' = "null" /\ written' = 200 /\ res' = [r \in Req!Resources |-> "none"]
  BY DEF BeginRequest, Req!Begin, TheCall
<1>3. local'["raw"] # "held" /\ local'["json"] # "held"
  BY <1>1 DEF IInv, TypeOK, Locals
<1>4. TransferTypeOK'
  <2>1. answer'.size \in Nat
    BY DEF BeginRequest, Send, Exch!Call, Exch!Answers
  <2> QED
    BY <1>2, <2>1 DEF TransferTypeOK, Setup
<1>5. Turns' /\ HeldByStage' /\ StoredByStage' /\ TransferByStage' /\ LostByStage'
  BY <1>1, <1>2 DEF Turns, HeldByStage, StoredByStage, TransferByStage, LostByStage, Setup,
     Parsing, Req!Resources, Req!Releases
<1>6. Ownership'
  BY <1>1, <1>2, <1>3 DEF Ownership
<1> QED
  BY <1>4, <1>5, <1>6 DEF OInv

(* Inside request_get(), only request.c's own state changes.                *)
LEMMA PerformStays ==
  ASSUME OInv, Perform
  PROVE  /\ rpc \in Setup \cup {"perform", "success", "error"}
         /\ rpc' \in Setup \cup {"perform", "success", "error", "unwind"}
         /\ UNCHANGED vars /\ call' = call /\ pc = "requested"
  BY DEF Perform, Setup, Req!CurlInit, Req!CurlInitFails, Req!AuthHeader, Req!AgentHeader,
     Req!Receive, Req!Store, Req!StoreFails, Req!WriteFile, Req!TransferFails,
     Req!TransferEnds, Req!Succeed, Req!Fail

LEMMA PerformStep ==
  ASSUME IInv, OInv, Perform
  PROVE  OInv'
<1>0. /\ pc = "requested" /\ pc' = pc /\ call' = TheCall /\ answer' = answer
      /\ rpc' \in Setup \cup {"perform", "success", "error", "unwind"}
      /\ phase' = phase /\ body' = body /\ local' = local /\ block \in {"null", "held"}
      /\ call.sink = "string"
  BY PerformStays DEF OInv, TransferTypeOK, Turns, TheCall, vars
<1>1. CASE Req!CurlInit \/ Req!AuthHeader \/ Req!AgentHeader
  <2>1. /\ UNCHANGED <<received, block, pos, good, written>>
        /\ rpc \in Setup /\ rpc' \in {"auth", "agent", "perform"}
        /\ res' \in [Req!Resources -> {"none", "held", "freed"}]
        /\ res'["file"] = res["file"] /\ res'["lost"] = res["lost"]
    BY <1>1 DEF OInv, TransferTypeOK, Setup, Req!CurlInit, Req!AuthHeader, Req!AgentHeader,
                Req!Resources
  <2> QED
    BY <1>0, <2>1 DEF OInv, TransferTypeOK, Turns, HeldByStage, StoredByStage,
       TransferByStage, LostByStage, Ownership, Setup, Parsing
<1>2. CASE Req!CurlInitFails \/ Req!TransferFails
  <2>1. /\ UNCHANGED <<received, res, block, pos, good, written>>
        /\ rpc' = "error"
    BY <1>2 DEF Req!CurlInitFails, Req!TransferFails
  <2> QED
    BY <1>0, <2>1 DEF OInv, TransferTypeOK, Turns, HeldByStage, StoredByStage,
       TransferByStage, LostByStage, Ownership, Setup, Parsing
<1>3. CASE Req!Receive
  <2>1. PICK n \in Req!Chunks : Req!Store(n) \/ Req!StoreFails(n)
    BY <1>0, <1>3 DEF Req!Receive, Req!WriteFile
  <2>2. /\ n \in Nat /\ received + n \in 0 .. answer.size
        /\ n = 0 => received = 0 /\ pos = 0 /\ answer.size = 0
    <3>1. /\ answer.size \in Nat /\ received \in 0 .. answer.size
          /\ n \in IF answer.size = 0 THEN {0} ELSE 1 .. (answer.size - received)
      BY <2>1, AnswerParts DEF IInv, OInv, TransferTypeOK, Req!Chunks
    <3>2. rpc = "perform"
      BY <2>1 DEF Req!Store, Req!StoreFails
    <3> QED
      BY <3>1, <3>2 DEF OInv, StoredByStage
  <2>3. /\ rpc = "perform" /\ written' = written
        /\ rpc' \in {"perform", "error"} /\ block' \in {"null", "held"}
    BY <2>1 DEF Req!Store, Req!StoreFails, Req!LoseBlock
  <2>4. /\ received' \in 0 .. answer.size /\ pos' \in Nat /\ good' \in Nat
        /\ rpc' = "perform" =>
             IF block' = "held" THEN pos' = received' /\ good' = received'
                                ELSE received' = 0 /\ pos' = 0 /\ good' = 0
    BY <2>1, <2>2 DEF OInv, TransferTypeOK, StoredByStage, Req!Store, Req!StoreFails,
       Req!LoseBlock
  <2>5. /\ res' \in [Req!Resources -> {"none", "held", "freed"}]
        /\ \A r \in Req!Resources \ {"lost"} : res'[r] = res[r]
    BY <2>1 DEF OInv, TransferTypeOK, Req!Store, Req!StoreFails, Req!LoseBlock, Req!Resources
  <2>6. /\ res'["file"] # "held"
        /\ rpc' = "unwind" => \A r \in Req!Releases : res'[r] # "held"
    BY <2>3, <2>5 DEF OInv, HeldByStage, Req!Resources
  <2>7. res'["lost"] = "held" => answer.size = 0 \/ rpc' = "error"
    BY <2>1, <2>2, <2>3 DEF OInv, LostByStage, Req!Store, Req!StoreFails
  <2> QED
    BY <1>0, <2>3, <2>4, <2>5, <2>6, <2>7 DEF OInv, TransferTypeOK, Turns, HeldByStage, StoredByStage,
       TransferByStage, LostByStage, Ownership, Setup, Parsing
<1>4. CASE Req!TransferEnds
  <2>1. /\ UNCHANGED <<received, res, block, pos, good>> /\ rpc = "perform"
        /\ written' = answer.code /\ received = answer.size
        /\ rpc' = IF answer.code = 200 THEN "success" ELSE "error"
    BY <1>4 DEF Req!TransferEnds
  <2> QED
    BY <1>0, <2>1 DEF OInv, TransferTypeOK, Turns, HeldByStage, StoredByStage,
       TransferByStage, LostByStage, Ownership, Setup, Parsing
<1>5. CASE Req!Succeed \/ Req!Fail
  <2>1. /\ UNCHANGED <<received, block, pos, good, written>> /\ rpc' = "unwind"
        /\ res' = Req!Released(Req!Releases)
        /\ result' = 0 => rpc = "success"
        /\ rpc = "success" => result' = 0
    BY <1>0, <1>5 DEF Req!Succeed, Req!Fail, OInv, TransferTypeOK, TheCall
  <2>2. /\ res' \in [Req!Resources -> {"none", "held", "freed"}]
        /\ \A r \in Req!Releases : res'[r] # "held"
        /\ res'["file"] # "held" /\ res'["lost"] = res["lost"]
    BY <2>1, ReleasedSet
    DEF OInv, TransferTypeOK, HeldByStage, Req!Released, Req!Releases, Req!Resources
  <2> QED
    BY <1>0, <2>1, <2>2 DEF OInv, TransferTypeOK, Turns, HeldByStage, StoredByStage,
       TransferByStage, LostByStage, Ownership, Setup, Parsing
<1> QED
  BY <1>1, <1>2, <1>3, <1>4, <1>5 DEF Perform

(* The block is the caller's if the request succeeded, and freed otherwise.  *)
LEMMA GetReplyStep ==
  ASSUME IInv, OInv, GetReply
  PROVE  OInv'
<1>1. /\ pc = "requested" /\ pc' = "answered" /\ rpc = "unwind" /\ rpc' = "returned"
      /\ UNCHANGED <<call, answer, received, res, pos, good, written, result>>
      /\ block \in {"null", "held"}
      /\ block' = IF block = "held" THEN IF result = 0 THEN "given" ELSE "freed" ELSE block
      /\ body' = IF block = "held" /\ result = 0 THEN pos ELSE Exch!NoBody
      /\ local' = IF body' # Exch!NoBody THEN [local EXCEPT !["raw"] = "held"] ELSE local
      /\ local["raw"] # "held" /\ local["json"] # "held" /\ pos \in Nat
  BY DEF GetReply, Req!ReturnString, OInv, Turns, Ownership, TransferTypeOK
<1>2. /\ block' = "given" <=> body' # Exch!NoBody
      /\ block' = "given" =>
           result = 0 /\ answer.code = 200 /\ body' = answer.size /\ good = answer.size
      /\ block' \in {"null", "given", "freed"}
  BY <1>1 DEF OInv, TransferByStage
<1>3. /\ local'["raw"] = "held" <=> body' # Exch!NoBody
      /\ local'["json"] # "held"
  BY <1>1 DEF IInv, TypeOK, Locals
<1>4. TransferTypeOK' /\ Turns'
  BY <1>1, <1>2 DEF OInv, TransferTypeOK, Turns
<1>5. HeldByStage' /\ StoredByStage' /\ TransferByStage' /\ LostByStage'
  BY <1>1, <1>2 DEF OInv, HeldByStage, StoredByStage, TransferByStage, LostByStage, Setup,
                    Parsing
<1>6. Ownership'
  BY <1>1, <1>2, <1>3 DEF Ownership
<1> QED
  BY <1>4, <1>5, <1>6 DEF OInv

(* free() takes the block back, and only what the caller was given.         *)
LEMMA ReturnStepOver ==
  ASSUME IInv, OInv, ReturnOver
  PROVE  OInv'
<1>1. /\ pc = "exit" /\ pc' = "returned"
      /\ UNCHANGED <<exchange, error, rpc, call, received, res, pos, good, fd, result,
                     written>>
      /\ local' = [l \in Locals |-> IF local[l] = "held" THEN "freed" ELSE local[l]]
      /\ block' = IF local["raw"] # local'["raw"] THEN "freed" ELSE block
  BY DEF ReturnOver, Return
<1>2. /\ local'["raw"] # "held" /\ local'["json"] # "held"
      /\ local["raw"] # local'["raw"] <=> local["raw"] = "held"
  BY <1>1 DEF Locals
<1>3. block' # "given" /\ block' # "held" /\ block' \in {"null", "held", "given", "freed"}
  BY <1>1, <1>2 DEF OInv, Ownership, HeldByStage, Turns, TransferTypeOK
<1>4. rpc \in {"idle", "returned"}
  BY <1>1 DEF OInv, Turns, TransferTypeOK, Setup
<1>5. TransferTypeOK' /\ Turns' /\ HeldByStage'
  BY <1>1, <1>3, <1>4 DEF OInv, TransferTypeOK, Turns, HeldByStage, exchange
<1>6. StoredByStage' /\ TransferByStage' /\ Ownership'
  BY <1>1, <1>2, <1>3, <1>4 DEF StoredByStage, TransferByStage, Ownership, Setup
<1>7. LostByStage'
  BY <1>1 DEF OInv, LostByStage, Parsing, exchange
<1> QED
  BY <1>5, <1>6, <1>7 DEF OInv

(* The steps that are the caller's alone.                                   *)
Client ==
  \/ Enter \/ Refused \/ RequestFailed \/ NotJson \/ Loaded \/ RootInvalid \/ RootValid
  \/ StartEntry \/ Metadata \/ Pair \/ PairsDone \/ Field \/ NotAFile \/ EntryDone

LEMMA ClientStep ==
  ASSUME IInv, OInv, Client, UNCHANGED transfer
  PROVE  OInv'
<1>1. pc # "requested" /\ pc' \notin {"idle", "requested", "answered"} /\ UNCHANGED exchange
  BY DEF Client, Enter, Refused, RequestFailed, NotJson, Loaded, RootInvalid, RootValid,
     StartEntry, Metadata, Pair, PairsDone, Field, NotAFile, EntryDone, Exit
<1>2. UNCHANGED <<rpc, call, received, res, block, pos, good, fd, result, written, answer, body>>
  BY <1>1 DEF transfer, exchange
<1>0. LostByStage'
  <2>1. res["lost"] = "held" => answer.size = 0 \/ rpc = "error" \/ result # 0
    BY DEF OInv, LostByStage
  <2>2. CASE Loaded
    <3>1. pc = "answered" /\ body > 0 /\ block = "given"
      BY <2>2 DEF Loaded, IInv, TypeOK, OInv, Ownership, Exch!NoBody
    <3>2. answer.size > 0 /\ rpc = "returned" /\ result = 0
      BY <3>1 DEF OInv, Ownership
    <3> QED
      BY <1>2, <2>1, <3>2 DEF LostByStage
  <2>3. CASE Enter \/ Refused \/ RequestFailed \/ NotJson \/ RootInvalid
    <3>1. pc' = "guards" \/ (pc' = "exit" /\ error' # NoError)
      BY <2>3 DEF Enter, Refused, RequestFailed, NotJson, RootInvalid, Exit, Invalid, Error,
                  NoError
    <3> QED
      BY <1>2, <3>1 DEF OInv, LostByStage, Parsing
  <2>4. CASE RootValid \/ StartEntry \/ Metadata \/ Pair \/ PairsDone \/ Field \/ NotAFile
             \/ EntryDone
    <3>1. pc \in {"root"} \cup Parsing
      BY <2>4 DEF RootValid, StartEntry, Metadata, Pair, PairsDone, Field, NotAFile, EntryDone,
                  Parsing
    <3> QED
      BY <1>2, <3>1 DEF OInv, LostByStage
  <2> QED
    BY <2>2, <2>3, <2>4 DEF Client
<1>3. TransferTypeOK' /\ Turns' /\ HeldByStage' /\ StoredByStage' /\ TransferByStage'
  BY <1>1, <1>2 DEF OInv, TransferTypeOK, Turns, HeldByStage, StoredByStage, TransferByStage
<1>4. CASE Enter
  <2>1. pc \in {"idle", "returned"} /\ local'["raw"] # "held" /\ local'["json"] # "held"
    BY <1>4 DEF Enter, Locals
  <2>2. local["raw"] # "held"
    BY <2>1 DEF IInv, LocalsReleased, OInv, Ownership, Locals
  <2> QED
    BY <1>0, <1>1, <1>2, <1>3, <2>1, <2>2 DEF OInv, Ownership
<1>5. CASE Loaded
  <2>1. /\ pc = "answered" /\ pc' = "root" /\ body > 0
        /\ local' = [local EXCEPT !["json"] = "held"]
    BY <1>5 DEF Loaded
  <2>2. local'["raw"] = local["raw"] /\ local["raw"] = "held"
    BY <2>1 DEF IInv, TypeOK, Locals, OInv, Ownership
  <2> QED
    BY <1>0, <1>1, <1>2, <1>3, <2>1, <2>2 DEF OInv, Ownership
<1>6. CASE ~Enter /\ ~Loaded
  <2>1. local' = local /\ pc' # "guards"
    BY <1>6 DEF Client, Refused, RequestFailed, NotJson, RootInvalid, RootValid, StartEntry,
       Metadata, Pair, PairsDone, Field, NotAFile, EntryDone, Exit
  <2> QED
    BY <1>0, <1>1, <1>2, <1>3, <2>1 DEF OInv, Ownership
<1> QED
  BY <1>4, <1>5, <1>6

LEMMA NextOInv == IInv /\ OInv /\ [NextOver]_ovars => OInv'
<1> SUFFICES ASSUME IInv, OInv, [NextOver]_ovars PROVE OInv'
  OBVIOUS
<1>1. CASE UNCHANGED ovars
  BY <1>1 DEF ovars, vars, transfer, OInv, TransferTypeOK, Turns, HeldByStage, StoredByStage,
              TransferByStage, LostByStage, Ownership
<1>2. CASE NextOver
  BY <1>2, BeginStep, PerformStep, GetReplyStep, ReturnStepOver, ClientStep
  DEF NextOver, Client
<1> QED
  BY <1>1, <1>2

(* Every step of the composition is one of the caller's, as specified over   *)
(* the contract, or invisible to it.                                        *)
LEMMA StepImplements == IInv /\ OInv /\ [NextOver]_ovars => [Next]_vars
<1> SUFFICES ASSUME IInv, OInv, [NextOver]_ovars PROVE [Next]_vars
  OBVIOUS
<1>1. CASE BeginRequest
  BY <1>1 DEF BeginRequest, Next
<1>2. CASE Perform
  BY <1>2, PerformStays
<1>3. CASE GetReply
  BY <1>3, ReplyKeepsContract DEF Next
<1>4. CASE ReturnOver
  BY <1>4 DEF ReturnOver, Next
<1>5. CASE Client
  BY <1>5 DEF Client, Next
<1>6. CASE UNCHANGED ovars
  BY <1>6 DEF ovars
<1> QED
  BY <1>1, <1>2, <1>3, <1>4, <1>5, <1>6 DEF NextOver, Client

(***************************************************************************)
(* The two invariants together are inductive: the caller's says what an      *)
(* exchange starts from, request.c's what it ends with.                     *)
(***************************************************************************)
THEOREM InductiveOver == SpecOver => [](IInv /\ OInv)
<1>1. InitOver => IInv /\ OInv
  BY InitIInv, InitOInv DEF InitOver
<1>2. IInv /\ OInv /\ [NextOver]_ovars => IInv' /\ OInv'
  BY StepImplements, NextIInv, NextOInv
<1> QED
  BY <1>1, <1>2, PTL DEF SpecOver

(***************************************************************************)
(* gaus_check_for_updates over the code of request.c implements its own      *)
(* specification over the contract, for bodies of any length, cut into any   *)
(* chunks.                                                                  *)
(***************************************************************************)
THEOREM ImplementsOver == SpecOver => ImplementsUpdates
<1>1. InitOver => Init
  BY DEF InitOver
<1> QED
  BY <1>1, InductiveOver, StepImplements, PTL DEF SpecOver, Spec, ImplementsUpdates

(***************************************************************************)
(* The response block changes hands without being freed twice or read        *)
(* half-filled, whichever step of the two fails; it is lost only by a realloc *)
(* that fails, and never in a call that succeeds.                           *)
(***************************************************************************)
THEOREM OwnedReply == SpecOver => []ReplyIsOwned
<1>1. IInv /\ OInv => ReplyIsOwned
  <2> SUFFICES ASSUME IInv, OInv PROVE ReplyIsOwned
    OBVIOUS
  <2>1. local["json"] = "held" => answer.code = 200 /\ body = answer.size /\ good = answer.size
    BY DEF OInv, Ownership
  <2>2. Req!ReleasedUnlessLost
    BY DEF OInv, Turns, HeldByStage, LostByStage, Req!ReleasedUnlessLost, Req!Resources,
           Req!Releases
  <2>3. pc = "returned" /\ error = NoError => res["lost"] # "held"
    BY DEF OInv, LostByStage
  <2> QED
    BY <2>1, <2>2, <2>3 DEF IInv, OInv, Ownership, ReplyIsOwned
<1> QED
  BY <1>1, InductiveOver, PTL

(***************************************************************************)
(* What was proved over the contract holds over the code: what is delivered, *)
(* with which sizes, what is assigned when it fails, which error is          *)
(* returned, and that no string is overwritten.                             *)
(***************************************************************************)
THEOREM EndToEnd ==
  SpecOver => /\ []DeliveredUpToOther
              /\ []SizesAreExact
              /\ []AssignedUpToFailure
              /\ []ErrorNamesItsCause
              /\ NoStringOverwritten
              /\ CallIsBounded
              /\ ImplementsEntryPoint
  BY ImplementsOver, DeliveredWhole, ExactSizes, AssignedBefore, NamedCause, StringsKept,
     Bounded, Implements DEF ImplementsUpdates
-----------------------------------------------------------------------------
BytesLeft == answer.size - received

(* Steps that request.c has left, at most, until it returns to the caller.   *)
TransferLeft ==
  CASE rpc = "init" -> BytesLeft + 6
    [] rpc = "auth" -> BytesLeft + 5
    [] rpc = "agent" -> BytesLeft + 4
    [] rpc = "perform" -> BytesLeft + 3
    [] rpc \in {"success", "error"} -> 2
    [] rpc = "unwind" -> 1
    [] OTHER -> 0

(* libcurl hands over an empty body.                                        *)
EmptyChunk ==
  /\ rpc = "perform" /\ rpc' = "perform"
  /\ answer.size = 0 /\ received' = received

(***************************************************************************)
(* The two together come to an end: the caller's steps bring it nearer to     *)
(* its return, and those of request.c, which leave it where it is, bring     *)
(* request.c nearer to its own.                                             *)
(***************************************************************************)
CallIsBoundedOver ==
  [][Running =>
       \/ StepsLeft' < StepsLeft
       \/ /\ pc = "requested" /\ UNCHANGED vars
          /\ TransferLeft' < TransferLeft \/ EmptyChunk]_ovars

LEMMA TransferByStages ==
  /\ rpc = "init" => TransferLeft = BytesLeft + 6
  /\ rpc = "auth" => TransferLeft = BytesLeft + 5
  /\ rpc = "agent" => TransferLeft = BytesLeft + 4
  /\ rpc = "perform" => TransferLeft = BytesLeft + 3
  /\ rpc \in {"success", "error"} => TransferLeft = 2
  /\ rpc = "unwind" => TransferLeft = 1
  /\ rpc \in {"idle", "returned"} => TransferLeft = 0
  BY DEF TransferLeft

LEMMA TransferByStagesAfter ==
  /\ rpc' = "auth" => TransferLeft' = BytesLeft' + 5
  /\ rpc' = "agent" => TransferLeft' = BytesLeft' + 4
  /\ rpc' = "perform" => TransferLeft' = BytesLeft' + 3
  /\ rpc' \in {"success", "error"} => TransferLeft' = 2
  /\ rpc' = "unwind" => TransferLeft' = 1
  BY DEF TransferLeft

LEMMA BytesInRange ==
  ASSUME IInv, OInv
  PROVE  /\ BytesLeft \in 0 .. MaxBody
         /\ answer.size \in Nat /\ received \in Nat /\ received <= answer.size
<1>1. answer.size \in 0 .. MaxBody /\ received \in 0 .. answer.size
  BY AnswerParts DEF IInv, OInv, TransferTypeOK
<1> QED
  BY <1>1 DEF BytesLeft

LEMMA TransferInRange ==
  ASSUME IInv, OInv
  PROVE  TransferLeft \in 0 .. MaxBody + 6
<1>1. BytesLeft \in 0 .. MaxBody
  BY BytesInRange
<1> QED
  BY <1>1, TransferByStages DEF OInv, TransferTypeOK, Setup

LEMMA FewerTransferSteps ==
  ASSUME IInv, OInv, Perform
  PROVE  TransferLeft' < TransferLeft \/ EmptyChunk
<1>1. /\ BytesLeft \in Nat
      /\ answer.size \in Nat /\ received \in Nat /\ received <= answer.size
      /\ answer' = answer /\ call.sink = "string"
  BY BytesInRange, PerformStays DEF vars, exchange, OInv, TransferTypeOK, TheCall
<1>2. CASE Req!CurlInit \/ Req!AuthHeader \/ Req!AgentHeader
  <2>1. /\ received' = received
        /\ \/ rpc = "init" /\ rpc' = "auth"
           \/ rpc = "auth" /\ rpc' = "agent"
           \/ rpc = "agent" /\ rpc' = "perform"
    BY <1>2 DEF Req!CurlInit, Req!AuthHeader, Req!AgentHeader
  <2>2. BytesLeft' = BytesLeft
    BY <1>1, <2>1 DEF BytesLeft
  <2> QED
    BY <1>1, <2>1, <2>2, TransferByStages, TransferByStagesAfter
<1>3. CASE Req!CurlInitFails \/ Req!TransferFails \/ Req!TransferEnds \/ Req!Succeed
           \/ Req!Fail \/ (Req!Receive /\ rpc' = "error")
  <2>1. \/ rpc \in {"init", "perform"} /\ rpc' \in {"error", "success"}
        \/ rpc \in {"success", "error"} /\ rpc' = "unwind"
    BY <1>3 DEF Req!CurlInitFails, Req!TransferFails, Req!TransferEnds, Req!Succeed, Req!Fail,
                Req!Receive, Req!Store, Req!StoreFails, Req!WriteFile
  <2> QED
    BY <1>1, <2>1, TransferByStages, TransferByStagesAfter
<1>4. CASE Req!Receive /\ rpc' # "error"
  <2>1. PICK n \in Req!Chunks : /\ rpc = "perform" /\ rpc' = "perform"
                                /\ received' = received + n
    BY <1>4 DEF Req!Receive, Req!Store, Req!StoreFails, Req!WriteFile
  <2>2. CASE answer.size = 0
    BY <1>1, <2>1, <2>2 DEF Req!Chunks, EmptyChunk
  <2>3. CASE answer.size # 0
    <3>1. n \in Nat /\ n >= 1
      BY <1>1, <2>1, <2>3 DEF Req!Chunks
    <3>2. BytesLeft' = BytesLeft - n
      BY <1>1, <2>1, <3>1 DEF BytesLeft
    <3>3. TransferLeft = BytesLeft + 3 /\ TransferLeft' = BytesLeft - n + 3
      BY <2>1, <3>2, TransferByStages, TransferByStagesAfter
    <3> QED
      BY <1>1, <3>1, <3>3
  <2> QED
    BY <2>2, <2>3
<1> QED
  BY <1>2, <1>3, <1>4 DEF Perform

(***************************************************************************)
(* Both measures are bounded by the sizes of the reply alone.               *)
(***************************************************************************)
THEOREM BoundedOver ==
  SpecOver => /\ [](StepsLeft \in 0 .. AllUpdates + 6 /\ TransferLeft \in 0 .. MaxBody + 6)
              /\ CallIsBoundedOver
<1>1. IInv /\ OInv => StepsLeft \in 0 .. AllUpdates + 6 /\ TransferLeft \in 0 .. MaxBody + 6
  BY StepsInRange, TransferInRange
<1>2. IInv /\ OInv /\ [NextOver]_ovars =>
        [Running =>
           \/ StepsLeft' < StepsLeft
           \/ /\ pc = "requested" /\ UNCHANGED vars
              /\ TransferLeft' < TransferLeft \/ EmptyChunk]_ovars
  <2> SUFFICES ASSUME IInv, OInv, NextOver, Running
               PROVE  \/ StepsLeft' < StepsLeft
                      \/ /\ pc = "requested" /\ UNCHANGED vars
                         /\ TransferLeft' < TransferLeft \/ EmptyChunk
    OBVIOUS
  <2>1. CASE Perform
    BY <2>1, PerformStays, FewerTransferSteps
  <2>2. CASE ~Perform
    <3>1. Next
      <4>1. CASE BeginRequest
        BY <4>1 DEF BeginRequest, Next
      <4>2. CASE GetReply
        BY <4>2, ReplyKeepsContract DEF Next
      <4>3. CASE ReturnOver
        BY <4>3 DEF ReturnOver, Next
      <4>4. CASE Client
        BY <4>4 DEF Client, Next
      <4> QED
        BY <2>2, <4>1, <4>2, <4>3, <4>4 DEF NextOver, Client
    <3> QED
      BY <3>1, FewerSteps
  <2> QED
    BY <2>1, <2>2
<1> QED
  BY <1>1, <1>2, InductiveOver, PTL DEF SpecOver, CallIsBoundedOver
=============================================================================
