---------------------------- MODULE RequestProofs ----------------------------
(***************************************************************************)
(* What an HTTP exchange of request.c guarantees for every set of response   *)
(* codes, every length of body and every way it is cut into chunks, and     *)
(* that it implements the contract of module Exchange.                      *)
(***************************************************************************)
EXTENDS Request, TLAPS

(* What each stage of a call holds: nothing before curl is there, only the  *)
(* FILE of the caller's descriptor once the common exit was taken.          *)
HeldByStage ==
  /\ pc \in {"idle", "fdopen", "returned"} =>
       \A r \in Resources \ {"lost"} : res[r] # "held"
  /\ pc \in {"init", "unwind"} => \A r \in Releases : res[r] # "held"
  /\ call.sink = "string" => pc # "fdopen" /\ res["file"] # "held"
  /\ pc \in {"idle", "returned"} => block # "held"

(* When a block can have been lost: by a failed realloc, which ends the     *)
(* transfer if it was for a chunk that is not empty.                        *)
LostByStage ==
  res["lost"] = "held" =>
    answer.size = 0 \/ pc = "error" \/ (pc \in {"unwind", "returned"} /\ result # 0)

(* How much of the body the response holds while the transfer is running.   *)
StoredByStage ==
  /\ pc \in {"idle", "fdopen", "init", "auth", "agent"} => received = 0 /\ pos = 0 /\ good = 0
  /\ pc \in {"idle", "fdopen", "init", "auth", "agent"} => block = "null"
  /\ pc \in {"perform", "success"} /\ (block = "held" \/ call.sink = "file")
       => pos = received /\ good = received
  /\ pc \in {"perform", "success"} /\ block # "held" /\ call.sink = "string"
       => received = 0 /\ pos = 0 /\ good = 0
  /\ pc # "returned" => block \in {"null", "held"}
  /\ call.sink = "file" => block = "null"

(* What the status and the result stand for once the transfer is over.      *)
OutcomeByStage ==
  /\ pc \in {"idle", "fdopen", "init", "auth", "agent", "perform"} => status = OK
  /\ status # OK => status = answer.code
  /\ pc = "success" => answer.code = OK /\ status = OK /\ received = answer.size
  /\ pc = "unwind" /\ result = 0 =>
       /\ answer.code = OK /\ status = OK /\ received = answer.size
       /\ block = "held" \/ call.sink = "file" => pos = answer.size /\ good = answer.size
       /\ block = "null" /\ call.sink = "string" => answer.size = 0
  /\ pc = "unwind" /\ call.method = "GET" => result # 1
  /\ pc # "returned" => body = NoBody
  /\ pc \notin {"idle", "returned"} /\ call.sink = "file" => fd = "open"

IInv ==
  /\ TypeOK
  /\ HeldByStage
  /\ LostByStage
  /\ StoredByStage
  /\ OutcomeByStage
  /\ FdOwnerKnown
  /\ BodyIsWhole

USE CodesAssumption, MaxBodyAssumption DEF OK, NoBody, Exch!OK, Exch!NoBody, Exch!Preset

(* A call that downloads to a file is a GET.                                *)
LEMMA FileIsGet == \A c \in Calls : c.sink = "file" => c.method = "GET"
  BY DEF Calls

(* The parts of an answer.                                                  *)
LEMMA AnswerParts ==
  \A a \in Exch!Answers : a.code \in Nat /\ a.code \in Codes /\ a.size \in 0 .. MaxBody
  BY DEF Exch!Answers

(* What may be released is one of the resources, and a released one is not  *)
(* held any more.                                                           *)
LEMMA ReleasedSet ==
  ASSUME res \in [Resources -> {"none", "held", "freed"}], NEW S \in SUBSET Resources
  PROVE  /\ Released(S) \in [Resources -> {"none", "held", "freed"}]
         /\ \A r \in S : Released(S)[r] # "held"
         /\ \A r \in Resources : res[r] # "held" => Released(S)[r] # "held"
         /\ \A r \in Resources \ S : Released(S)[r] = res[r]
  BY DEF Released

LEMMA InitIInv == Init => IInv
<1> SUFFICES ASSUME Init PROVE IInv
  OBVIOUS
<1>1. TypeOK
  BY AnswerParts DEF Init, TypeOK
<1>2. HeldByStage /\ LostByStage
  BY DEF Init, HeldByStage, LostByStage, Resources, Releases
<1>3. StoredByStage /\ OutcomeByStage /\ FdOwnerKnown /\ BodyIsWhole
  BY DEF Init, StoredByStage, OutcomeByStage, FdOwnerKnown, BodyIsWhole
<1> QED
  BY <1>1, <1>2, <1>3 DEF IInv

(* Every step keeps the types; the bounds of `received`, `pos` and `good`    *)
(* need to know how they relate while chunks arrive.                        *)
LEMMA NextTypeOK == IInv /\ [Next]_vars => TypeOK'
<1> SUFFICES ASSUME IInv, [Next]_vars PROVE TypeOK'
  OBVIOUS
<1> USE DEF TypeOK
<1>0. TypeOK
  BY DEF IInv
<1>1. CASE Begin
  BY <1>0, <1>1, AnswerParts DEF Begin
<1>2. CASE FdOpen
  BY <1>0, <1>2 DEF FdOpen, Resources
<1>3. CASE FdOpenFails
  BY <1>0, <1>3 DEF FdOpenFails
<1>4. CASE CurlInit
  BY <1>0, <1>4 DEF CurlInit, Resources
<1>5. CASE CurlInitFails
  BY <1>0, <1>5 DEF CurlInitFails
<1>6. CASE AuthHeader
  BY <1>0, <1>6 DEF AuthHeader, Resources
<1>7. CASE AgentHeader
  BY <1>0, <1>7 DEF AgentHeader, Resources
<1>8. CASE Receive
  <2>1. PICK n \in Chunks : \/ Store(n)
                            \/ StoreFails(n)
                            \/ \E k \in 0 .. n : WriteFile(n, k)
    BY <1>8 DEF Receive
  <2>2. n \in Nat /\ received + n \in 0 .. answer.size /\ answer.size \in 0 .. MaxBody
    BY <1>0, <2>1, AnswerParts DEF Chunks
  <2>3. pc = "perform" => pos = received /\ good = received
    BY <1>0 DEF IInv, StoredByStage, Calls
  <2>4. CASE Store(n)
    BY <1>0, <2>2, <2>3, <2>4 DEF Store
  <2>5. CASE StoreFails(n)
    BY <1>0, <2>2, <2>5 DEF StoreFails, LoseBlock, Resources
  <2>6. CASE \E k \in 0 .. n : WriteFile(n, k)
    BY <1>0, <2>2, <2>3, <2>6 DEF WriteFile
  <2> QED
    BY <2>1, <2>4, <2>5, <2>6
<1>9. CASE TransferFails
  BY <1>0, <1>9 DEF TransferFails
<1>10. CASE TransferEnds
  BY <1>0, <1>10, AnswerParts DEF TransferEnds
<1>11. CASE Succeed
  BY <1>0, <1>11, ReleasedSet DEF Succeed, Releases, Resources
<1>12. CASE Fail
  BY <1>0, <1>12, ReleasedSet DEF Fail, Releases, Resources
<1>13. CASE ReturnString
  BY <1>0, <1>13 DEF ReturnString
<1>14. CASE ReturnFile
  BY <1>0, <1>14, ReleasedSet DEF ReturnFile, Resources
<1>15. CASE UNCHANGED vars
  BY <1>0, <1>15 DEF vars
<1> QED
  BY <1>1, <1>2, <1>3, <1>4, <1>5, <1>6, <1>7, <1>8, <1>9, <1>10, <1>11, <1>12, <1>13,
     <1>14, <1>15 DEF Next

(* The common exit leaves nothing held but the FILE.                        *)
LEMMA ExitHeld ==
  ASSUME TypeOK, HeldByStage, Succeed \/ Fail
  PROVE  HeldByStage'
<1>1. res' = Released(Releases) /\ pc' = "unwind" /\ call' = call
  BY DEF Succeed, Fail
<1>2. pc # "returned"
  BY DEF Succeed, Fail
<1>3. /\ \A r \in Releases : res'[r] # "held"
      /\ res["file"] # "held" => res'["file"] # "held"
  BY <1>1, ReleasedSet DEF TypeOK, Releases, Resources
<1> QED
  BY <1>1, <1>3 DEF HeldByStage

(* Every step keeps what is held at each stage.                             *)
LEMMA NextHeld == IInv /\ [Next]_vars => HeldByStage'
<1> SUFFICES ASSUME IInv, [Next]_vars PROVE HeldByStage'
  OBVIOUS
<1>0. TypeOK /\ HeldByStage /\ StoredByStage
  BY DEF IInv
<1> USE <1>0 DEF HeldByStage
<1>1. CASE Begin
  <2>1. \A r \in Resources : res'[r] = "none"
    BY <1>1 DEF Begin
  <2>2. /\ pc' \in {"fdopen", "init"}
        /\ call'.sink = "string" => pc' = "init"
    BY <1>1 DEF Begin
  <2> QED
    BY <2>1, <2>2 DEF Resources, Releases
<1>2. CASE FdOpen
  BY <1>2 DEF FdOpen, TypeOK, Releases, Resources
<1>3. CASE FdOpenFails
  BY <1>3 DEF FdOpenFails, StoredByStage
<1>4. CASE CurlInit
  BY <1>4 DEF CurlInit, TypeOK, Resources
<1>5. CASE CurlInitFails
  BY <1>5 DEF CurlInitFails
<1>6. CASE AuthHeader
  BY <1>6 DEF AuthHeader, TypeOK, Resources
<1>7. CASE AgentHeader
  BY <1>7 DEF AgentHeader, TypeOK, Resources
<1>8. CASE Receive
  <2>1. /\ pc = "perform" /\ pc' \in {"perform", "error"} /\ call' = call
        /\ \A r \in Resources \ {"lost"} : res'[r] = res[r]
    BY <1>8 DEF Receive, Store, StoreFails, WriteFile, LoseBlock, TypeOK, Resources
  <2> QED
    BY <2>1 DEF Resources, Releases
<1>9. CASE TransferFails \/ TransferEnds
  BY <1>9 DEF TransferFails, TransferEnds
<1>10. CASE Succeed \/ Fail
  BY <1>10, ExitHeld
<1>11. CASE ReturnString
  BY <1>11 DEF ReturnString, Releases, Resources
<1>12. CASE ReturnFile
  <2>1. \A r \in Resources \ {"lost"} : res'[r] # "held"
    BY <1>12, ReleasedSet DEF ReturnFile, TypeOK, Releases, Resources
  <2>2. block' # "held" /\ pc' = "returned" /\ call' = call
    BY <1>12 DEF ReturnFile, StoredByStage
  <2> QED
    BY <2>1, <2>2 DEF Resources
<1>13. CASE UNCHANGED vars
  BY <1>13 DEF vars
<1> QED
  BY <1>1, <1>2, <1>3, <1>4, <1>5, <1>6, <1>7, <1>8, <1>9, <1>10, <1>11, <1>12, <1>13
  DEF Next

(* Every step keeps when a block can have been lost.                        *)
LEMMA NextLost == IInv /\ [Next]_vars => LostByStage'
<1> SUFFICES ASSUME IInv, [Next]_vars PROVE LostByStage'
  OBVIOUS
<1>0. TypeOK /\ LostByStage
  BY DEF IInv
<1> USE <1>0 DEF LostByStage
<1>1. CASE Begin
  BY <1>1 DEF Begin, Resources
<1>2. CASE FdOpen \/ FdOpenFails \/ CurlInit \/ CurlInitFails
  BY <1>2 DEF FdOpen, FdOpenFails, CurlInit, CurlInitFails, TypeOK, Resources
<1>3. CASE AuthHeader \/ AgentHeader
  BY <1>3 DEF AuthHeader, AgentHeader, TypeOK, Resources
<1>4. CASE Receive
  <2>1. PICK n \in Chunks : \/ Store(n)
                            \/ StoreFails(n)
                            \/ \E k \in 0 .. n : WriteFile(n, k)
    BY <1>4 DEF Receive
  <2>2. n = 0 => answer.size = 0
    BY <2>1 DEF Chunks
  <2>3. CASE StoreFails(n)
    BY <2>2, <2>3 DEF StoreFails
  <2>4. CASE Store(n) \/ \E k \in 0 .. n : WriteFile(n, k)
    BY <2>4 DEF Store, WriteFile
  <2> QED
    BY <2>1, <2>3, <2>4
<1>5. CASE TransferFails \/ TransferEnds
  BY <1>5 DEF TransferFails, TransferEnds
<1>6. CASE Succeed \/ Fail
  <2>1. Released(Releases)["lost"] = res["lost"]
    BY ReleasedSet DEF TypeOK, Releases, Resources
  <2> QED
    BY <1>6, <2>1 DEF Succeed, Fail
<1>7. CASE ReturnString
  BY <1>7 DEF ReturnString
<1>8. CASE ReturnFile
  <2>1. Released({"file"})["lost"] = res["lost"]
    BY ReleasedSet DEF TypeOK, Resources
  <2> QED
    BY <1>8, <2>1 DEF ReturnFile
<1>9. CASE UNCHANGED vars
  BY <1>9 DEF vars
<1> QED
  BY <1>1, <1>2, <1>3, <1>4, <1>5, <1>6, <1>7, <1>8, <1>9 DEF Next

(* Every step keeps what the response holds at each stage.                  *)
LEMMA NextStored == IInv /\ [Next]_vars => StoredByStage'
<1> SUFFICES ASSUME IInv, [Next]_vars PROVE StoredByStage'
  OBVIOUS
<1>0. TypeOK /\ StoredByStage
  BY DEF IInv
<1> USE <1>0 DEF StoredByStage
<1>1. CASE Begin
  BY <1>1 DEF Begin
<1>2. CASE FdOpen \/ FdOpenFails
  BY <1>2 DEF FdOpen, FdOpenFails
<1>3. CASE CurlInit \/ CurlInitFails
  BY <1>3 DEF CurlInit, CurlInitFails
<1>4. CASE AuthHeader \/ AgentHeader
  BY <1>4 DEF AuthHeader, AgentHeader
<1>5. CASE Receive
  <2>1. PICK n \in Chunks : \/ Store(n)
                            \/ StoreFails(n)
                            \/ \E k \in 0 .. n : WriteFile(n, k)
    BY <1>5 DEF Receive
  <2>2. n \in Nat /\ received \in Nat /\ (n = 0 => answer.size = 0 /\ received = 0)
    BY <2>1, AnswerParts DEF Chunks, TypeOK
  <2>3. call.sink \in {"string", "file"}
    BY DEF TypeOK, Calls
  <2>4. CASE Store(n)
    BY <2>2, <2>3, <2>4 DEF Store
  <2>5. CASE StoreFails(n)
    <3>1. pos = 0 \/ n # 0
      BY <2>2, <2>5 DEF StoreFails
    <3> QED
      BY <2>2, <2>5, <3>1 DEF StoreFails, LoseBlock
  <2>6. CASE \E k \in 0 .. n : WriteFile(n, k)
    BY <2>2, <2>6 DEF WriteFile
  <2> QED
    BY <2>1, <2>4, <2>5, <2>6
<1>6. CASE TransferFails \/ TransferEnds
  BY <1>6 DEF TransferFails, TransferEnds
<1>7. CASE Succeed \/ Fail
  BY <1>7 DEF Succeed, Fail
<1>8. CASE ReturnString \/ ReturnFile
  BY <1>8 DEF ReturnString, ReturnFile
<1>9. CASE UNCHANGED vars
  BY <1>9 DEF vars
<1> QED
  BY <1>1, <1>2, <1>3, <1>4, <1>5, <1>6, <1>7, <1>8, <1>9 DEF Next

(* Every step keeps what status and result stand for.                       *)
LEMMA NextOutcome == IInv /\ [Next]_vars => OutcomeByStage'
<1> SUFFICES ASSUME IInv, [Next]_vars PROVE OutcomeByStage'
  OBVIOUS
<1>0. TypeOK /\ OutcomeByStage
  BY DEF IInv
<1> USE <1>0 DEF OutcomeByStage
<1>1. CASE Begin
  BY <1>1 DEF Begin
<1>2. CASE FdOpen \/ FdOpenFails
  BY <1>2 DEF FdOpen, FdOpenFails
<1>3. CASE CurlInit \/ CurlInitFails
  BY <1>3 DEF CurlInit, CurlInitFails
<1>4. CASE AuthHeader \/ AgentHeader
  BY <1>4 DEF AuthHeader, AgentHeader
<1>5. CASE Receive
  BY <1>5 DEF Receive, Store, StoreFails, WriteFile
<1>6. CASE TransferFails \/ TransferEnds
  BY <1>6 DEF TransferFails, TransferEnds
<1>7. CASE Succeed
  <2>1. /\ answer.code = OK /\ status = OK /\ received = answer.size
        /\ block \in {"null", "held"} /\ call.sink \in {"string", "file"}
        /\ (block = "held" \/ call.sink = "file") => pos = received /\ good = received
        /\ (block = "null" /\ call.sink = "string") => received = 0
    BY <1>7 DEF Succeed, IInv, StoredByStage, TypeOK, Calls
  <2> QED
    BY <1>7, <2>1 DEF Succeed
<1>8. CASE Fail
  BY <1>8 DEF Fail
<1>9. CASE ReturnString \/ ReturnFile
  BY <1>9 DEF ReturnString, ReturnFile
<1>10. CASE UNCHANGED vars
  BY <1>10 DEF vars
<1> QED
  BY <1>1, <1>2, <1>3, <1>4, <1>5, <1>6, <1>7, <1>8, <1>9, <1>10 DEF Next

(* Only a step that returns to the caller can disturb what it is handed.    *)
LEMMA NextReturned == IInv /\ [Next]_vars => FdOwnerKnown' /\ BodyIsWhole'
<1> SUFFICES ASSUME IInv, [Next]_vars PROVE FdOwnerKnown' /\ BodyIsWhole'
  OBVIOUS
<1>0. TypeOK /\ OutcomeByStage /\ StoredByStage
  BY DEF IInv
<1>1. CASE pc' # "returned"
  BY <1>1 DEF FdOwnerKnown, BodyIsWhole
<1>2. CASE FdOpenFails
  BY <1>0, <1>2 DEF FdOpenFails, OutcomeByStage, StoredByStage, FdOwnerKnown, BodyIsWhole
<1>3. CASE ReturnString
  <2>1. /\ pc = "unwind" /\ call.sink = "string" /\ block \in {"null", "held"}
        /\ pos \in Nat
    BY <1>0, <1>3 DEF ReturnString, StoredByStage, TypeOK
  <2>2. FdOwnerKnown'
    BY <1>3, <2>1 DEF ReturnString, FdOwnerKnown
  <2>3. CASE block = "held" /\ result = 0
    BY <1>0, <1>3, <2>1, <2>2, <2>3 DEF ReturnString, OutcomeByStage, BodyIsWhole
  <2>4. CASE ~(block = "held" /\ result = 0)
    <3>1. block' # "given" /\ body' = NoBody
      BY <1>3, <2>1, <2>4 DEF ReturnString
    <3> QED
      BY <2>2, <3>1 DEF BodyIsWhole
  <2> QED
    BY <2>2, <2>3, <2>4
<1>4. CASE ReturnFile
  <2>1. /\ pc = "unwind" /\ call.sink = "file" /\ call.method = "GET" /\ block = "null"
    BY <1>0, <1>4, FileIsGet DEF ReturnFile, StoredByStage, TypeOK
  <2>2. FdOwnerKnown'
    BY <1>0, <1>4, <2>1 DEF ReturnFile, OutcomeByStage, FdOwnerKnown
  <2>3. BodyIsWhole'
    BY <1>0, <1>4, <2>1 DEF ReturnFile, OutcomeByStage, BodyIsWhole
  <2> QED
    BY <2>2, <2>3
<1>5. CASE UNCHANGED vars
  BY <1>5 DEF vars, IInv, FdOwnerKnown, BodyIsWhole
<1>6. pc' # "returned" \/ FdOpenFails \/ ReturnString \/ ReturnFile \/ UNCHANGED vars
  BY DEF Next, Begin, FdOpen, CurlInit, CurlInitFails, AuthHeader, AgentHeader, Receive,
         Store, StoreFails, WriteFile, TransferFails, TransferEnds, Succeed, Fail
<1> QED
  BY <1>1, <1>2, <1>3, <1>4, <1>5, <1>6

(* The inductive invariant holds in every reachable state.                  *)
THEOREM Inductive == Spec => []IInv
<1>1. IInv /\ [Next]_vars => IInv'
  BY NextTypeOK, NextHeld, NextLost, NextStored, NextOutcome, NextReturned DEF IInv
<1> QED
  BY InitIInv, <1>1, PTL DEF Spec

(* The types of the exchange's variables are never violated.                *)
THEOREM TypeCorrect == Spec => []TypeOK
<1>1. IInv => TypeOK
  BY DEF IInv
<1> QED
  BY <1>1, Inductive, PTL

(* No exchange, however it fails, leaves a handle, a header or a FILE       *)
(* behind, nor a response block but one that a failed realloc has lost; and  *)
(* an exchange that has lost one hands out no body that is not empty.       *)
THEOREM ReleasedButLost == Spec => []ReleasedUnlessLost
<1>1. IInv => ReleasedUnlessLost
  BY DEF IInv, HeldByStage, LostByStage, ReleasedUnlessLost
<1> QED
  BY <1>1, Inductive, PTL

(* No exchange hands out a partial body, or the body of a refusal.          *)
THEOREM WholeBody == Spec => []BodyIsWhole
<1>1. IInv => BodyIsWhole
  BY DEF IInv
<1> QED
  BY <1>1, Inductive, PTL

(* The result of a download says who has to close the descriptor.           *)
THEOREM FdOwner == Spec => []FdOwnerKnown
<1>1. IInv => FdOwnerKnown
  BY DEF IInv
<1> QED
  BY <1>1, Inductive, PTL

-----------------------------------------------------------------------------
Phase == CASE pc = "idle" -> "idle"
           [] pc = "returned" -> "returned"
           [] OTHER -> "calling"

ReadStatus == IF pc = "returned" THEN status ELSE 200

(* A step that neither starts nor ends a call is invisible to the caller.   *)
LEMMA InnerStep ==
  ASSUME pc \notin {"idle", "returned"}, pc' \notin {"idle", "returned"},
         answer' = answer, body' = body
  PROVE  UNCHANGED <<Phase, answer, ReadStatus, body>>
  BY DEF Phase, ReadStatus

(* The start of a call is Call, and each way to return is Deliver, Refuse   *)
(* or GiveUp.                                                               *)
LEMMA StepImplements == IInv /\ [Next]_vars => [Exch!Next]_(Exch!xvars)
<1> SUFFICES ASSUME IInv, [Next]_vars PROVE [Exch!Next]_(Exch!xvars)
  OBVIOUS
<1>0. TypeOK /\ OutcomeByStage /\ StoredByStage
  BY DEF IInv
<1>1. CASE Begin
  <2>1. /\ pc' \in {"fdopen", "init"} /\ answer' \in Exch!Answers /\ body' = NoBody
        /\ pc \in {"idle", "returned"}
    BY <1>1 DEF Begin
  <2> QED
    BY <2>1 DEF Exch!Next, Exch!Call
<1>2. CASE FdOpenFails
  BY <1>0, <1>2 DEF FdOpenFails, OutcomeByStage, Exch!Next, Exch!GiveUp
<1>3. CASE ReturnString \/ ReturnFile
  <2>1. pc = "unwind" /\ pc' = "returned" /\ answer' = answer /\ status' = status
    BY <1>3 DEF ReturnString, ReturnFile
  <2>2. body = NoBody /\ (status # OK => status = answer.code)
    BY <1>0, <2>1 DEF OutcomeByStage
  <2>3. CASE result = 0
    <3>1. /\ answer.code = OK /\ status = OK
          /\ body' \in IF answer.size = 0 THEN {0, NoBody} ELSE {answer.size}
      BY <1>0, <1>3, <2>1, <2>3 DEF ReturnString, ReturnFile, OutcomeByStage, StoredByStage
    <3> QED
      BY <2>1, <2>2, <3>1 DEF Exch!Next, Exch!Deliver
  <2>4. CASE result # 0
    <3>1. body' = NoBody
      BY <1>3, <2>4 DEF ReturnString, ReturnFile
    <3>2. CASE status = OK
      BY <2>1, <2>2, <3>1, <3>2 DEF Exch!Next, Exch!GiveUp
    <3>3. CASE status # OK
      BY <2>1, <2>2, <3>1, <3>3 DEF Exch!Next, Exch!Refuse
    <3> QED
      BY <3>2, <3>3
  <2> QED
    BY <2>3, <2>4
<1>4. CASE UNCHANGED vars
  BY <1>4 DEF vars, Exch!xvars
<1>5. CASE \/ FdOpen \/ CurlInit \/ CurlInitFails \/ AuthHeader \/ AgentHeader
           \/ Receive \/ TransferFails \/ TransferEnds \/ Succeed \/ Fail
  <2>1. /\ pc \notin {"idle", "returned"} /\ pc' \notin {"idle", "returned"}
        /\ answer' = answer /\ body' = body
    BY <1>5 DEF FdOpen, CurlInit, CurlInitFails, AuthHeader, AgentHeader, Receive, Store,
       StoreFails, WriteFile, TransferFails, TransferEnds, Succeed, Fail
  <2> QED
    BY <2>1, InnerStep DEF Exch!xvars, Phase, ReadStatus
<1> QED
  BY <1>1, <1>2, <1>3, <1>4, <1>5 DEF Next

(* request.c implements the contract of module Exchange.                    *)
THEOREM Implements == Spec => ImplementsExchange
<1>1. Init => Exch!Init
  BY DEF Init, Exch!Init
<1> QED
  BY <1>1, Inductive, StepImplements, PTL DEF Spec, Exch!Spec, ImplementsExchange
-----------------------------------------------------------------------------
Missing == answer.size - received

(* Steps that an exchange has left, at most.                                *)
StepsLeft ==
  CASE pc = "fdopen" -> Missing + 7
    [] pc = "init" -> Missing + 6
    [] pc = "auth" -> Missing + 5
    [] pc = "agent" -> Missing + 4
    [] pc = "perform" -> Missing + 3
    [] pc \in {"success", "error"} -> 2
    [] pc = "unwind" -> 1
    [] OTHER -> 0

(* libcurl hands over an empty body.                                        *)
EmptyChunk ==
  /\ pc = "perform" /\ pc' = "perform"
  /\ answer.size = 0 /\ received' = received

(***************************************************************************)
(* Each step of an exchange brings it nearer to its return, each chunk of the *)
(* body and each failure included; only an empty body leaves it to libcurl   *)
(* how often the writer is called.                                          *)
(***************************************************************************)
ExchangeIsBounded ==
  [][pc \notin {"idle", "returned"} => StepsLeft' < StepsLeft \/ EmptyChunk]_vars

LEMMA StepsByStage ==
  /\ pc = "fdopen" => StepsLeft = Missing + 7
  /\ pc = "init" => StepsLeft = Missing + 6
  /\ pc = "auth" => StepsLeft = Missing + 5
  /\ pc = "agent" => StepsLeft = Missing + 4
  /\ pc = "perform" => StepsLeft = Missing + 3
  /\ pc \in {"success", "error"} => StepsLeft = 2
  /\ pc = "unwind" => StepsLeft = 1
  /\ pc \in {"idle", "returned"} => StepsLeft = 0
  BY DEF StepsLeft

LEMMA StepsByStageAfter ==
  /\ pc' = "init" => StepsLeft' = Missing' + 6
  /\ pc' = "auth" => StepsLeft' = Missing' + 5
  /\ pc' = "agent" => StepsLeft' = Missing' + 4
  /\ pc' = "perform" => StepsLeft' = Missing' + 3
  /\ pc' \in {"success", "error"} => StepsLeft' = 2
  /\ pc' = "unwind" => StepsLeft' = 1
  /\ pc' = "returned" => StepsLeft' = 0
  BY DEF StepsLeft

LEMMA MissingInRange ==
  ASSUME IInv
  PROVE  /\ Missing \in 0 .. MaxBody
         /\ answer.size \in Nat /\ received \in Nat /\ received <= answer.size
<1>1. answer.size \in 0 .. MaxBody /\ received \in 0 .. answer.size
  BY AnswerParts DEF IInv, TypeOK
<1> QED
  BY <1>1 DEF Missing

LEMMA StepsInRange ==
  ASSUME IInv
  PROVE  StepsLeft \in 0 .. MaxBody + 7
<1>1. Missing \in 0 .. MaxBody
  BY MissingInRange
<1> QED
  BY <1>1, StepsByStage DEF IInv, TypeOK

LEMMA FewerSteps ==
  ASSUME IInv, Next, pc \notin {"idle", "returned"}
  PROVE  StepsLeft' < StepsLeft \/ EmptyChunk
<1>1. /\ Missing \in Nat
      /\ answer.size \in Nat /\ received \in Nat /\ received <= answer.size
  BY MissingInRange
<1>2. CASE FdOpen \/ CurlInit \/ AuthHeader \/ AgentHeader
  <2>1. /\ UNCHANGED <<answer, received>>
        /\ \/ pc = "fdopen" /\ pc' = "init"
           \/ pc = "init" /\ pc' = "auth"
           \/ pc = "auth" /\ pc' = "agent"
           \/ pc = "agent" /\ pc' = "perform"
    BY <1>2 DEF FdOpen, CurlInit, AuthHeader, AgentHeader
  <2>2. Missing' = Missing
    BY <2>1 DEF Missing
  <2> QED
    BY <1>1, <2>1, <2>2, StepsByStage, StepsByStageAfter
<1>3. CASE FdOpenFails \/ CurlInitFails \/ TransferFails \/ TransferEnds \/ Succeed \/ Fail
           \/ ReturnString \/ ReturnFile \/ (Receive /\ pc' = "error")
  <2>1. \/ pc = "fdopen" /\ pc' = "returned"
        \/ pc \in {"init", "perform"} /\ pc' \in {"error", "success"}
        \/ pc \in {"success", "error"} /\ pc' = "unwind"
        \/ pc = "unwind" /\ pc' = "returned"
    BY <1>3 DEF FdOpenFails, CurlInitFails, TransferFails, TransferEnds, Succeed, Fail,
                ReturnString, ReturnFile, Receive, Store, StoreFails, WriteFile
  <2> QED
    BY <1>1, <2>1, StepsByStage, StepsByStageAfter
<1>4. CASE Receive /\ pc' # "error"
  <2>1. PICK n \in Chunks : /\ pc = "perform" /\ pc' = "perform" /\ answer' = answer
                            /\ received' = received + n
    BY <1>4 DEF Receive, Store, StoreFails, WriteFile
  <2>2. CASE answer.size = 0
    BY <1>1, <2>1, <2>2 DEF Chunks, EmptyChunk
  <2>3. CASE answer.size # 0
    <3>1. n \in Nat /\ n >= 1
      BY <1>1, <2>1, <2>3 DEF Chunks
    <3>2. Missing' = Missing - n
      BY <1>1, <2>1, <3>1 DEF Missing
    <3>3. StepsLeft = Missing + 3 /\ StepsLeft' = Missing - n + 3
      BY <2>1, <3>2, StepsByStage, StepsByStageAfter
    <3> QED
      BY <1>1, <3>1, <3>3
  <2> QED
    BY <2>2, <2>3
<1> QED
  BY <1>2, <1>3, <1>4 DEF Next, Begin

(***************************************************************************)
(* An exchange whose body is not empty returns within MaxBody + 7 steps.     *)
(***************************************************************************)
THEOREM Bounded == Spec => [](StepsLeft \in 0 .. MaxBody + 7) /\ ExchangeIsBounded
<1>1. IInv => StepsLeft \in 0 .. MaxBody + 7
  BY StepsInRange
<1>2. IInv /\ [Next]_vars =>
        [pc \notin {"idle", "returned"} => StepsLeft' < StepsLeft \/ EmptyChunk]_vars
  BY FewerSteps
<1> QED
  BY <1>1, <1>2, Inductive, PTL DEF Spec, ExchangeIsBounded
=============================================================================
