-------------------------- MODULE EntryPointProofs ---------------------------
(***************************************************************************)
(* What an application may conclude from the error of a call, of every       *)
(* function that implements module EntryPoint.                              *)
(***************************************************************************)
EXTENDS EntryPoint, TLAPS

(* Where the status and the body of a call come from.                       *)
CauseByStage ==
  /\ stage = "asking" => status = 200 /\ body = Exch!NoBody
  /\ stage = "answered" =>
       /\ status # 200 => status = answer.code
       /\ body # Exch!NoBody => answer.code = 200
  /\ ErrorNamesItsCause

(***************************************************************************)
(* The error of a call names its cause: the server's code for this very      *)
(* call, or nothing but a 200 answer.                                       *)
(***************************************************************************)
THEOREM Truthful == Spec => []ErrorNamesItsCause
<1>1. Init => CauseByStage
  BY DEF Init, CauseByStage, ErrorNamesItsCause
<1>2. CauseByStage /\ [Next]_evars => CauseByStage'
  <2> SUFFICES ASSUME CauseByStage, [Next]_evars PROVE CauseByStage'
    OBVIOUS
  <2> USE DEF CauseByStage, ErrorNamesItsCause
  <2>1. CASE Enter
    BY <2>1 DEF Enter
  <2>2. CASE ReturnUnasked
    BY <2>2 DEF ReturnUnasked, Refusals, Error, NoError
  <2>3. CASE Ask
    BY <2>3 DEF Ask, Exch!Call, Exch!Preset, Exch!OK
  <2>4. CASE Answered
    BY <2>4 DEF Answered, Exch!Deliver, Exch!Refuse, Exch!GiveUp, Exch!OK
  <2>5. CASE ReturnAnswered
    <3>1. CASE status >= 400
      BY <2>5, <3>1 DEF ReturnAnswered, Outcomes, Error, NoError, exchange
    <3>2. CASE ~(status >= 400)
      BY <2>5, <3>2 DEF ReturnAnswered, Outcomes, Error, NoError, exchange
    <3> QED
      BY <3>1, <3>2
  <2>6. CASE UNCHANGED evars
    BY <2>6 DEF evars
  <2> QED
    BY <2>1, <2>2, <2>3, <2>4, <2>5, <2>6 DEF Next
<1>3. CauseByStage => ErrorNamesItsCause
  BY DEF CauseByStage
<1> QED
  BY <1>1, <1>2, <1>3, PTL DEF Spec
=============================================================================
