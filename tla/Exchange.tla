------------------------------ MODULE Exchange -------------------------------
(***************************************************************************)
(* What the entry points of the library may rely on when they make one     *)
(* HTTP exchange through request_get_as_string, request_post_as_string or   *)
(* request_get_as_file: the server's whole answer with status 200, its      *)
(* refusal with no body, or no body and the status they came with.          *)
(* Of a file, what stdio could write of the answer is there.                *)
(***************************************************************************)
EXTENDS Integers

CONSTANTS
  Codes,     \* HTTP status codes a server answers with
  MaxBody    \* bound: the longest body of an answer, in bytes

OK == 200

(* The status the callers preset: "a default passing value unless request   *)
(* says otherwise".                                                         *)
Preset == OK

(* The caller gets no body: a NULL string, or a file that is not to be used. *)
NoBody == -1

Answers == [code : Codes, size : 0 .. MaxBody]

VARIABLES
  phase,    \* "idle", "calling" or "returned"
  answer,   \* what the server answers this exchange with, if asked
  status,   \* *status_code, as the caller finds it
  body      \* bytes the caller got, or NoBody

xvars == <<phase, answer, status, body>>

Init ==
  /\ phase = "idle"
  /\ answer \in Answers
  /\ status = Preset
  /\ body = NoBody

Call ==
  /\ phase \in {"idle", "returned"}
  /\ phase' = "calling"
  /\ answer' \in Answers
  /\ status' = Preset
  /\ body' = NoBody

(* All of the body, except that an empty one may come as NULL.              *)
Deliver ==
  /\ phase = "calling"
  /\ answer.code = OK
  /\ body' \in IF answer.size = 0 THEN {0, NoBody} ELSE {answer.size}
  /\ phase' = "returned"
  /\ UNCHANGED <<answer, status>>

Refuse ==
  /\ phase = "calling"
  /\ answer.code # OK
  /\ status' = answer.code
  /\ phase' = "returned"
  /\ UNCHANGED <<answer, body>>

(* No answer, or none that could be stored: the preset status stays.        *)
GiveUp ==
  /\ phase = "calling"
  /\ phase' = "returned"
  /\ UNCHANGED <<answer, status, body>>

Next ==
  \/ Call
  \/ Deliver
  \/ Refuse
  \/ GiveUp

Spec == Init /\ [][Next]_xvars
=============================================================================
