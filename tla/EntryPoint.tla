----------------------------- MODULE EntryPoint ------------------------------
(***************************************************************************)
(* What an application may rely on, of every gaus_* function that talks to   *)
(* the server: a call is refused before anything is sent, or makes exactly   *)
(* one exchange (module Exchange), never repeats it, and returns an error    *)
(* that says how the exchange ended.                                        *)
(***************************************************************************)
EXTENDS Integers

CONSTANTS
  Codes,     \* HTTP status codes a server answers with
  MaxBody    \* bound: the longest body of an answer, in bytes

NoError == [type |-> "NULL", code |-> 0]
Error(type, code) == [type |-> type, code |-> code]

VARIABLES
  stage,   \* "idle", "entered", "asking", "answered" or "returned"
  phase, answer, status, body,  \* the exchange
  error    \* what the last call returned, NoError while one runs

evars == <<stage, phase, answer, status, body, error>>

Exch == INSTANCE Exchange

exchange == <<phase, answer, status, body>>

Init ==
  /\ Exch!Init
  /\ stage = "idle"
  /\ error = NoError

Enter ==
  /\ stage \in {"idle", "returned"}
  /\ stage' = "entered"
  /\ error' = NoError
  /\ UNCHANGED exchange

(* The errors that do not come from the server.                             *)
Refusals == {Error("NO_INIT_ERROR", 500), Error("UNKNOWN_ERROR", 500)}

ReturnUnasked ==
  /\ stage = "entered"
  /\ stage' = "returned"
  /\ error' \in Refusals
  /\ UNCHANGED exchange

Ask ==
  /\ stage = "entered"
  /\ stage' = "asking"
  /\ Exch!Call
  /\ UNCHANGED error

Answered ==
  /\ stage = "asking"
  /\ stage' = "answered"
  /\ Exch!Deliver \/ Exch!Refuse \/ Exch!GiveUp
  /\ UNCHANGED error

(* A reply that has come may still be one the function cannot use.          *)
Outcomes ==
  IF status >= 400 THEN {Error("HTTP_ERROR", status)}
  ELSE {Error("UNKNOWN_ERROR", 500)} \cup {e \in {NoError} : body # Exch!NoBody}

ReturnAnswered ==
  /\ stage = "answered"
  /\ stage' = "returned"
  /\ error' \in Outcomes
  /\ UNCHANGED exchange

Next ==
  \/ Enter
  \/ ReturnUnasked
  \/ Ask
  \/ Answered
  \/ ReturnAnswered

Spec == Init /\ [][Next]_evars

-----------------------------------------------------------------------------
(***************************************************************************)
(* An application can act on the error alone: HTTP_ERROR is the server's     *)
(* own code for this very call, and NULL is returned only for a 200 answer   *)
(* to it.                                                                   *)
(***************************************************************************)
ErrorNamesItsCause ==
  stage = "returned" =>
    /\ error.type = "HTTP_ERROR" => error.code = answer.code /\ answer.code >= 400
    /\ error = NoError => answer.code = 200
=============================================================================
