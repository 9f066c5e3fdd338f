-------------------------- MODULE CredentialsProofs ---------------------------
(***************************************************************************)
(* What gaus_register and gaus_authenticate guarantee over any number of     *)
(* calls: their strings are never of two replies, and no call loses one it   *)
(* has allocated.                                                           *)
(***************************************************************************)
EXTENDS Credentials, TLAPS

(* The items the parser has stored.                                         *)
Done(o) == \E k \in 1 .. next - 1 : Items[function][k] = o

(* Only the parser stores strings of the call that is going on, and it has   *)
(* stored exactly those of the items it has passed.                         *)
StoredByStage ==
  /\ pc # "returned" => calls > 0
  /\ pc \in {"guards", "requested", "answered"} =>
       next = 1 /\ \A o \in Strings \cup {"poll"} : out[o] < calls
  /\ pc = "parse" => \A o \in Strings \cup {"poll"} :
       IF Done(o) THEN out[o] = calls ELSE out[o] < calls

(* The keys are of one reply, except between the two assignments of         *)
(* parse_device_json.                                                       *)
KeysMatch ==
  \/ out["access"] > 0 /\ out["secret"] > 0 => out["access"] = out["secret"]
  \/ pc = "parse" /\ function = "register" /\ next = 5

(* Having cleared the session, gaus_authenticate only adds strings of its    *)
(* own; at all other times the session is whole or unusable.                *)
SessionMatches ==
  IF function = "authenticate" /\ pc \in {"requested", "answered", "parse"}
    THEN \A s \in Session : out[s] \in {Null, calls}
    ELSE OneReply(Session)

(* Only the body of a 200 answer is parsed.                                 *)
AnswerByStage ==
  /\ pc = "requested" => body = Exch!NoBody
  /\ pc = "answered" /\ body # Exch!NoBody => answer.code = 200
  /\ pc = "parse" => answer.code = 200

IInv ==
  /\ TypeOK
  /\ StoredByStage
  /\ KeysMatch
  /\ SessionMatches
  /\ AnswerByStage
  /\ NoOwnStringLost

USE CodesAssumption, MaxBodyAssumption, MaxCallsAssumption

-----------------------------------------------------------------------------
(* The items of the two replies, in the order they are read.                *)
LEMMA RegisterItems ==
  /\ Len(Items["register"]) = 5
  /\ DOMAIN Items["register"] = 1 .. 5
  /\ Items["register"][1] = "root"
  /\ Items["register"][2] = "poll"
  /\ Items["register"][3] = "deviceAuthParameters"
  /\ Items["register"][4] = "access"
  /\ Items["register"][5] = "secret"
BY DEF Items

LEMMA AuthenticateItems ==
  /\ Len(Items["authenticate"]) = 4
  /\ DOMAIN Items["authenticate"] = 1 .. 4
  /\ Items["authenticate"][1] = "root"
  /\ Items["authenticate"][2] = "device_guid"
  /\ Items["authenticate"][3] = "product_guid"
  /\ Items["authenticate"][4] = "token"
BY DEF Items

(* Every item is read once, and everything a function fills is an item.     *)
LEMMA EveryItemOnce ==
  ASSUME TypeOK
  PROVE  /\ Len(Items[function]) \in Nat
         /\ \A k \in 1 .. Len(Items[function]) :
              \A j \in 1 .. k - 1 : Items[function][j] # Items[function][k]
         /\ \A o \in Filled : \E k \in 1 .. Len(Items[function]) : Items[function][k] = o
<1>1. CASE function = "register"
  <2>1. \A o \in Filled : \E k \in 1 .. 5 : Items["register"][k] = o
    BY <1>1, RegisterItems DEF Filled, Keys
  <2>2. \A k \in 1 .. 5 : k \in {1, 2, 3, 4, 5}
    OBVIOUS
  <2>3. \A k \in 1 .. 5 : \A j \in 1 .. k - 1 : Items["register"][j] # Items["register"][k]
    <3> TAKE k \in 1 .. 5
    <3> TAKE j \in 1 .. k - 1
    <3> QED
      BY <2>2, RegisterItems
  <2> QED
    BY <1>1, <2>1, <2>3, RegisterItems
<1>2. CASE function = "authenticate"
  <2>1. \A o \in Filled : \E k \in 1 .. 4 : Items["authenticate"][k] = o
    BY <1>2, AuthenticateItems DEF Filled, Session
  <2>2. \A k \in 1 .. 4 : k \in {1, 2, 3, 4}
    OBVIOUS
  <2>3. \A k \in 1 .. 4 : \A j \in 1 .. k - 1 :
          Items["authenticate"][j] # Items["authenticate"][k]
    <3> TAKE k \in 1 .. 4
    <3> TAKE j \in 1 .. k - 1
    <3> QED
      BY <2>2, AuthenticateItems
  <2> QED
    BY <1>2, <2>1, <2>3, AuthenticateItems
<1> QED
  BY <1>1, <1>2 DEF TypeOK, Functions

-----------------------------------------------------------------------------
LEMMA InitIInv == Init => IInv
<1> SUFFICES ASSUME Init PROVE IInv
  OBVIOUS
<1> USE DEF Init, Fresh, Exch!Init, Null, Garbage
<1>1. TypeOK
  <2>1. next \in 1 .. Len(Items[function]) + 1
    BY RegisterItems
  <2> QED
    BY <2>1 DEF TypeOK, Functions, Exch!Preset, Exch!OK, Exch!NoBody, NoError, Keys, Session, Strings
<1>2. StoredByStage /\ AnswerByStage /\ NoOwnStringLost
  BY DEF StoredByStage, AnswerByStage, NoOwnStringLost
<1>3. KeysMatch
  BY DEF KeysMatch, Strings, Keys, Session
<1>4. SessionMatches
  BY DEF SessionMatches, OneReply, Strings, Session
<1> QED
  BY <1>1, <1>2, <1>3, <1>4 DEF IInv

(* What a call does to its out parameters happens in three places; every     *)
(* other step leaves them alone.                                            *)
LEMMA EnterStep ==
  ASSUME IInv, Enter
  PROVE  IInv'
<1> USE DEF Enter, Idle, IInv
<1>1. TypeOK'
  <2>1. function' \in Functions /\ next' \in 1 .. Len(Items[function']) + 1
    BY RegisterItems, AuthenticateItems DEF Functions
  <2>2. out' \in [Strings \cup {"poll"} -> Garbage .. calls']
    BY DEF TypeOK, Garbage
  <2> QED
    BY <2>1, <2>2 DEF TypeOK, exchange, NoError
<1>2. StoredByStage'
  BY DEF TypeOK, StoredByStage, Garbage
<1>3. KeysMatch'
  BY DEF KeysMatch
<1>4. SessionMatches'
  <2>1. OneReply(Session)
    BY DEF SessionMatches
  <2>2. OneReply(Session)'
    BY <2>1 DEF OneReply, TypeOK
  <2> QED
    BY <2>2 DEF SessionMatches
<1>5. AnswerByStage' /\ NoOwnStringLost'
  BY DEF AnswerByStage, NoOwnStringLost
<1> QED
  BY <1>1, <1>2, <1>3, <1>4, <1>5

LEMMA CallerFreesStep ==
  ASSUME IInv, CallerFrees
  PROVE  IInv'
<1> USE DEF CallerFrees, Idle, IInv
<1>1. PICK s \in Strings, p \in {Null, Garbage} :
        /\ out' = [out EXCEPT ![s] = p]
        /\ s \in Keys => p = Null
  BY DEF Strings, Keys, Session
<1>2. TypeOK'
  <2>1. out' \in [Strings \cup {"poll"} -> Garbage .. calls]
    BY <1>1 DEF TypeOK, Null, Garbage
  <2>2. \A o \in Keys \cup {"poll"} : out'[o] # Garbage
    BY <1>1 DEF TypeOK, Null, Garbage, Keys, Session, Strings
  <2> QED
    BY <2>1, <2>2 DEF TypeOK, exchange
<1>4. KeysMatch'
  <2>1. \A o \in Keys : out'[o] = out[o] \/ out'[o] \in {Null, Garbage}
    BY <1>1 DEF TypeOK, Strings
  <2>2. out["access"] > 0 /\ out["secret"] > 0 => out["access"] = out["secret"]
    BY DEF KeysMatch
  <2> QED
    BY <2>1, <2>2 DEF KeysMatch, Keys, Null, Garbage
<1>5. SessionMatches'
  <2>1. OneReply(Session)
    BY DEF SessionMatches
  <2>2. OneReply(Session)'
    <3>1. \A o \in Session : out'[o] = out[o] \/ ~(out'[o] > 0)
      BY <1>1 DEF TypeOK, Strings, Null, Garbage
    <3> SUFFICES ASSUME \A o \in Session : out'[o] > 0
                 PROVE  \E reply \in 1 .. calls : \A o \in Session : out'[o] = reply
      BY DEF OneReply
    <3> QED
      BY <2>1, <3>1 DEF OneReply
  <2> QED
    BY <2>2 DEF SessionMatches
<1>6. StoredByStage' /\ AnswerByStage' /\ NoOwnStringLost'
  BY DEF StoredByStage, AnswerByStage, NoOwnStringLost, exchange
<1> QED
  BY <1>2, <1>4, <1>5, <1>6

LEMMA SendStep ==
  ASSUME IInv, Send
  PROVE  IInv'
<1> USE DEF Send, IInv
<1> DEFINE cleared == IF function = "authenticate" THEN Session ELSE {}
<1>1. /\ out' = [o \in DOMAIN out |-> IF o \in cleared THEN Null ELSE out[o]]
      /\ lost' = Overwritten(cleared)
  OBVIOUS
<1>2. DOMAIN out = Strings \cup {"poll"} /\ calls > 0 /\ cleared \subseteq Strings
  BY DEF TypeOK, StoredByStage, Strings
<1> HIDE DEF cleared
<1>3. \A o \in Strings \cup {"poll"} : out'[o] \in {Null, out[o]}
  BY <1>1, <1>2
<1>4. TypeOK'
  <2>1. lost' \subseteq [by : 1 .. MaxCalls, from : 1 .. MaxCalls]
    <3>1. \A s \in Strings : out[s] > 0 => out[s] \in 1 .. MaxCalls
      BY DEF TypeOK, Garbage
    <3> QED
      BY <1>1, <1>2, <3>1 DEF Overwritten, TypeOK
  <2>2. /\ out' \in [Strings \cup {"poll"} -> Garbage .. calls]
        /\ \A o \in Keys \cup {"poll"} : out'[o] # Garbage
    BY <1>1, <1>2, <1>3 DEF TypeOK, Null, Garbage, Strings
  <2> QED
    BY <2>1, <2>2 DEF TypeOK, Exch!Call, Exch!Preset, Exch!OK, Exch!NoBody
<1>5. StoredByStage'
  BY <1>2, <1>3 DEF StoredByStage, Null
<1>6. KeysMatch'
  <2>1. out'["access"] = out["access"] /\ out'["secret"] = out["secret"]
    BY <1>1, <1>2 DEF cleared, Session, Strings, Keys
  <2> QED
    BY <2>1 DEF KeysMatch
<1>7. SessionMatches'
  <2>1. CASE function = "authenticate"
    BY <1>1, <1>2, <2>1 DEF SessionMatches, cleared, Strings
  <2>2. CASE function # "authenticate"
    <3>1. \A s \in Session : out'[s] = out[s]
      BY <1>1, <1>2, <2>2 DEF cleared, Strings
    <3> QED
      BY <2>2, <3>1 DEF SessionMatches, OneReply
  <2> QED
    BY <2>1, <2>2
<1>8. AnswerByStage'
  BY DEF AnswerByStage, Exch!Call
<1>9. NoOwnStringLost'
  BY <1>1, <1>2 DEF NoOwnStringLost, Overwritten, StoredByStage
<1> QED
  BY <1>4, <1>5, <1>6, <1>7, <1>8, <1>9

(* After a crash nothing is left of what was stored.                        *)
LEMMA SendNullStep ==
  ASSUME IInv, SendNull
  PROVE  IInv'
<1> USE DEF SendNull, IInv, Fresh
<1>1. TypeOK'
  <2>1. out' \in [Strings \cup {"poll"} -> Garbage .. calls]
    BY DEF TypeOK, Null, Garbage
  <2>2. \A o \in Keys \cup {"poll"} : out'[o] # Garbage
    BY DEF Null, Garbage, Keys, Session, Strings
  <2> QED
    BY <2>1, <2>2 DEF TypeOK, exchange
<1>2. StoredByStage' /\ AnswerByStage' /\ NoOwnStringLost'
  BY DEF StoredByStage, AnswerByStage, NoOwnStringLost
<1>3. KeysMatch'
  BY DEF KeysMatch, Strings, Keys, Session, Null
<1>4. SessionMatches'
  BY DEF SessionMatches, OneReply, Strings, Session, Garbage
<1> QED
  BY <1>1, <1>2, <1>3, <1>4

(* A session gaus_authenticate has begun to fill is of its own reply alone.  *)
LEMMA OwnSession ==
  ASSUME IInv, function = "authenticate", pc \in {"requested", "answered", "parse"}
  PROVE  OneReply(Session)
<1>1. \A s \in Session : out[s] \in {Null, calls}
  BY DEF IInv, SessionMatches
<1>2. calls \in Nat /\ calls > 0
  BY DEF IInv, TypeOK, StoredByStage
<1> QED
  BY <1>1, <1>2 DEF OneReply, Null

(* The other steps before the parser, and every return from a call.         *)
LEMMA OtherSteps ==
  ASSUME IInv, Refused \/ Answered \/ RequestFailed \/ NotJson \/ Loaded \/ Parsed
  PROVE  IInv'
<1> USE DEF IInv
<1>1. UNCHANGED <<function, args, out, next, calls, lost>>
  BY DEF Refused, Answered, RequestFailed, NotJson, Loaded, Parsed
<1>2. TypeOK'
  <2>1. CASE Refused
    BY <2>1 DEF Refused, TypeOK, Return, Invalid, exchange
  <2>2. CASE Answered
    BY <2>2 DEF Answered, TypeOK, Exch!Deliver, Exch!Refuse, Exch!GiveUp, Exch!Answers,
                Exch!NoBody, Exch!OK
  <2>3. CASE RequestFailed
    <3>1. status \in Nat
      BY DEF TypeOK
    <3>2. error' \in [type : {"NULL", "NO_INIT_ERROR", "UNKNOWN_ERROR", "HTTP_ERROR"},
                      code : Nat]
      BY <2>3, <3>1 DEF RequestFailed, Return, Invalid
    <3> QED
      BY <2>3, <3>2 DEF RequestFailed, TypeOK, Return, exchange
  <2>4. CASE NotJson
    BY <2>4 DEF NotJson, TypeOK, Return, Invalid, exchange
  <2>5. CASE Loaded
    BY <2>5 DEF Loaded, TypeOK, exchange
  <2>6. CASE Parsed
    BY <2>6 DEF Parsed, TypeOK, Return, NoError, exchange
  <2> QED
    BY <2>1, <2>2, <2>3, <2>4, <2>5, <2>6
<1>3. NoOwnStringLost'
  BY <1>1 DEF NoOwnStringLost
<1>4. StoredByStage'
  <2>1. CASE Loaded
    <3>1. \A o : ~Done(o)'
      BY <1>1, <2>1 DEF Loaded, StoredByStage, Done
    <3> QED
      BY <1>1, <2>1, <3>1 DEF Loaded, StoredByStage
  <2>2. CASE Answered
    BY <1>1, <2>2 DEF Answered, StoredByStage
  <2>3. CASE Refused \/ RequestFailed \/ NotJson \/ Parsed
    BY <1>1, <2>3 DEF Refused, RequestFailed, NotJson, Parsed, Return, StoredByStage
  <2> QED
    BY <2>1, <2>2, <2>3
<1>5. KeysMatch'
  <2>1. CASE Parsed
    <3>1. ASSUME function = "register" PROVE next # 5
      <4>1. next > Len(Items["register"])
        BY <2>1, <3>1 DEF Parsed
      <4> QED
        BY <4>1, RegisterItems
    <3> QED
      BY <1>1, <3>1 DEF KeysMatch
  <2>2. CASE Refused \/ Answered \/ RequestFailed \/ NotJson \/ Loaded
    BY <1>1, <2>2 DEF Refused, Answered, RequestFailed, NotJson, Loaded, KeysMatch
  <2> QED
    BY <2>1, <2>2
<1>6. SessionMatches'
  <2>1. CASE Refused
    BY <1>1, <2>1 DEF Refused, Return, SessionMatches, OneReply
  <2>2. CASE Answered \/ Loaded
    BY <1>1, <2>2 DEF Answered, Loaded, SessionMatches, OneReply
  <2>3. CASE RequestFailed \/ NotJson \/ Parsed
    <3>1. OneReply(Session)
      BY <2>3, OwnSession DEF RequestFailed, NotJson, Parsed, SessionMatches
    <3> QED
      BY <1>1, <2>3, <3>1 DEF RequestFailed, NotJson, Parsed, Return, SessionMatches, OneReply
  <2> QED
    BY <2>1, <2>2, <2>3
<1>7. AnswerByStage'
  BY DEF AnswerByStage, Refused, Answered, RequestFailed, NotJson, Loaded, Parsed, Return,
         Exch!Deliver, Exch!Refuse, Exch!GiveUp, Exch!NoBody, Exch!OK, exchange
<1> QED
  BY <1>2, <1>3, <1>4, <1>5, <1>6, <1>7

(* The parser: an item is stored where nothing of this call was before.      *)
LEMMA ParserSteps ==
  ASSUME IInv, Read \/ Reject
  PROVE  IInv'
<1> USE DEF IInv
<1> DEFINE item == Items[function][next]
<1>1. /\ pc = "parse" /\ next \in 1 .. Len(Items[function])
      /\ UNCHANGED <<function, args, exchange, rejected, calls>>
      /\ Assign(item)
  BY DEF Read, Reject, TypeOK
<1>2. DOMAIN out = Strings \cup {"poll"} /\ calls > 0
  BY <1>1 DEF TypeOK, StoredByStage
<1>3. ~Done(item)
  BY <1>1, EveryItemOnce DEF Done
<1> HIDE DEF item
<1>4. \A o \in Strings \cup {"poll"} :
        out'[o] = IF o = item THEN Value(item) ELSE out[o]
  BY <1>1, <1>2 DEF Assign
<1>5. Value(item) \in {Null, calls}
  BY DEF Value
<1>6. TypeOK'
  <2>1. lost' \subseteq [by : 1 .. MaxCalls, from : 1 .. MaxCalls]
    <3>1. \A s \in Strings : out[s] > 0 => out[s] \in 1 .. MaxCalls
      BY DEF TypeOK, Garbage
    <3> QED
      BY <1>1, <1>2, <3>1 DEF Assign, Overwritten, TypeOK
  <2>2. /\ out' \in [Strings \cup {"poll"} -> Garbage .. calls]
        /\ \A o \in Keys \cup {"poll"} : out'[o] # Garbage
    BY <1>1, <1>2, <1>4, <1>5 DEF Assign, TypeOK, Null, Garbage, Strings
  <2>3. next' \in 1 .. Len(Items[function]) + 1
    BY <1>1, EveryItemOnce DEF Read, Reject
  <2>4. error' \in [type : {"NULL", "NO_INIT_ERROR", "UNKNOWN_ERROR", "HTTP_ERROR"},
                    code : Nat]
    BY DEF Read, Reject, Return, Invalid, TypeOK
  <2>5. pc' \in {"parse", "returned"}
    BY DEF Read, Reject, Return
  <2> QED
    BY <1>1, <2>1, <2>2, <2>3, <2>4, <2>5 DEF TypeOK, exchange
<1>7. StoredByStage'
  <2>1. CASE Read
    <3>1. \A o : Done(o)' <=> Done(o) \/ o = item
      BY <1>1, <2>1, EveryItemOnce DEF Read, Done, item
    <3>2. Value(item) = calls
      BY <1>2, <1>5, <2>1 DEF Read, FailsAt, item
    <3> QED
      BY <1>1, <1>2, <1>4, <2>1, <3>1, <3>2 DEF Read, StoredByStage
  <2>2. CASE Reject
    BY <1>1, <1>2, <2>2 DEF Reject, Return, StoredByStage
  <2> QED
    BY <2>1, <2>2
<1>8. KeysMatch'
  <2>1. CASE function = "authenticate"
    <3>1. next \in {1, 2, 3, 4}
      BY <1>1, <2>1, AuthenticateItems
    <3>2. item \notin Keys
      BY <2>1, <3>1, AuthenticateItems DEF item, Keys
    <3> QED
      BY <1>1, <1>4, <2>1, <3>2 DEF KeysMatch, Keys, Strings
  <2>2. CASE function = "register" /\ next \in {1, 2, 3}
    <3>1. item \notin Keys
      BY <2>2, RegisterItems DEF item, Keys
    <3> QED
      BY <1>1, <1>4, <2>2, <3>1 DEF KeysMatch, Keys, Strings
  <2>3. CASE function = "register" /\ next = 4
    <3>1. item = "access"
      BY <2>3, RegisterItems DEF item
    <3>2. CASE Read
      BY <1>1, <2>3, <3>2 DEF Read, KeysMatch
    <3>3. CASE Reject
      <4>1. Value(item) = Null
        BY <3>3 DEF Reject, FailsAt, item
      <4> QED
        BY <1>4, <3>1, <4>1 DEF KeysMatch, Keys, Strings, Null
    <3> QED
      BY <3>2, <3>3
  <2>4. CASE function = "register" /\ next = 5
    <3>1. item = "secret"
      BY <2>4, RegisterItems DEF item
    <3>2. out["access"] = calls
      BY <1>1, <2>4, RegisterItems DEF StoredByStage, Done, Strings, Keys
    <3>3. out'["access"] = calls /\ out'["secret"] \in {Null, calls}
      BY <1>4, <1>5, <3>1, <3>2 DEF Keys, Strings
    <3> QED
      BY <3>3 DEF KeysMatch, Null
  <2>5. ASSUME function = "register" PROVE next \in {1, 2, 3, 4, 5}
    <3>1. next \in 1 .. 5
      BY <1>1, <2>5, RegisterItems
    <3> QED
      BY <3>1
  <2> QED
    BY <2>1, <2>2, <2>3, <2>4, <2>5 DEF TypeOK, Functions
<1>9. SessionMatches'
  <2>1. CASE function = "authenticate"
    <3>1. \A s \in Session : out'[s] \in {Null, calls'}
      BY <1>1, <1>4, <1>5, <2>1 DEF SessionMatches, Strings
    <3>2. OneReply(Session)'
      BY <1>1, <1>2, <3>1 DEF OneReply, Null, Session, TypeOK
    <3> QED
      BY <3>1, <3>2 DEF SessionMatches
  <2>2. CASE function = "register"
    <3>1. next \in {1, 2, 3, 4, 5}
      BY <1>1, <2>2, RegisterItems
    <3>2. item \notin Session
      BY <2>2, <3>1, RegisterItems DEF item, Session
    <3>3. \A s \in Session : out'[s] = out[s]
      BY <1>4, <3>2 DEF Strings
    <3> QED
      BY <1>1, <2>2, <3>3 DEF SessionMatches, OneReply
  <2> QED
    BY <2>1, <2>2 DEF TypeOK, Functions
<1>10. AnswerByStage'
  BY <1>1 DEF AnswerByStage, exchange, Read, Reject, Return
<1>11. NoOwnStringLost'
  <2>1. item \in Strings => out[item] < calls
    BY <1>1, <1>3 DEF StoredByStage
  <2> QED
    BY <1>1, <2>1 DEF Assign, Overwritten, NoOwnStringLost
<1> QED
  BY <1>6, <1>7, <1>8, <1>9, <1>10, <1>11

(***************************************************************************)
(* The inductive invariant, of every sequence of calls to the two functions. *)
(***************************************************************************)
THEOREM Inductive == Spec => []IInv
<1>1. IInv /\ [Next]_vars => IInv'
  <2> SUFFICES ASSUME IInv, [Next]_vars PROVE IInv'
    OBVIOUS
  <2>1. CASE UNCHANGED vars
    BY <2>1 DEF vars, IInv, TypeOK, StoredByStage, Done, KeysMatch, SessionMatches, OneReply,
                AnswerByStage, NoOwnStringLost
  <2> QED
    BY <2>1, EnterStep, CallerFreesStep, SendStep, SendNullStep, OtherSteps, ParserSteps DEF Next
<1> QED
  BY <1>1, InitIInv, PTL DEF Spec

(***************************************************************************)
(* Type correctness; it says of the keys that they can be freed at all times. *)
(***************************************************************************)
THEOREM TypeCorrect == Spec => []TypeOK
<1>1. IInv => TypeOK
  BY DEF IInv
<1> QED
  BY <1>1, Inductive, PTL

(***************************************************************************)
(* Keys and sessions that are complete are those of one reply, after any     *)
(* number of calls that failed at any item.                                 *)
(***************************************************************************)
THEOREM OneReplyEach == Spec => []UsableIsOfOneReply
<1>1. IInv => UsableIsOfOneReply
  <2> SUFFICES ASSUME IInv, pc = "returned" PROVE OneReply(Keys) /\ OneReply(Session)
    BY DEF UsableIsOfOneReply
  <2>1. OneReply(Session)
    BY DEF IInv, SessionMatches
  <2>2. OneReply(Keys)
    <3>1. out["access"] \leq calls
      BY DEF IInv, TypeOK, Strings, Keys, Garbage
    <3>2. out["access"] > 0 /\ out["secret"] > 0 => out["access"] = out["secret"]
      BY DEF IInv, KeysMatch
    <3>3. out["access"] \in Int
      BY DEF IInv, TypeOK, Strings, Keys, Garbage
    <3> QED
      BY <3>1, <3>2, <3>3 DEF OneReply, Keys
  <2> QED
    BY <2>1, <2>2
<1> QED
  BY <1>1, Inductive, PTL

(***************************************************************************)
(* No call loses a string it has itself allocated.                          *)
(***************************************************************************)
THEOREM OwnStringsKept == Spec => []NoOwnStringLost
<1>1. IInv => NoOwnStringLost
  BY DEF IInv
<1> QED
  BY <1>1, Inductive, PTL

(***************************************************************************)
(* NULL is returned only when every out parameter is filled from one 200     *)
(* answer.                                                                  *)
(***************************************************************************)
THEOREM SuccessFills == Spec => SuccessFillsAll
<1>1. IInv /\ [Next]_vars =>
        (pc # "returned" /\ pc' = "returned" /\ error' = NoError =>
           answer.code = 200 /\ \A o \in Filled : out'[o] = calls)
  <2> SUFFICES ASSUME IInv, [Next]_vars, pc # "returned", pc' = "returned", error' = NoError
               PROVE  answer.code = 200 /\ \A o \in Filled : out'[o] = calls
    OBVIOUS
  <2>1. Parsed
    <3>1. ~Refused /\ ~RequestFailed /\ ~NotJson /\ ~Reject
      BY DEF Refused, RequestFailed, NotJson, Reject, Return, Invalid, NoError
    <3>2. ~Enter /\ ~CallerFrees /\ ~Send /\ ~SendNull /\ ~Answered /\ ~Loaded /\ ~Read
      BY DEF Enter, CallerFrees, Send, SendNull, Answered, Loaded, Read
    <3>3. ~UNCHANGED vars
      BY DEF vars
    <3> QED
      BY <3>1, <3>2, <3>3 DEF Next
  <2>2. \A o \in Filled : Done(o)
    <3>1. next = Len(Items[function]) + 1
      BY <2>1, EveryItemOnce DEF Parsed, IInv, TypeOK
    <3> QED
      BY <3>1, EveryItemOnce DEF IInv, Done
  <2>3. Filled \subseteq Strings \cup {"poll"}
    BY DEF Filled, Strings
  <2> QED
    BY <2>1, <2>2, <2>3 DEF Parsed, IInv, StoredByStage, AnswerByStage
<1> QED
  BY <1>1, Inductive, PTL DEF Spec, SuccessFillsAll

(***************************************************************************)
(* Whatever the session was when it was handed in, gaus_authenticate leaves   *)
(* it freeable once it has asked the server for a new one.                   *)
(***************************************************************************)
THEOREM SessionsFreeable == Spec => SessionFreeable
<1>1. IInv /\ [Next]_vars =>
        (pc \notin {"guards", "returned"} /\ pc' = "returned" /\ function = "authenticate" =>
           \A s \in Session : out'[s] # Garbage)
  <2> SUFFICES ASSUME IInv, [Next]_vars, pc \notin {"guards", "returned"},
                      pc' = "returned", function = "authenticate"
               PROVE  \A s \in Session : out'[s] # Garbage
    OBVIOUS
  <2>1. pc \in {"requested", "answered", "parse"} /\ calls \in Nat
    <3>1. pc # "crashed"
      BY DEF Next, Enter, CallerFrees, Refused, Send, SendNull, Answered, RequestFailed,
             NotJson, Loaded, Read, Reject, Parsed, vars
    <3> QED
      BY <3>1 DEF IInv, TypeOK
  <2>2. \A s \in Session : out[s] \in {Null, calls}
    BY <2>1 DEF IInv, SessionMatches
  <2>3. CASE UNCHANGED out
    BY <2>1, <2>2, <2>3 DEF Null, Garbage
  <2>4. CASE Reject
    <3>1. \A s \in Session : out'[s] \in {Null, calls, out[s]}
      BY <2>4 DEF Reject, Assign, Value, IInv, TypeOK, Strings
    <3> QED
      BY <2>1, <2>2, <3>1 DEF Null, Garbage
  <2> QED
    BY <2>3, <2>4 DEF Next, Enter, CallerFrees, Refused, Send, SendNull, Answered, RequestFailed,
                      NotJson, Loaded, Read, Parsed, vars
<1> QED
  BY <1>1, Inductive, PTL DEF Spec, SessionFreeable
-----------------------------------------------------------------------------
(* What the result of a call will depend on.                                *)
OutcomeByStage ==
  /\ pc # "returned" => error = NoError
  /\ pc = "parse" => ~(status >= 400) /\ body # Exch!NoBody
  /\ calls = 0 => error = NoError

LEMMA OutcomeStep ==
  ASSUME IInv, OutcomeByStage, [Next]_vars
  PROVE  OutcomeByStage'
<1>0. calls \in Nat /\ (pc # "returned" => calls > 0)
  BY DEF IInv, TypeOK, StoredByStage
<1>1. CASE Enter \/ CallerFrees \/ Send \/ SendNull \/ Answered
  BY <1>0, <1>1 DEF Enter, CallerFrees, Idle, Send, SendNull, Answered, OutcomeByStage, exchange
<1>2. CASE Loaded
  BY <1>0, <1>2 DEF Loaded, HttpError, exchange, Exch!NoBody, OutcomeByStage
<1>3. CASE Refused \/ RequestFailed \/ NotJson \/ Reject \/ Parsed
  BY <1>0, <1>3 DEF Refused, RequestFailed, NotJson, Reject, Parsed, Return, OutcomeByStage
<1>4. CASE Read \/ UNCHANGED vars
  BY <1>0, <1>4 DEF Read, vars, exchange, OutcomeByStage
<1> QED
  BY <1>1, <1>2, <1>3, <1>4 DEF Next

(***************************************************************************)
(* Both calls implement the contract of an entry point, over any number of   *)
(* calls.                                                                   *)
(***************************************************************************)
THEOREM Implements == Spec => ImplementsEntryPoint
<1>1. Init => OutcomeByStage /\ Contract!Init
  BY DEF Init, OutcomeByStage, Contract!Init, Contract!Exch!Init, Exch!Init, Stage,
         NoError, Contract!NoError, Exch!Preset, Exch!OK, Exch!NoBody, Exch!Answers,
         Contract!Exch!Preset, Contract!Exch!OK, Contract!Exch!NoBody, Contract!Exch!Answers
<1>2. IInv /\ OutcomeByStage /\ [Next]_vars => [Contract!Next]_(Contract!evars)
  <2> SUFFICES ASSUME IInv, OutcomeByStage, [Next]_vars
               PROVE  Contract!Next \/ UNCHANGED Contract!evars
    OBVIOUS
  <2>0. calls \in Nat /\ (pc # "returned" => calls > 0)
    BY DEF IInv, TypeOK, StoredByStage
  <2>1. CASE Enter
    <3>1. error' = NoError /\ UNCHANGED exchange /\ Stage' = "entered"
      BY <2>1 DEF Enter, Stage
    <3>2. CASE pc = "returned"
      <4>1. Stage \in {"idle", "returned"}
        BY <3>2 DEF Stage
      <4> QED
        BY <3>1, <4>1 DEF exchange, NoError, Contract!NoError, Contract!Enter, Contract!Next,
                          Contract!exchange
    <3>3. CASE pc = "crashed"
      <4>1. Stage = "entered" /\ error = NoError
        BY <3>3 DEF Stage, OutcomeByStage
      <4> QED
        BY <3>1, <4>1 DEF exchange, Contract!evars
    <3> QED
      BY <2>1, <3>2, <3>3 DEF Enter, Idle
  <2>2. CASE CallerFrees \/ SendNull \/ Read \/ UNCHANGED vars
    BY <2>2 DEF CallerFrees, SendNull, Read, vars, exchange, Contract!evars, Stage
  <2>3. CASE Refused
    <3>1. error' \in Contract!Refusals /\ UNCHANGED exchange
      BY <2>3 DEF Refused, Return, Invalid, Contract!Refusals, Contract!Error
    <3>2. Stage = "entered" /\ Stage' = "returned"
      BY <2>0, <2>3 DEF Refused, Return, Stage
    <3> QED
      BY <3>1, <3>2 DEF exchange, Contract!ReturnUnasked, Contract!Next, Contract!exchange
  <2>4. CASE Send
    <3>1. Contract!Exch!Call /\ Stage = "entered" /\ Stage' = "asking" /\ error' = error
      BY <2>4 DEF Send, Stage, Exch!Call, Contract!Exch!Call, Exch!Preset, Exch!OK,
                  Exch!NoBody, Exch!Answers, Contract!Exch!Preset, Contract!Exch!OK,
                  Contract!Exch!NoBody, Contract!Exch!Answers
    <3> QED
      BY <3>1 DEF Contract!Ask, Contract!Next
  <2>5. CASE Answered
    <3>1. /\ Contract!Exch!Deliver \/ Contract!Exch!Refuse \/ Contract!Exch!GiveUp
          /\ Stage = "asking" /\ Stage' = "answered" /\ error' = error
      BY <2>5 DEF Answered, Stage, Exch!Deliver, Exch!Refuse, Exch!GiveUp, Exch!OK,
                  Exch!NoBody, Contract!Exch!Deliver, Contract!Exch!Refuse, Contract!Exch!GiveUp,
                  Contract!Exch!OK, Contract!Exch!NoBody
    <3> QED
      BY <3>1 DEF Contract!Answered, Contract!Next
  <2>6. CASE Loaded
    BY <2>6 DEF Loaded, exchange, Contract!evars, Stage
  <2>7. CASE RequestFailed \/ NotJson \/ Reject \/ Parsed
    <3>1. error' \in Contract!Outcomes
      <4>1. CASE RequestFailed
        <5>1. Codes \subseteq Int
          BY CodesAssumption
        <5>2. status \in Int
          BY <5>1 DEF IInv, TypeOK
        <5> QED
          BY <4>1, <5>2 DEF RequestFailed, NoReply, HttpError, Return, Invalid,
                            Contract!Outcomes, Contract!Error
      <4>2. CASE NotJson \/ Reject \/ Parsed
        <5>1. /\ ~(status >= 400)
              /\ error' = Invalid \/ (error' = NoError /\ body # Exch!NoBody)
          BY <4>2 DEF NotJson, Reject, Parsed, HttpError, Return, OutcomeByStage
        <5> QED
          BY <5>1 DEF Invalid, NoError, Exch!NoBody, Contract!Outcomes, Contract!Error,
                      Contract!NoError, Contract!Exch!NoBody
      <4> QED
        BY <2>7, <4>1, <4>2
    <3>2. Stage = "answered" /\ Stage' = "returned" /\ UNCHANGED exchange
      BY <2>0, <2>7 DEF RequestFailed, NotJson, Reject, Parsed, Return, Stage
    <3> QED
      BY <3>1, <3>2 DEF exchange, Contract!ReturnAnswered, Contract!Next, Contract!exchange
  <2> QED
    BY <2>1, <2>2, <2>3, <2>4, <2>5, <2>6, <2>7 DEF Next
<1> QED
  BY <1>1, <1>2, OutcomeStep, Inductive, PTL DEF Spec, ImplementsEntryPoint, Contract!Spec
-----------------------------------------------------------------------------
(* Where status and error of a call come from.                              *)
CauseByStage ==
  /\ pc = "requested" => status = 200
  /\ pc \in {"answered", "parse"} => status \in {200, answer.code}
  /\ Contract!ErrorNamesItsCause

LEMMA CauseStep ==
  ASSUME IInv, CauseByStage, [Next]_vars
  PROVE  CauseByStage'
<1> USE DEF CauseByStage, Contract!ErrorNamesItsCause, Stage
<1>0. calls \in Nat /\ (pc # "returned" => calls > 0)
  BY DEF IInv, TypeOK, StoredByStage
<1>1. CASE Enter
  BY <1>1 DEF Enter
<1>2. CASE CallerFrees \/ SendNull \/ Read \/ UNCHANGED vars
  BY <1>2 DEF CallerFrees, SendNull, Read, vars, exchange
<1>3. CASE Refused
  BY <1>0, <1>3 DEF Refused, Return, Invalid, NoError, Contract!NoError
<1>4. CASE Send
  BY <1>4 DEF Send, Exch!Call, Exch!Preset, Exch!OK
<1>5. CASE Answered
  BY <1>5 DEF Answered, Exch!Deliver, Exch!Refuse, Exch!GiveUp
<1>6. CASE RequestFailed
  <2>1. /\ pc = "answered" /\ pc' = "returned" /\ UNCHANGED <<answer, calls>>
        /\ \/ error' = Invalid
           \/ status >= 400 /\ error' = [type |-> "HTTP_ERROR", code |-> status]
    BY <1>6 DEF RequestFailed, HttpError, Return, exchange
  <2>2. CASE error' = Invalid
    BY <2>1, <2>2 DEF Invalid, Contract!NoError
  <2>3. CASE status >= 400 /\ error' = [type |-> "HTTP_ERROR", code |-> status]
    BY <2>1, <2>3 DEF Contract!NoError
  <2> QED
    BY <2>1, <2>2, <2>3
<1>7. CASE NotJson \/ Reject
  BY <1>7 DEF NotJson, Reject, Return, Invalid, exchange, Contract!NoError
<1>8. CASE Loaded
  BY <1>8 DEF Loaded, exchange
<1>9. CASE Parsed
  BY <1>9 DEF Parsed, Return, NoError, exchange, IInv, AnswerByStage
<1> QED
  BY <1>1, <1>2, <1>3, <1>4, <1>5, <1>6, <1>7, <1>8, <1>9 DEF Next

(***************************************************************************)
(* HTTP_ERROR has the code with which the server has answered this very call, *)
(* and NULL means a 200 answer to it, over any number of calls.             *)
(***************************************************************************)
THEOREM NamedCause == Spec => []Contract!ErrorNamesItsCause
<1>1. Init => CauseByStage
  BY DEF Init, CauseByStage, Contract!ErrorNamesItsCause, Stage
<1>2. CauseByStage => Contract!ErrorNamesItsCause
  BY DEF CauseByStage
<1> QED
  BY <1>1, <1>2, CauseStep, Inductive, PTL DEF Spec

-----------------------------------------------------------------------------
(* Steps the call at hand can still make.                                   *)
StepsLeft ==
  CASE pc = "guards" -> Len(Items[function]) + 4
    [] pc = "requested" -> Len(Items[function]) + 3
    [] pc = "answered" -> Len(Items[function]) + 2
    [] pc = "parse" -> Len(Items[function]) - next + 2
    [] OTHER -> 0

(***************************************************************************)
(* Each step of a call, down to each item of the reply, brings it nearer to   *)
(* its return, or to the end of the process.                                *)
(***************************************************************************)
CallIsBounded == [][~Idle => StepsLeft' < StepsLeft]_vars

LEMMA StepsInRange ==
  ASSUME IInv
  PROVE  StepsLeft \in 0 .. 9
<1>1. Len(Items[function]) \in {4, 5} /\ next \in 1 .. Len(Items[function]) + 1
  BY RegisterItems, AuthenticateItems DEF IInv, TypeOK, Functions
<1> DEFINE length == Len(Items[function])
<1>2. \/ StepsLeft = 0
      \/ StepsLeft = length + 4
      \/ StepsLeft = length + 3
      \/ StepsLeft = length + 2
      \/ StepsLeft = length - next + 2
  BY DEF StepsLeft
<1>3. length \in {4, 5} /\ next \in 1 .. length + 1
  BY <1>1
<1> HIDE DEF length
<1> QED
  BY <1>2, <1>3

LEMMA FewerSteps ==
  ASSUME IInv, Next, ~Idle
  PROVE  StepsLeft' < StepsLeft
<1> DEFINE length == Len(Items[function])
<1>1. length \in {4, 5} /\ next \in 1 .. length + 1
  BY RegisterItems, AuthenticateItems DEF IInv, TypeOK, Functions
<1>2. function' = function
  BY DEF Next, Enter, CallerFrees, Idle, Refused, Send, SendNull, Answered, RequestFailed,
         NotJson, Loaded, Read, Reject, Parsed
<1>3. length' = length
  BY <1>2
<1>4. StepsLeft = CASE pc = "guards" -> length + 4
                    [] pc = "requested" -> length + 3
                    [] pc = "answered" -> length + 2
                    [] pc = "parse" -> length - next + 2
                    [] OTHER -> 0
  BY DEF StepsLeft
<1>5. StepsLeft' = CASE pc' = "guards" -> length + 4
                     [] pc' = "requested" -> length + 3
                     [] pc' = "answered" -> length + 2
                     [] pc' = "parse" -> length - next' + 2
                     [] OTHER -> 0
  BY <1>2 DEF StepsLeft
<1>6. pc = "parse" => pc' = "returned" \/ (pc' = "parse" /\ next' = next + 1)
  BY DEF Next, Enter, CallerFrees, Idle, Refused, Send, SendNull, Answered, RequestFailed,
         NotJson, Loaded, Read, Reject, Parsed, Return
<1>7. /\ pc = "guards" => pc' \in {"returned", "crashed", "requested"}
      /\ pc = "requested" => pc' = "answered"
      /\ pc = "answered" => pc' = "returned" \/ (pc' = "parse" /\ next' = next)
      /\ pc \in {"guards", "requested", "answered", "parse"}
      /\ pc = "answered" => next = 1
  BY DEF Next, Enter, CallerFrees, Idle, Refused, Send, SendNull, Answered, RequestFailed,
         NotJson, Loaded, Read, Reject, Parsed, Return, IInv, TypeOK, StoredByStage
<1> HIDE DEF length
<1> QED
  BY <1>1, <1>4, <1>5, <1>6, <1>7

(***************************************************************************)
(* A call returns, or crashes, within nine steps, that is after one exchange *)
(* and a pass over the items of the reply, if it is not stopped.            *)
(***************************************************************************)
THEOREM Bounded == Spec => [](StepsLeft \in 0 .. 9) /\ CallIsBounded
<1>1. IInv => StepsLeft \in 0 .. 9
  BY StepsInRange
<1>2. IInv /\ [Next]_vars => [~Idle => StepsLeft' < StepsLeft]_vars
  BY FewerSteps
<1> QED
  BY <1>1, <1>2, Inductive, PTL DEF Spec, CallIsBounded
=============================================================================
