------------------------ MODULE CheckForUpdatesProofs -------------------------
(***************************************************************************)
(* What gaus_check_for_updates guarantees for replies of any length, with    *)
(* any number of metadata pairs: what it delivers, what may be freed, which  *)
(* error it returns.                                                        *)
(***************************************************************************)
EXTENDS CheckForUpdates, SequenceTheorems, TLAPS

Early == {"idle", "guards", "requested", "answered", "root"}
Parsing == {"entry", "metadata", "pairs", "fields"}

(* There is no array before the root of the reply has been accepted, and     *)
(* while it is filled an entry of it is at hand.                            *)
ArrayByStage ==
  /\ pc \in Early => updates = <<>> /\ i = 0
  /\ pc \in Parsing => updateCount = Len(updates) /\ i \in 1 .. Len(updates)

(* Entries before the one at hand are whole files, those after it are not    *)
(* assigned.                                                                *)
EntriesAround ==
  pc \in Parsing => \A k \in 1 .. Len(updates) :
    /\ k < i => Complete(updates[k]) /\ updates[k].package = "file"
    /\ k > i \/ (k = i /\ pc = "entry") => \A f \in Fields : updates[k].fields[f] = "garbage"

(* The entry at hand is assigned up to the field to parse next.             *)
EntryAtHand ==
  /\ pc \in {"metadata", "pairs"} => \A f \in Fields : updates[i].fields[f] = "null"
  /\ pc = "metadata" => updates[i].pairs = 0 /\ updates[i].keys = 0 /\ updates[i].copied = 0
  /\ pc = "pairs" => updates[i].keys = updates[i].copied /\ updates[i].copied <= updates[i].pairs
  /\ pc = "fields" =>
       /\ AllPairs(updates[i])
       /\ \A k \in 1 .. Len(Order) :
            updates[i].fields[Order[k]] = IF k < next THEN "live" ELSE "null"
       /\ next > 2 => updates[i].package = reply.package
       /\ next > 5 => reply.package = "file"

(* A pair has been rejected: those before it are there, and its own key.     *)
RejectedPair(u) == error # NoError /\ reply.badPair = u.copied + 1 /\ u.keys = reply.badPair

(* What a call leaves behind, from the moment it has jumped to its end.      *)
Assigned ==
  i <= Len(updates) =>
    \A k \in 1 .. i :
      /\ \A f \in Fields : updates[k].fields[f] # "garbage"
      /\ k < i => Complete(updates[k])
      /\ AllPairs(updates[k]) \/ RejectedPair(updates[k])

Delivered ==
  error = NoError =>
    /\ Len(updates) = updateCount
    /\ \A k \in 1 .. updateCount :
         (\A j \in 1 .. k - 1 : updates[j].package = "file") => Complete(updates[k])

LeftBehind == pc \in {"exit", "returned"} => Assigned /\ Delivered

(* Where the status comes from; only the body of a 200 answer is parsed.     *)
CauseByStage ==
  /\ pc \in Early \cup Parsing => error = NoError
  /\ pc = "guards" => local["query_parms"] = "none" /\ local["raw"] = "none"
  /\ pc = "requested" => status = 200 /\ body = Exch!NoBody /\ local["raw"] = "none"
  /\ pc = "answered" =>
       /\ status # 200 => status = answer.code
       /\ local["raw"] # "none" => answer.code = 200
  /\ pc \in {"root"} \cup Parsing => answer.code = 200 /\ status < 400
  /\ pc \in {"exit", "returned"} =>
       /\ error.type = "HTTP_ERROR" => error.code = answer.code /\ answer.code >= 400
       /\ error = NoError => answer.code = 200
       /\ local["query_parms"] # "none" /\ status >= 400 => error.type = "HTTP_ERROR"

IInv ==
  /\ TypeOK
  /\ ArrayByStage
  /\ EntriesAround
  /\ EntryAtHand
  /\ LeftBehind
  /\ CauseByStage
  /\ LocalsReleased

USE CodesAssumption, MaxBodyAssumption, MaxUpdatesAssumption, MaxPairsAssumption,
    SizesAssumption, HalfAssumption

-----------------------------------------------------------------------------
(* From json_int_t to int and on to unsigned: the remainder of a division.   *)
LEMMA Narrowing ==
  ASSUME NEW n \in Int
  PROVE  /\ ToUnsigned(ToInt(n)) = n % Word
         /\ n % Word \in 0 .. Word - 1
         /\ n \in 0 .. Word - 1 => n % Word = n
<1>1. Word \in Nat \ {0}
  BY DEF Word
<1>2. n % Word \in 0 .. Word - 1
  BY <1>1
<1>3. n \in 0 .. Word - 1 => n % Word = n
  BY <1>1
<1>4. ToUnsigned(ToInt(n)) = n % Word
  <2> DEFINE r == n % Word
  <2>1. r \in Int /\ 0 <= r /\ r < Word /\ Word \in Int /\ Half < Word
    BY <1>1, <1>2 DEF Word
  <2>2. ToInt(n) = IF r < Half THEN r ELSE r - Word
    BY DEF ToInt
  <2> HIDE DEF r
  <2>3. ToUnsigned(IF r < Half THEN r ELSE r - Word) = r
    BY <2>1 DEF ToUnsigned
  <2> QED
    BY <2>2, <2>3 DEF r
<1> QED
  BY <1>2, <1>3, <1>4

(* The fields in the order of the parser.                                   *)
LEMMA OrderOfFields ==
  /\ Len(Order) = 7
  /\ Order[1] = "update_type" /\ Order[2] = "package_type" /\ Order[3] = "update_id"
  /\ Order[4] = "version" /\ Order[5] = "size" /\ Order[6] = "md5"
  /\ Order[7] = "download_url"
  /\ Fields = {"update_type", "package_type", "update_id", "version",
               "size", "md5", "download_url"}
<1>1. Len(Order) = 7 /\ DOMAIN Order = 1 .. 7
  BY DEF Order
<1>2. /\ Order[1] = "update_type" /\ Order[2] = "package_type" /\ Order[3] = "update_id"
      /\ Order[4] = "version" /\ Order[5] = "size" /\ Order[6] = "md5"
      /\ Order[7] = "download_url"
  BY DEF Order
<1>3. 1 .. 7 = {1, 2, 3, 4, 5, 6, 7}
  OBVIOUS
<1>4. Fields = {Order[1], Order[2], Order[3], Order[4], Order[5], Order[6], Order[7]}
  BY <1>1, <1>3 DEF Fields
<1> QED
  BY <1>1, <1>2, <1>4

LEMMA EveryFieldOnce ==
  /\ \A k \in 1 .. 7 : Order[k] \in Fields
  /\ \A f \in Fields : \E k \in 1 .. 7 : Order[k] = f
  /\ \A k, j \in 1 .. 7 : Order[k] = Order[j] => k = j
<1>1. \A k \in 1 .. 7 : k \in {1, 2, 3, 4, 5, 6, 7}
  OBVIOUS
<1>2. \A k \in 1 .. 7 : Order[k] \in Fields
  BY <1>1, OrderOfFields
<1>3. \A f \in Fields : \E k \in 1 .. 7 : Order[k] = f
  BY OrderOfFields
<1>4. \A k, j \in 1 .. 7 : Order[k] = Order[j] => k = j
  <2> TAKE k, j \in 1 .. 7
  <2> QED
    BY <1>1, OrderOfFields
<1> QED
  BY <1>2, <1>3, <1>4

LEMMA ReplaceEntry ==
  ASSUME NEW s \in Seq(Entry), NEW j \in 1 .. Len(s), NEW e \in Entry
  PROVE  /\ [s EXCEPT ![j] = e] \in Seq(Entry)
         /\ Len([s EXCEPT ![j] = e]) = Len(s)
         /\ [s EXCEPT ![j] = e][j] = e
         /\ \A k \in 1 .. Len(s) : k # j => [s EXCEPT ![j] = e][k] = s[k]
BY ExceptSeq

LEMMA UnwrittenIsEntry ==
  /\ Unwritten \in Entry
  /\ [Unwritten EXCEPT !.fields = [f \in Fields |-> "null"]] \in Entry
BY DEF Unwritten, Entry, Word

(* A complete entry has no garbage in it, and all of its pairs.              *)
LEMMA CompleteIsAssigned ==
  ASSUME NEW u, Complete(u)
  PROVE  AllPairs(u) /\ \A f \in Fields : u.fields[f] # "garbage"
BY DEF Complete

LEMMA InitIInv == Init => IInv
<1> SUFFICES ASSUME Init PROVE IInv
  OBVIOUS
<1> USE DEF Init, Exch!Init
<1>1. TypeOK
  <2>1. NoUpdate \in Replies
    BY DEF NoUpdate, Replies
  <2>2. updates \in Seq(Entry) /\ Len(updates) = 0
    OBVIOUS
  <2>3. local \in [Locals -> {"none", "held", "freed"}]
    OBVIOUS
  <2> QED
    BY <2>1, <2>2, <2>3, OrderOfFields
    DEF TypeOK, Exch!Preset, Exch!OK, Exch!NoBody, NoError, Untouched
<1>2. ArrayByStage /\ EntriesAround /\ EntryAtHand /\ LeftBehind /\ LocalsReleased
  BY DEF ArrayByStage, EntriesAround, EntryAtHand, LeftBehind, LocalsReleased, Parsing
<1>3. CauseByStage
  BY DEF CauseByStage, Parsing
<1> QED
  BY <1>1, <1>2, <1>3 DEF IInv

LEMMA EnterStep ==
  ASSUME IInv, Enter
  PROVE  IInv'
<1> USE DEF Enter, exchange
<1>1. TypeOK'
  <2>1. NoUpdate \in Replies
    BY DEF NoUpdate, Replies
  <2>2. updates' \in Seq(Entry) /\ Len(updates') = 0
    OBVIOUS
  <2>3. local' \in [Locals -> {"none", "held", "freed"}]
    OBVIOUS
  <2> QED
    BY <2>1, <2>2, <2>3, OrderOfFields DEF IInv, TypeOK, NoError, Untouched
<1>2. ArrayByStage' /\ EntriesAround' /\ EntryAtHand' /\ LeftBehind' /\ LocalsReleased'
  BY DEF ArrayByStage, EntriesAround, EntryAtHand, LeftBehind, LocalsReleased, Parsing
<1>3. CauseByStage'
  BY DEF CauseByStage, Parsing, Locals
<1> QED
  BY <1>1, <1>2, <1>3 DEF IInv

(* Until the root of the reply is accepted, the array is not there.          *)
LEMMA RequestSteps ==
  ASSUME IInv,
         Refused \/ Send \/ Answered \/ RequestFailed \/ NotJson \/ Loaded \/ RootInvalid
  PROVE  IInv'
<1>1. /\ UNCHANGED <<args, updateCount, updates, i, reply, next>>
      /\ pc \in Early /\ pc' \in Early \cup {"exit"}
  BY DEF Refused, Send, Answered, RequestFailed, NotJson, Loaded, RootInvalid, Exit, outs, parse,
         Early
<1>2. TypeOK'
  <2>1. pc' \in {"idle", "guards", "requested", "answered", "root", "exit"}
    BY <1>1 DEF Early
  <2>2. /\ phase' \in {"idle", "calling", "returned"} /\ answer' \in Exch!Answers
        /\ status' \in Codes /\ body' \in Nat \cup {Exch!NoBody}
    <3>1. CASE Send
      BY <3>1 DEF Send, Exch!Call, Exch!Preset, Exch!OK, Exch!NoBody
    <3>2. CASE Answered
      BY <3>2 DEF Answered, Exch!Deliver, Exch!Refuse, Exch!GiveUp, Exch!Answers, Exch!NoBody,
                  Exch!OK, IInv, TypeOK
    <3>3. CASE Refused \/ RequestFailed \/ NotJson \/ Loaded \/ RootInvalid
      BY <3>3 DEF Refused, RequestFailed, NotJson, Loaded, RootInvalid, exchange, IInv, TypeOK
    <3> QED
      BY <3>1, <3>2, <3>3
  <2>3. local' \in [Locals -> {"none", "held", "freed"}]
    <3>1. local' = local \/ \E l \in Locals : local' = [local EXCEPT ![l] = "held"]
      BY DEF Refused, Send, Answered, RequestFailed, NotJson, Loaded, RootInvalid, Locals
    <3> QED
      BY <3>1 DEF IInv, TypeOK
  <2>4. error' \in [type : {"NULL", "NO_INIT_ERROR", "UNKNOWN_ERROR", "HTTP_ERROR"}, code : Nat]
    <3>1. status \in Nat
      BY DEF IInv, TypeOK
    <3>2. \/ error' = error \/ error' = Invalid
          \/ error' = Error("NO_INIT_ERROR", 500) \/ error' = Error("HTTP_ERROR", status)
      BY DEF Refused, Send, Answered, RequestFailed, NotJson, Loaded, RootInvalid, Exit
    <3> QED
      BY <3>1, <3>2 DEF Error, Invalid, IInv, TypeOK
  <2> QED
    BY <1>1, <2>1, <2>2, <2>3, <2>4 DEF IInv, TypeOK
<1>3. /\ ArrayByStage' /\ EntriesAround' /\ EntryAtHand' /\ LocalsReleased'
  BY <1>1 DEF IInv, ArrayByStage, EntriesAround, EntryAtHand, LocalsReleased, Early, Parsing
<1>4. LeftBehind'
  <2> SUFFICES ASSUME pc' = "exit" PROVE Assigned' /\ Delivered'
    BY <1>1 DEF LeftBehind, Early
  <2>1. error' # NoError
    BY DEF Refused, Send, Answered, RequestFailed, NotJson, Loaded, RootInvalid, Exit, Error,
           Invalid, NoError
  <2>2. i' = 0
    BY <1>1 DEF IInv, ArrayByStage
  <2> QED
    BY <2>1, <2>2 DEF Assigned, Delivered
<1>5. CauseByStage'
  <2> DEFINE exitCause == /\ error'.type = "HTTP_ERROR" =>
                               error'.code = answer'.code /\ answer'.code >= 400
                          /\ error' # NoError
                          /\ local'["query_parms"] # "none" /\ status' >= 400 =>
                               error'.type = "HTTP_ERROR"
  <2>0. ASSUME pc' = "exit", exitCause PROVE CauseByStage'
    BY <2>0 DEF CauseByStage, Early, Parsing
  <2>1. CASE Refused
    <3>1. local'["query_parms"] = "none"
      BY <2>1 DEF Refused, IInv, CauseByStage
    <3>2. error'.type # "HTTP_ERROR" /\ error' # NoError /\ pc' = "exit"
      BY <2>1 DEF Refused, Exit, Error, Invalid, NoError
    <3> QED
      BY <2>0, <3>1, <3>2
  <2>2. CASE Send
    <3>1. local'["raw"] = "none"
      BY <2>2 DEF Send, IInv, TypeOK, CauseByStage
    <3>2. pc' = "requested" /\ error' = NoError /\ status' = 200 /\ body' = Exch!NoBody
      BY <2>2 DEF Send, Exch!Call, Exch!Preset, Exch!OK, IInv, CauseByStage, Early
    <3> QED
      BY <3>1, <3>2 DEF CauseByStage, Early, Parsing
  <2>3. CASE Answered
    <3>1. pc' = "answered" /\ error' = NoError
      BY <2>3 DEF Answered, IInv, CauseByStage, Early
    <3>2. status' # 200 => status' = answer'.code
      BY <2>3 DEF Answered, Exch!Deliver, Exch!Refuse, Exch!GiveUp, IInv, CauseByStage
    <3>3. local'["raw"] # "none" => answer'.code = 200
      <4>1. body' # Exch!NoBody => answer'.code = 200
        BY <2>3 DEF Answered, Exch!Deliver, Exch!Refuse, Exch!GiveUp, Exch!OK, IInv, CauseByStage
      <4> QED
        BY <2>3, <4>1 DEF Answered, IInv, CauseByStage
    <3> QED
      BY <3>1, <3>2, <3>3 DEF CauseByStage, Early, Parsing
  <2>4. CASE RequestFailed
    <3>1. pc = "answered" /\ pc' = "exit" /\ UNCHANGED <<answer, status, local>>
      BY <2>4 DEF RequestFailed, Exit, exchange
    <3>2. \/ status < 400 /\ error' = Invalid
          \/ status >= 400 /\ error' = Error("HTTP_ERROR", status)
      BY <2>4 DEF RequestFailed, Exit, NoReply, HttpError
    <3>3. status >= 400 => status = answer.code
      BY <3>1 DEF IInv, CauseByStage
    <3>4. status \in Nat
      BY DEF IInv, TypeOK
    <3> QED
      BY <2>0, <3>1, <3>2, <3>3, <3>4 DEF Error, Invalid, NoError
  <2>5. CASE NotJson \/ RootInvalid
    <3>1. ~(status >= 400) /\ status' = status /\ error' = Invalid /\ pc' = "exit"
      BY <2>5 DEF NotJson, RootInvalid, HttpError, Exit, exchange, IInv, CauseByStage, TypeOK
    <3> QED
      BY <2>0, <3>1 DEF Error, Invalid, NoError
  <2>6. CASE Loaded
    <3>1. status \in Nat /\ ~(status >= 400) /\ local["raw"] # "none"
      BY <2>6 DEF Loaded, NoReply, HttpError, IInv, TypeOK
    <3>2. answer.code = 200 /\ error = NoError
      BY <2>6, <3>1 DEF Loaded, IInv, CauseByStage, Early
    <3> QED
      BY <2>6, <3>1, <3>2 DEF Loaded, exchange, CauseByStage, Early, Parsing
  <2> QED
    BY <2>1, <2>2, <2>3, <2>4, <2>5, <2>6
<1> QED
  BY <1>2, <1>3, <1>4, <1>5 DEF IInv

LEMMA RootValidStep ==
  ASSUME IInv, RootValid
  PROVE  IInv'
<1>1. PICK n \in 0 .. MaxUpdates :
        /\ updateCount' = n
        /\ updates' = [k \in 1 .. n |-> Unwritten]
        /\ pc' = IF n = 0 THEN "exit" ELSE "entry"
  BY DEF RootValid
<1>2. /\ pc = "root" /\ i' = 1 /\ error = NoError
      /\ UNCHANGED <<args, phase, answer, status, body, local, reply, next, error>>
  BY DEF RootValid, exchange, IInv, CauseByStage, Early
<1>3. Len(updates') = n /\ updates' \in Seq(Entry)
  BY <1>1, UnwrittenIsEntry
<1>4. TypeOK'
  BY <1>1, <1>2, <1>3 DEF IInv, TypeOK
<1>5. ArrayByStage' /\ EntryAtHand' /\ LocalsReleased'
  BY <1>1, <1>2, <1>3 DEF ArrayByStage, EntryAtHand, LocalsReleased, Early, Parsing
<1>6. EntriesAround'
  BY <1>1, <1>2, <1>3 DEF EntriesAround, Unwritten
<1>7. LeftBehind'
  BY <1>1, <1>2, <1>3 DEF LeftBehind, Assigned, Delivered
<1>8. CauseByStage'
  BY <1>1, <1>2 DEF IInv, CauseByStage, Early, Parsing, NoError, TypeOK
<1> QED
  BY <1>4, <1>5, <1>6, <1>7, <1>8 DEF IInv

-----------------------------------------------------------------------------
(* Steps that change the entry at hand, and go on with it.                   *)
LEMMA EntryChange ==
  ASSUME IInv, pc \in Parsing, pc' \in {"metadata", "pairs", "fields"},
         NEW e \in Entry, updates' = [updates EXCEPT ![i] = e],
         reply' \in Replies, next' \in 1 .. 8,
         UNCHANGED <<args, exchange, local, updateCount, i, error>>
  PROVE  /\ TypeOK' /\ ArrayByStage' /\ EntriesAround' /\ LeftBehind' /\ CauseByStage'
         /\ LocalsReleased'
         /\ updates'[i] = e
<1>1. i \in 1 .. Len(updates) /\ updates \in Seq(Entry)
  BY DEF IInv, ArrayByStage, TypeOK
<1>2. /\ updates' \in Seq(Entry) /\ Len(updates') = Len(updates) /\ updates'[i] = e
      /\ \A k \in 1 .. Len(updates) : k # i => updates'[k] = updates[k]
  BY <1>1, ReplaceEntry
<1>3. TypeOK'
  BY <1>2, OrderOfFields DEF IInv, TypeOK, exchange
<1>4. ArrayByStage' /\ LeftBehind' /\ CauseByStage' /\ LocalsReleased'
  BY <1>2 DEF IInv, ArrayByStage, LeftBehind, CauseByStage, LocalsReleased, Early, Parsing, exchange
<1>5. EntriesAround'
  BY <1>1, <1>2 DEF IInv, EntriesAround
<1> QED
  BY <1>2, <1>3, <1>4, <1>5

(* The entry at hand, of which any field can be replaced.                    *)
LEMMA AtHand ==
  ASSUME IInv, pc \in Parsing
  PROVE  /\ updates \in Seq(Entry) /\ Len(updates) \in Nat
         /\ i \in 1 .. Len(updates)
         /\ updates[i] \in Entry
         /\ Len(Order) + 1 = 8
         /\ reply \in Replies /\ next \in 1 .. 8
         /\ \A x : [updates EXCEPT ![i] = x][i] = x
<1>1. updates \in Seq(Entry) /\ Len(updates) \in Nat /\ i \in 1 .. Len(updates)
  BY DEF IInv, TypeOK, ArrayByStage
<1>2. updates[i] \in Entry /\ \A x : [updates EXCEPT ![i] = x][i] = x
  BY <1>1
<1> QED
  BY <1>1, <1>2, OrderOfFields DEF IInv, TypeOK

(* Steps that reject the entry at hand, with a pair in it or after all pairs. *)
LEMMA EntryRejected ==
  ASSUME IInv, pc \in {"metadata", "pairs", "fields"}, Exit(Invalid),
         NEW e \in Entry, updates' = [updates EXCEPT ![i] = e], e.fields = updates[i].fields,
         AllPairs(e) \/ (reply.badPair = e.copied + 1 /\ e.keys = reply.badPair),
         UNCHANGED <<args, exchange, local, updateCount, i, reply, next>>
  PROVE  IInv'
<1>1. pc' = "exit" /\ error' = Invalid /\ error' # NoError
  BY DEF Exit, Invalid, Error, NoError
<1>2. i \in 1 .. Len(updates) /\ updates \in Seq(Entry) /\ Len(updates) \in Nat
  BY DEF IInv, ArrayByStage, TypeOK, Parsing
<1>3. /\ updates' \in Seq(Entry) /\ Len(updates') = Len(updates) /\ updates'[i] = e
      /\ \A k \in 1 .. Len(updates) : k # i => updates'[k] = updates[k]
  BY <1>2, ReplaceEntry
<1>4. TypeOK'
  BY <1>1, <1>3 DEF IInv, TypeOK, exchange, Invalid, Error
<1>5. ArrayByStage' /\ EntriesAround' /\ EntryAtHand' /\ LocalsReleased'
  BY <1>1 DEF ArrayByStage, EntriesAround, EntryAtHand, LocalsReleased, Early, Parsing
<1>6. \A f \in Fields : e.fields[f] # "garbage"
  <2>1. CASE pc \in {"metadata", "pairs"}
    BY <2>1 DEF IInv, EntryAtHand
  <2>2. CASE pc = "fields"
    BY <2>2, OrderOfFields, EveryFieldOnce DEF IInv, EntryAtHand
  <2> QED
    BY <2>1, <2>2
<1>7. Assigned'
  <2> SUFFICES ASSUME NEW k \in 1 .. i
               PROVE  /\ \A f \in Fields : updates'[k].fields[f] # "garbage"
                      /\ k < i => Complete(updates'[k])
                      /\ AllPairs(updates'[k]) \/ RejectedPair(updates[k])'
    BY DEF Assigned
  <2>1. CASE k = i
    BY <1>1, <1>2, <1>3, <1>6, <2>1 DEF RejectedPair
  <2>2. CASE k < i
    <3>1. Complete(updates[k]) /\ updates'[k] = updates[k]
      BY <1>2, <1>3, <2>2 DEF IInv, EntriesAround, Parsing
    <3> QED
      BY <3>1, CompleteIsAssigned
  <2> QED
    BY <1>2, <2>1, <2>2
<1>8. LeftBehind'
  BY <1>1, <1>7 DEF LeftBehind, Delivered
<1>9. CauseByStage'
  <2>1. status' < 400 /\ status' \in Nat
    BY DEF IInv, CauseByStage, Parsing, TypeOK, exchange
  <2> QED
    BY <1>1, <2>1 DEF CauseByStage, Early, Parsing, Invalid, Error, NoError
<1> QED
  BY <1>4, <1>5, <1>8, <1>9 DEF IInv

(* Outside of the pairs nothing of the entry has to change for that.         *)
LEMMA EntryLeftAsIs ==
  ASSUME IInv, pc \in {"metadata", "fields"}, Exit(Invalid), UNCHANGED updates,
         UNCHANGED <<args, exchange, local, updateCount, i, reply, next>>
  PROVE  IInv'
<1> DEFINE e == updates[i]
<1>1. e \in Entry /\ updates' = [updates EXCEPT ![i] = e]
  <2>1. updates \in Seq(Entry) /\ i \in 1 .. Len(updates) /\ e \in Entry
    BY AtHand DEF Parsing
  <2>2. [updates EXCEPT ![i] = e] = updates
    BY <2>1
  <2> QED
    BY <2>1, <2>2
<1>2. AllPairs(e) /\ e.fields = updates[i].fields
  BY DEF IInv, EntryAtHand, AllPairs
<1> HIDE DEF e
<1> QED
  BY <1>1, <1>2, EntryRejected

LEMMA StartEntryStep ==
  ASSUME IInv, StartEntry
  PROVE  IInv'
<1> DEFINE e == [Unwritten EXCEPT !.fields = [f \in Fields |-> "null"]]
<1>1. /\ pc = "entry" /\ pc' = "metadata" /\ reply' \in Replies
      /\ updates' = [updates EXCEPT ![i] = e]
      /\ UNCHANGED <<args, exchange, local, updateCount, i, next, error>>
  BY DEF StartEntry
<1>2. e \in Entry
  BY UnwrittenIsEntry
<1>3. e.pairs = 0 /\ e.keys = 0 /\ e.copied = 0 /\ \A f \in Fields : e.fields[f] = "null"
  BY DEF Unwritten
<1> HIDE DEF e
<1>4. /\ TypeOK' /\ ArrayByStage' /\ EntriesAround' /\ LeftBehind' /\ CauseByStage'
      /\ LocalsReleased' /\ updates'[i] = e
  BY <1>1, <1>2, AtHand, EntryChange DEF Parsing
<1>5. EntryAtHand'
  BY <1>1, <1>3, <1>4 DEF EntryAtHand
<1> QED
  BY <1>4, <1>5 DEF IInv

LEMMA MetadataStep ==
  ASSUME IInv, Metadata
  PROVE  IInv'
<1>1. CASE reply.rejected = "metadata"
  BY <1>1, EntryLeftAsIs DEF Metadata, parse
<1>2. CASE reply.rejected # "metadata"
  <2> DEFINE e == [updates[i] EXCEPT !.pairs = reply.pairs]
  <2>1. /\ pc = "metadata" /\ pc' = "pairs"
        /\ UNCHANGED <<args, exchange, local, updateCount, i, reply, next, error>>
    BY <1>2 DEF Metadata, parse
  <2>2. updates' = [updates EXCEPT ![i] = e]
    BY <1>2 DEF Metadata
  <2>3. updates[i] \in Entry /\ reply \in Replies /\ next \in 1 .. 8
    BY <2>1, AtHand DEF Parsing
  <2>4. /\ e \in Entry /\ e.fields = updates[i].fields /\ e.copied = updates[i].copied
        /\ e.keys = updates[i].keys /\ e.pairs = reply.pairs /\ reply.pairs \in Nat
    BY <2>3 DEF Entry, Replies
  <2> HIDE DEF e
  <2>5. /\ TypeOK' /\ ArrayByStage' /\ EntriesAround' /\ LeftBehind' /\ CauseByStage'
        /\ LocalsReleased' /\ updates'[i] = e
    BY <2>1, <2>2, <2>3, <2>4, EntryChange DEF Parsing
  <2>6. EntryAtHand'
    BY <2>1, <2>4, <2>5 DEF IInv, EntryAtHand
  <2> QED
    BY <2>5, <2>6 DEF IInv
<1> QED
  BY <1>1, <1>2

LEMMA PairStep ==
  ASSUME IInv, Pair
  PROVE  IInv'
<1>1. CASE reply.badPair = updates[i].copied + 1
  <2> DEFINE e == [updates[i] EXCEPT !.keys = @ + 1]
  <2>1. /\ pc = "pairs" /\ updates[i].copied < updates[i].pairs /\ Exit(Invalid)
        /\ UNCHANGED <<args, exchange, local, updateCount, i, reply, next>>
    BY <1>1 DEF Pair, parse
  <2>2. updates[i] \in Entry /\ updates[i].keys = updates[i].copied
    BY <2>1, AtHand DEF Parsing, IInv, EntryAtHand
  <2>3. updates' = [updates EXCEPT ![i] = e]
    BY <1>1 DEF Pair
  <2>4. /\ e \in Entry /\ e.fields = updates[i].fields
        /\ reply.badPair = e.copied + 1 /\ e.keys = reply.badPair
    BY <1>1, <2>1, <2>2 DEF Entry
  <2> HIDE DEF e
  <2> QED
    BY <2>1, <2>3, <2>4, EntryRejected
<1>2. CASE reply.badPair # updates[i].copied + 1
  <2> DEFINE e == [updates[i] EXCEPT !.keys = @ + 1, !.copied = @ + 1]
  <2>1. /\ pc = "pairs" /\ pc' = "pairs" /\ updates[i].copied < updates[i].pairs
        /\ UNCHANGED <<args, exchange, local, updateCount, i, reply, next, error>>
    BY <1>2 DEF Pair, parse
  <2>2. updates' = [updates EXCEPT ![i] = e]
    BY <1>2 DEF Pair
  <2>3. /\ updates[i] \in Entry /\ reply \in Replies /\ next \in 1 .. 8
        /\ updates[i].keys = updates[i].copied
    BY <2>1, AtHand DEF Parsing, IInv, EntryAtHand
  <2>4. /\ e \in Entry /\ e.fields = updates[i].fields
        /\ e.keys = e.copied /\ e.copied <= e.pairs
    <3> DEFINE old == updates[i]
    <3>1. /\ old.pairs \in 0 .. MaxPairs /\ old.copied \in 0 .. MaxPairs
          /\ old.keys = old.copied /\ old.copied < old.pairs
      BY <2>1, <2>3 DEF Entry
    <3>2. old.copied + 1 \in 0 .. MaxPairs /\ old.copied + 1 <= old.pairs
      BY <3>1
    <3> DEFINE e1 == [old EXCEPT !.keys = @ + 1]
    <3>3. /\ e1 \in Entry /\ e1.fields = old.fields /\ e1.pairs = old.pairs
          /\ e1.keys = old.copied + 1 /\ e1.copied = old.copied
      BY <2>3, <3>1, <3>2 DEF Entry
    <3>4. e = [e1 EXCEPT !.copied = @ + 1]
      OBVIOUS
    <3> HIDE DEF e1, e
    <3>5. /\ e \in Entry /\ e.fields = e1.fields /\ e.pairs = e1.pairs
          /\ e.keys = e1.keys /\ e.copied = e1.copied + 1
      BY <3>2, <3>3, <3>4 DEF Entry
    <3> QED
      BY <3>2, <3>3, <3>5
  <2> HIDE DEF e
  <2>5. /\ TypeOK' /\ ArrayByStage' /\ EntriesAround' /\ LeftBehind' /\ CauseByStage'
        /\ LocalsReleased' /\ updates'[i] = e
    BY <2>1, <2>2, <2>3, <2>4, EntryChange DEF Parsing
  <2>6. EntryAtHand'
    BY <2>1, <2>4, <2>5 DEF IInv, EntryAtHand
  <2> QED
    BY <2>5, <2>6 DEF IInv
<1> QED
  BY <1>1, <1>2

LEMMA PairsDoneStep ==
  ASSUME IInv, PairsDone
  PROVE  IInv'
<1>1. /\ pc = "pairs" /\ pc' = "fields" /\ next' = 1 /\ AllPairs(updates[i])
      /\ UNCHANGED <<args, exchange, local, updateCount, updates, i, reply, error>>
  BY DEF PairsDone, AllPairs, IInv, EntryAtHand, outs
<1>2. updates \in Seq(Entry) /\ i \in 1 .. Len(updates) /\ updates[i] \in Entry
      /\ reply \in Replies
  BY <1>1, AtHand DEF Parsing
<1> DEFINE e == updates[i]
<1>3. updates' = [updates EXCEPT ![i] = e] /\ e \in Entry
  <2>1. [updates EXCEPT ![i] = updates[i]] = updates
    BY <1>2
  <2> QED
    BY <1>1, <1>2, <2>1
<1> HIDE DEF e
<1>4. /\ TypeOK' /\ ArrayByStage' /\ EntriesAround' /\ LeftBehind' /\ CauseByStage'
      /\ LocalsReleased'
  <2>1. pc \in Parsing /\ pc' \in {"metadata", "pairs", "fields"}
    BY <1>1 DEF Parsing
  <2>2. reply' \in Replies /\ next' \in 1 .. 8
    BY <1>1, <1>2
  <2>3. UNCHANGED <<args, exchange, local, updateCount, i, error>>
    BY <1>1
  <2> QED
    BY <1>3, <2>1, <2>2, <2>3, EntryChange
<1>5. EntryAtHand'
  BY <1>1, OrderOfFields, EveryFieldOnce DEF IInv, EntryAtHand
<1> QED
  BY <1>4, <1>5 DEF IInv

(* What is stored is the size sent, if the field can hold it.                *)
LEMMA SizeStored ==
  ASSUME reply \in Replies
  PROVE  /\ Size \in 0 .. Word - 1
         /\ reply.rejected # "size" /\ reply.size \in 0 .. Word - 1 => Size = reply.size
<1>1. reply.size \in Int
  BY DEF Replies
<1>2. CASE reply.rejected # "size"
  <2>1. Size = reply.size % Word
    BY <1>1, <1>2, Narrowing DEF Size, get_dict_int
  <2> QED
    BY <1>1, <2>1, Narrowing
<1>3. CASE reply.rejected = "size"
  <2>1. Size = 0
    BY <1>3 DEF Size, get_dict_int, ToUnsigned
  <2> QED
    BY <1>3, <2>1 DEF Word
<1> QED
  BY <1>2, <1>3

LEMMA FieldStep ==
  ASSUME IInv, Field
  PROVE  IInv'
<1>1. CASE Rejected
  BY <1>1, EntryLeftAsIs DEF Field
<1>2. CASE ~Rejected
  <2> DEFINE old == updates[i]
             name == Order[next]
             e == [old EXCEPT !.fields[name] = "live",
                              !.package = IF name = "package_type" THEN reply.package ELSE @,
                              !.size = IF name = "size" THEN Size ELSE @]
  <2>1. /\ pc = "fields" /\ pc' = "fields" /\ next \in 1 .. 7 /\ next' = next + 1
        /\ next = 5 => reply.package = "file"
        /\ UNCHANGED <<args, exchange, local, updateCount, i, reply, error>>
    BY <1>2, OrderOfFields DEF Field, AtFileFields, IInv, TypeOK
  <2>2. old \in Entry /\ reply \in Replies /\ name \in Fields
    BY <2>1, AtHand, EveryFieldOnce DEF Parsing
  <2>3. updates' = [updates EXCEPT ![i] = e]
    BY <1>2, <2>1, AtHand DEF Field, Parsing
  <2>4. /\ e \in Entry
        /\ e.copied = old.copied /\ e.keys = old.keys /\ e.pairs = old.pairs
        /\ e.package = IF name = "package_type" THEN reply.package ELSE old.package
        /\ \A f \in Fields : e.fields[f] = IF f = name THEN "live" ELSE old.fields[f]
    BY <2>2, SizeStored DEF Entry, Replies
  <2> HIDE DEF e
  <2>5. /\ TypeOK' /\ ArrayByStage' /\ EntriesAround' /\ LeftBehind' /\ CauseByStage'
        /\ LocalsReleased' /\ updates'[i] = e
    <3>1. pc \in Parsing /\ pc' \in {"metadata", "pairs", "fields"}
      BY <2>1 DEF Parsing
    <3>2. reply' \in Replies /\ next' \in 1 .. 8
      BY <2>1, <2>2
    <3>3. UNCHANGED <<args, exchange, local, updateCount, i, error>>
      BY <2>1
    <3> QED
      BY <2>3, <2>4, <3>1, <3>2, <3>3, EntryChange
  <2>6. /\ AllPairs(old)
        /\ \A k \in 1 .. 7 : old.fields[Order[k]] = IF k < next THEN "live" ELSE "null"
        /\ next > 2 => old.package = reply.package
        /\ next > 5 => reply.package = "file"
    BY <2>1, OrderOfFields DEF IInv, EntryAtHand
  <2>7. \A k \in 1 .. 7 : e.fields[Order[k]] = IF k < next + 1 THEN "live" ELSE "null"
    <3> TAKE k \in 1 .. 7
    <3>1. Order[k] \in Fields /\ (Order[k] = name <=> k = next)
      BY <2>1, EveryFieldOnce
    <3> QED
      BY <2>1, <2>4, <2>6, <3>1
  <2>8. next + 1 > 2 => e.package = reply.package
    BY <2>1, <2>4, <2>6, OrderOfFields
  <2>9. EntryAtHand'
    <3>1. AllPairs(e)
      BY <2>4, <2>6 DEF AllPairs
    <3> QED
      BY <2>1, <2>4, <2>5, <2>6, <2>7, <2>8, <3>1, OrderOfFields DEF EntryAtHand
  <2> QED
    BY <2>5, <2>9 DEF IInv
<1> QED
  BY <1>1, <1>2

(* A package that is not a file: the entry is complete in its own way.       *)
LEMMA NotAFileStep ==
  ASSUME IInv, NotAFile
  PROVE  IInv'
<1> DEFINE old == updates[i]
           e == [old EXCEPT !.fields = [f \in Fields |-> IF f \in FileOnly THEN "null" ELSE @[f]]]
<1>1. /\ pc = "fields" /\ pc' = "exit" /\ next = 5 /\ reply.package = "other"
      /\ UNCHANGED <<args, exchange, local, updateCount, i, reply, next, error>>
  BY DEF NotAFile, AtFileFields, parse
<1>2. /\ updates \in Seq(Entry) /\ i \in 1 .. Len(updates) /\ old \in Entry
      /\ Len(updates) \in Nat
  BY <1>1, AtHand DEF Parsing
<1>3. updates' = [updates EXCEPT ![i] = e]
  BY <1>2 DEF NotAFile
<1>4. /\ e \in Entry
      /\ e.copied = old.copied /\ e.keys = old.keys /\ e.pairs = old.pairs
      /\ e.package = old.package
      /\ \A f \in Fields : e.fields[f] = IF f \in FileOnly THEN "null" ELSE old.fields[f]
  BY <1>2 DEF Entry
<1>5. /\ AllPairs(old) /\ old.package = "other"
      /\ \A k \in 1 .. 7 : old.fields[Order[k]] = IF k < 5 THEN "live" ELSE "null"
  BY <1>1, OrderOfFields DEF IInv, EntryAtHand
<1>6. Complete(e)
  <2>1. \A k \in 1 .. 7 : Order[k] \in FileOnly <=> ~(k < 5)
    <3>1. \A k \in 1 .. 7 : k \in {1, 2, 3, 4, 5, 6, 7}
      OBVIOUS
    <3> QED
      BY <3>1, OrderOfFields DEF FileOnly
  <2>2. \A k \in 1 .. 7 : e.fields[Order[k]] = IF Order[k] \in FileOnly THEN "null" ELSE "live"
    BY <1>4, <1>5, <2>1, EveryFieldOnce
  <2> QED
    BY <1>4, <1>5, <2>2, EveryFieldOnce DEF Complete, AllPairs
<1> HIDE DEF e
<1>7. /\ updates' \in Seq(Entry) /\ Len(updates') = Len(updates) /\ updates'[i] = e
      /\ \A k \in 1 .. Len(updates) : k # i => updates'[k] = updates[k]
  BY <1>2, <1>3, <1>4, ReplaceEntry
<1>8. TypeOK'
  BY <1>1, <1>7 DEF IInv, TypeOK, exchange
<1>9. ArrayByStage' /\ EntriesAround' /\ EntryAtHand' /\ LocalsReleased'
  BY <1>1 DEF ArrayByStage, EntriesAround, EntryAtHand, LocalsReleased, Early, Parsing
<1>10. \A k \in 1 .. i : Complete(updates'[k])
  BY <1>1, <1>2, <1>6, <1>7 DEF IInv, EntriesAround, Parsing
<1>11. LeftBehind'
  <2>1. Assigned'
    BY <1>1, <1>2, <1>7, <1>10, CompleteIsAssigned DEF Assigned
  <2>2. updateCount = Len(updates)
    BY <1>1 DEF IInv, ArrayByStage, Parsing
  <2>3. ASSUME NEW k \in 1 .. updateCount,
               \A j \in 1 .. k - 1 : updates'[j].package = "file"
        PROVE  Complete(updates'[k])
    <3>1. ~(k > i)
      BY <1>2, <1>4, <1>5, <1>7, <2>2, <2>3
    <3> QED
      BY <1>2, <1>10, <2>2, <3>1
  <2>4. Delivered'
    BY <1>1, <1>7, <2>2, <2>3 DEF Delivered
  <2> QED
    BY <2>1, <2>4 DEF LeftBehind
<1>12. CauseByStage'
  <2>1. error' = NoError /\ answer'.code = 200 /\ status' < 400 /\ status' \in Nat
    BY <1>1 DEF IInv, TypeOK, CauseByStage, Parsing, exchange
  <2> QED
    BY <1>1, <2>1 DEF CauseByStage, Early, Parsing, NoError
<1> QED
  BY <1>8, <1>9, <1>11, <1>12 DEF IInv

LEMMA EntryDoneStep ==
  ASSUME IInv, EntryDone
  PROVE  IInv'
<1>1. /\ pc = "fields" /\ next = 8 /\ i' = i + 1
      /\ pc' = IF i = updateCount THEN "exit" ELSE "entry"
      /\ UNCHANGED <<args, exchange, local, updateCount, updates, reply, next, error>>
  BY OrderOfFields DEF EntryDone, outs, IInv, TypeOK
<1>2. /\ updates \in Seq(Entry) /\ i \in 1 .. Len(updates) /\ Len(updates) \in Nat
      /\ updateCount = Len(updates)
  BY <1>1, AtHand DEF IInv, ArrayByStage, Parsing
<1>3. Complete(updates[i]) /\ updates[i].package = "file"
  <2>1. /\ AllPairs(updates[i]) /\ updates[i].package = "file"
        /\ \A k \in 1 .. 7 : updates[i].fields[Order[k]] = "live"
    BY <1>1, OrderOfFields DEF IInv, EntryAtHand
  <2> QED
    BY <2>1, EveryFieldOnce DEF Complete
<1>4. \A k \in 1 .. Len(updates) : k <= i => Complete(updates[k]) /\ updates[k].package = "file"
  BY <1>1, <1>2, <1>3 DEF IInv, EntriesAround, Parsing
<1>5. TypeOK'
  <2>1. i' \in 0 .. MaxUpdates + 1
    BY <1>1, <1>2 DEF IInv, TypeOK
  <2> QED
    BY <1>1, <2>1 DEF IInv, TypeOK, exchange
<1>6. ArrayByStage' /\ EntryAtHand' /\ LocalsReleased'
  BY <1>1, <1>2 DEF ArrayByStage, EntryAtHand, LocalsReleased, Early, Parsing
<1>7. EntriesAround'
  <2> SUFFICES ASSUME pc' = "entry", NEW k \in 1 .. Len(updates)
               PROVE  /\ k < i + 1 => Complete(updates[k]) /\ updates[k].package = "file"
                      /\ k > i + 1 \/ k = i + 1 =>
                           \A f \in Fields : updates[k].fields[f] = "garbage"
    BY <1>1 DEF EntriesAround, Parsing
  <2>1. k > i => \A f \in Fields : updates[k].fields[f] = "garbage"
    BY <1>1 DEF IInv, EntriesAround, Parsing
  <2> QED
    BY <1>2, <1>4, <2>1
<1>8. LeftBehind'
  <2> SUFFICES ASSUME pc' = "exit" PROVE Assigned' /\ Delivered'
    BY <1>1 DEF LeftBehind
  <2>1. i = updateCount
    BY <1>1
  <2> QED
    BY <1>1, <1>2, <1>4, <2>1 DEF Assigned, Delivered
<1>9. CauseByStage'
  <2>1. /\ error' = NoError /\ answer'.code = 200 /\ status' < 400 /\ status' \in Nat
        /\ pc' \in {"exit", "entry"}
    BY <1>1 DEF IInv, TypeOK, CauseByStage, Parsing, exchange
  <2> QED
    BY <2>1 DEF CauseByStage, Early, Parsing, NoError
<1> QED
  BY <1>5, <1>6, <1>7, <1>8, <1>9 DEF IInv

LEMMA ReturnStep ==
  ASSUME IInv, Return
  PROVE  IInv'
<1>1. /\ pc = "exit" /\ pc' = "returned"
      /\ local' = [l \in Locals |-> IF local[l] = "held" THEN "freed" ELSE local[l]]
      /\ UNCHANGED <<args, exchange, updateCount, updates, i, reply, next, error>>
  BY DEF Return, outs, parse
<1>2. local' \in [Locals -> {"none", "held", "freed"}] /\ LocalsReleased'
  BY <1>1 DEF IInv, TypeOK, LocalsReleased
<1>3. TypeOK'
  BY <1>1, <1>2 DEF IInv, TypeOK, exchange
<1>4. ArrayByStage' /\ EntriesAround' /\ EntryAtHand'
  BY <1>1 DEF ArrayByStage, EntriesAround, EntryAtHand, Early, Parsing
<1>5. LeftBehind'
  BY <1>1 DEF IInv, LeftBehind, Assigned, RejectedPair, Delivered
<1>6. CauseByStage'
  <2>1. local'["query_parms"] # "none" => local["query_parms"] # "none"
    BY <1>1 DEF Locals
  <2> QED
    BY <1>1, <2>1 DEF IInv, CauseByStage, Early, Parsing, exchange
<1> QED
  BY <1>2, <1>3, <1>4, <1>5, <1>6 DEF IInv

LEMMA NextIInv == IInv /\ [Next]_vars => IInv'
<1> SUFFICES ASSUME IInv, [Next]_vars PROVE IInv'
  OBVIOUS
<1>1. CASE UNCHANGED vars
  BY <1>1 DEF vars, IInv, TypeOK, ArrayByStage, EntriesAround, EntryAtHand, LeftBehind,
              Assigned, RejectedPair, Delivered, CauseByStage, LocalsReleased
<1>2. CASE Next
  BY <1>2, EnterStep, RequestSteps, RootValidStep, StartEntryStep, MetadataStep, PairStep,
     PairsDoneStep, FieldStep, NotAFileStep, EntryDoneStep, ReturnStep DEF Next
<1> QED
  BY <1>1, <1>2

(***************************************************************************)
(* The inductive invariant, of calls with replies of any length.             *)
(***************************************************************************)
THEOREM Inductive == Spec => []IInv
  BY InitIInv, NextIInv, PTL DEF Spec

(***************************************************************************)
(* Type correctness, for every number of updates and of metadata pairs.      *)
(***************************************************************************)
THEOREM TypeCorrect == Spec => []TypeOK
<1>1. IInv => TypeOK
  BY DEF IInv
<1> QED
  BY <1>1, Inductive, PTL

(***************************************************************************)
(* The call's own blocks are freed at each of its exits.                     *)
(***************************************************************************)
THEOREM Released == Spec => []LocalsReleased
<1>1. IInv => LocalsReleased
  BY DEF IInv
<1> QED
  BY <1>1, Inductive, PTL

(***************************************************************************)
(* On success every update up to the first that is not a file is delivered   *)
(* whole, for replies of any length.                                        *)
(***************************************************************************)
THEOREM DeliveredWhole == Spec => []DeliveredUpToOther
<1>1. IInv => DeliveredUpToOther
  BY DEF IInv, LeftBehind, Delivered, DeliveredUpToOther
<1> QED
  BY <1>1, Inductive, PTL

-----------------------------------------------------------------------------
(* Where the size has been read, and which entry stops at it.                *)
SizeByStage ==
  /\ pc \in Early => next = 1
  /\ pc \in {"entry", "metadata", "pairs"} => next \in {1, 8}
  /\ pc = "fields" /\ next > 5 => updates[i].size = Size
  /\ pc \in {"exit", "returned"} /\ next = 5 /\ error # NoError => Rejected

LEMMA SizeStep ==
  ASSUME IInv, SizeByStage, [Next]_vars
  PROVE  SizeByStage'
<1>1. CASE Enter \/ Refused \/ Send \/ Answered \/ RequestFailed \/ NotJson \/ Loaded \/ RootInvalid
           \/ RootValid
  <2>1. next' = 1 /\ pc' \in Early \cup {"exit", "entry"}
    BY <1>1 DEF Enter, Refused, Send, Answered, RequestFailed, NotJson, Loaded, RootInvalid,
                RootValid, Exit, parse, Early, SizeByStage
  <2> QED
    BY <2>1 DEF SizeByStage, Early
<1>2. CASE StartEntry \/ Metadata \/ Pair \/ PairsDone
  <2>1. pc \in {"entry", "metadata", "pairs"} /\ next' \in {1, 8}
    BY <1>2 DEF StartEntry, Metadata, Pair, PairsDone, parse, SizeByStage
  <2>2. pc' \in {"metadata", "pairs", "exit"} \/ (pc' = "fields" /\ next' = 1)
    BY <1>2 DEF StartEntry, Metadata, Pair, PairsDone, Exit
  <2> QED
    BY <2>1, <2>2 DEF SizeByStage, Early
<1>3. CASE Field
  <2>1. CASE Rejected
    <3>1. pc' = "exit" /\ UNCHANGED <<next, reply>>
      BY <1>3, <2>1 DEF Field, Exit
    <3> QED
      BY <2>1, <3>1 DEF SizeByStage, Early, Rejected, Size
  <2>2. CASE ~Rejected
    <3> DEFINE old == updates[i]
               e == [old EXCEPT !.fields[Order[next]] = "live",
                      !.package = IF Order[next] = "package_type" THEN reply.package ELSE @,
                      !.size = IF Order[next] = "size" THEN Size ELSE @]
    <3>1. /\ pc = "fields" /\ pc' = "fields" /\ next \in 1 .. 7 /\ next' = next + 1
          /\ UNCHANGED <<i, reply>>
      BY <1>3, <2>2, OrderOfFields DEF Field, IInv, TypeOK
    <3>2. old \in Entry /\ updates'[i] = e
      <4>1. old \in Entry /\ i \in DOMAIN updates
        BY <3>1, AtHand DEF Parsing
      <4>2. updates' = [updates EXCEPT
                 ![i].fields[Order[next]] = "live",
                 ![i].package = IF Order[next] = "package_type" THEN reply.package ELSE @,
                 ![i].size = IF Order[next] = "size" THEN Size ELSE @]
        BY <1>3, <2>2 DEF Field
      <4> QED
        BY <4>1, <4>2
    <3>3. e.size = IF Order[next] = "size" THEN Size ELSE old.size
      BY <3>2 DEF Entry
    <3>4. (Order[next] = "size" <=> next = 5) /\ (next > 5 => old.size = Size)
      BY <3>1, EveryFieldOnce, OrderOfFields DEF SizeByStage
    <3> HIDE DEF e
    <3>5. next' > 5 => updates'[i] = e /\ e.size = Size
      BY <3>1, <3>2, <3>3, <3>4
    <3> QED
      BY <3>1, <3>5 DEF SizeByStage, Early, Size
  <2> QED
    BY <2>1, <2>2
<1>4. CASE NotAFile
  <2>1. pc' = "exit" /\ error' = NoError
    BY <1>4 DEF NotAFile, IInv, CauseByStage, Parsing
  <2> QED
    BY <2>1 DEF SizeByStage, Early
<1>5. CASE EntryDone
  <2>1. next' = 8 /\ pc' \in {"exit", "entry"}
    BY <1>5, OrderOfFields DEF EntryDone, IInv, TypeOK
  <2> QED
    BY <2>1 DEF SizeByStage, Early
<1>6. CASE Return
  <2>1. pc = "exit" /\ pc' = "returned" /\ UNCHANGED <<next, error, reply>>
    BY <1>6 DEF Return, parse
  <2> QED
    BY <2>1 DEF SizeByStage, Early, Rejected, Size
<1>7. CASE UNCHANGED vars
  BY <1>7 DEF vars, SizeByStage, Rejected, Size
<1> QED
  BY <1>1, <1>2, <1>3, <1>4, <1>5, <1>6, <1>7 DEF Next

(***************************************************************************)
(* Sizes that the caller's field can hold arrive as they were sent, for      *)
(* every width of an int.                                                    *)
(***************************************************************************)
THEOREM ExactSizes == Spec => []SizesAreExact
<1>1. Init => SizeByStage
  BY DEF Init, SizeByStage, Early
<1>2. IInv /\ SizeByStage => SizesAreExact
  <2> SUFFICES ASSUME IInv, SizeByStage, reply.rejected # "size", reply.size \in 1 .. Word - 1
               PROVE  /\ pc = "fields" /\ next > 5 => updates[i].size = reply.size
                      /\ pc = "returned" /\ next = 5 => error = NoError
    BY DEF SizesAreExact
  <2>1. reply \in Replies /\ Word \in Int
    BY DEF IInv, TypeOK, Word
  <2>2. Size = reply.size /\ Size # 0
    BY <2>1, SizeStored
  <2>3. next = 5 => ~Rejected
    BY <2>2, OrderOfFields DEF Rejected
  <2> QED
    BY <2>2, <2>3 DEF SizeByStage
<1> QED
  BY <1>1, <1>2, SizeStep, Inductive, PTL DEF Spec

(***************************************************************************)
(* Wherever in the reply a call fails, what it has assigned is known: the     *)
(* entries before the failing one, the fields of that one, and its pairs up  *)
(* to the one that was rejected.                                            *)
(***************************************************************************)
THEOREM AssignedBefore == Spec => []AssignedUpToFailure
<1>1. IInv => AssignedUpToFailure
  BY DEF IInv, LeftBehind, Assigned, RejectedPair, AssignedUpToFailure
<1> QED
  BY <1>1, Inductive, PTL

(***************************************************************************)
(* The error returned is the one that happened, and success means that the   *)
(* server has answered with 200.                                            *)
(***************************************************************************)
THEOREM NamedCause == Spec => []ErrorNamesItsCause
<1>1. IInv => ErrorNamesItsCause
  BY DEF IInv, CauseByStage, ErrorNamesItsCause
<1> QED
  BY <1>1, Inductive, PTL

(***************************************************************************)
(* No step of a call overwrites a string the parser has copied.              *)
(***************************************************************************)
THEOREM StringsKept == Spec => NoStringOverwritten
<1>1. IInv /\ [Next]_vars =>
        (pc # "returned" => \A k \in DOMAIN updates : \A f \in Fields :
           updates[k].fields[f] = "live" => updates'[k].fields[f] = "live")
  <2> SUFFICES ASSUME IInv, [Next]_vars, pc # "returned",
                      NEW k \in DOMAIN updates, NEW f \in Fields, updates[k].fields[f] = "live"
               PROVE  updates'[k].fields[f] = "live"
    OBVIOUS
  <2>1. pc \notin Early
    BY DEF IInv, ArrayByStage
  <2>2. k \in 1 .. Len(updates) /\ updates \in Seq(Entry) /\ updates[k] \in Entry
    BY DEF IInv, TypeOK
  <2>3. CASE StartEntry
    <3>1. k # i
      BY <2>2, <2>3 DEF StartEntry, IInv, EntriesAround, Parsing
    <3> QED
      BY <2>2, <2>3, <3>1 DEF StartEntry
  <2>4. CASE Metadata
    <3>1. updates' = updates \/ updates' = [updates EXCEPT ![i].pairs = reply.pairs]
      BY <2>4 DEF Metadata
    <3>2. [updates[k] EXCEPT !.pairs = reply.pairs].fields = updates[k].fields
      BY <2>2 DEF Entry
    <3> QED
      BY <2>2, <3>1, <3>2
  <2>5. CASE Pair
    <3>1. \/ updates' = [updates EXCEPT ![i].keys = @ + 1]
          \/ updates' = [updates EXCEPT ![i].keys = @ + 1, ![i].copied = @ + 1]
      BY <2>5 DEF Pair
    <3>2. /\ [updates[k] EXCEPT !.keys = @ + 1].fields = updates[k].fields
          /\ [updates[k] EXCEPT !.keys = @ + 1, !.copied = @ + 1].fields = updates[k].fields
      BY <2>2 DEF Entry
    <3> QED
      BY <2>2, <3>1, <3>2
  <2>6. CASE Field
    <3>1. CASE Rejected
      BY <2>6, <3>1 DEF Field
    <3>2. CASE ~Rejected
      <4> DEFINE kind == IF Order[next] = "package_type" THEN reply.package
                                                         ELSE updates[k].package
                 number == IF Order[next] = "size" THEN Size ELSE updates[k].size
                 e == [updates[k] EXCEPT !.fields[Order[next]] = "live", !.package = kind,
                                         !.size = number]
      <4>1. k = i => updates'[k] = e
        BY <2>2, <2>6, <3>2 DEF Field
      <4>2. k # i => updates'[k] = updates[k]
        BY <2>2, <2>6, <3>2 DEF Field
      <4>3. e.fields[f] = "live"
        BY <2>2 DEF Entry
      <4> QED
        BY <4>1, <4>2, <4>3
    <3> QED
      BY <3>1, <3>2
  <2>7. CASE NotAFile
    <3>1. k = i => f \notin FileOnly
      <4>1. pc = "fields" /\ next = 5
        BY <2>7 DEF NotAFile, AtFileFields
      <4>2. /\ updates[i].fields[Order[5]] = "null" /\ updates[i].fields[Order[6]] = "null"
            /\ updates[i].fields[Order[7]] = "null"
        BY <4>1, OrderOfFields DEF IInv, EntryAtHand
      <4> QED
        BY <4>2, OrderOfFields DEF FileOnly
    <3> QED
      BY <2>2, <2>7, <3>1 DEF NotAFile
  <2>8. CASE UNCHANGED updates
    BY <2>8
  <2> QED
    BY <2>1, <2>3, <2>4, <2>5, <2>6, <2>7, <2>8
    DEF Next, Enter, Refused, Send, Answered, RequestFailed, NotJson, Loaded, RootInvalid,
        RootValid, PairsDone, EntryDone, Return, outs, vars, Early
<1> QED
  BY <1>1, Inductive, PTL DEF Spec, NoStringOverwritten
-----------------------------------------------------------------------------
(* The query string is held from before the exchange until the call returns, *)
(* and the error a call ends with is one the contract allows at that point.  *)
OutcomeByStage ==
  /\ pc = "guards" => local["query_parms"] = "none"
  /\ pc \in {"requested", "answered", "root"} \cup Parsing => local["query_parms"] = "held"
  /\ pc \in {"root"} \cup Parsing => ~(status >= 400) /\ body # Exch!NoBody
  /\ pc = "exit" => error \in IF local["query_parms"] = "held" THEN Contract!Outcomes
                                                               ELSE Contract!Refusals

(* The last step before the end label, of a call that has been answered.     *)
LEMMA AllowedOutcome ==
  ASSUME local["query_parms"] = "held", pc' = "exit", UNCHANGED <<exchange, local>>,
         ~(status >= 400), error' = Invalid \/ (error' = NoError /\ body # Exch!NoBody)
  PROVE  OutcomeByStage'
BY DEF OutcomeByStage, Parsing, Invalid, Error, NoError, exchange, Contract!Outcomes,
       Contract!Error, Contract!NoError, Contract!Exch!NoBody, Exch!NoBody

LEMMA OutcomeStep ==
  ASSUME IInv, OutcomeByStage, [Next]_vars
  PROVE  OutcomeByStage'
<1>0. local \in [Locals -> {"none", "held", "freed"}] /\ "query_parms" \in Locals
  BY DEF IInv, TypeOK, Locals
<1>1. CASE Enter
  BY <1>1 DEF Enter, OutcomeByStage, Parsing, Locals
<1>2. CASE Refused
  BY <1>2 DEF Refused, Exit, Invalid, Error, OutcomeByStage, Parsing, Contract!Refusals,
              Contract!Error
<1>3. CASE Send \/ Answered
  BY <1>0, <1>3 DEF Send, Answered, OutcomeByStage, Parsing
<1>4. CASE RequestFailed
  <2>1. CASE NoReply
    BY <1>4, <2>1, AllowedOutcome
    DEF RequestFailed, NoReply, Exit, OutcomeByStage, IInv, TypeOK
  <2>2. CASE ~NoReply /\ HttpError
    BY <1>4, <2>2
    DEF RequestFailed, HttpError, Exit, exchange, OutcomeByStage, Parsing, Error,
        Contract!Outcomes, Contract!Error
  <2> QED
    BY <1>4, <2>1, <2>2 DEF RequestFailed
<1>5. CASE NotJson \/ RootInvalid
  BY <1>5, AllowedOutcome DEF NotJson, RootInvalid, HttpError, Exit, OutcomeByStage
<1>6. CASE Loaded
  BY <1>0, <1>6 DEF Loaded, HttpError, exchange, Exch!NoBody, OutcomeByStage, Parsing, Locals
<1>7. CASE RootValid \/ StartEntry \/ Metadata \/ Pair \/ PairsDone \/ Field \/ NotAFile \/ EntryDone
  <2>1. /\ pc \in {"root"} \cup Parsing /\ UNCHANGED <<exchange, local>>
        /\ pc' \in Parsing \/ (pc' = "exit" /\ error' \in {error, Invalid})
    BY <1>7 DEF RootValid, StartEntry, Metadata, Pair, PairsDone, Field, NotAFile, EntryDone,
                Exit, Parsing
  <2>2. /\ local["query_parms"] = "held" /\ ~(status >= 400) /\ body # Exch!NoBody
        /\ error = NoError
    BY <2>1 DEF OutcomeByStage, IInv, CauseByStage, Early
  <2>3. CASE pc' = "exit"
    BY <2>1, <2>2, <2>3, AllowedOutcome DEF Parsing
  <2>4. CASE pc' \in Parsing
    BY <2>1, <2>2, <2>4 DEF OutcomeByStage, Parsing, exchange
  <2> QED
    BY <2>1, <2>3, <2>4
<1>8. CASE Return
  BY <1>8 DEF Return, OutcomeByStage, Parsing
<1>9. CASE UNCHANGED vars
  BY <1>9 DEF vars, OutcomeByStage, Contract!Outcomes, Contract!Exch!NoBody
<1> QED
  BY <1>1, <1>2, <1>3, <1>4, <1>5, <1>6, <1>7, <1>8, <1>9 DEF Next

(***************************************************************************)
(* The call implements the contract of an entry point: every step maps to    *)
(* one of the contract's or to none, for replies of any length.             *)
(***************************************************************************)
THEOREM Implements == Spec => ImplementsEntryPoint
<1>1. Init => OutcomeByStage /\ Contract!Init
  BY DEF Init, OutcomeByStage, Parsing, Contract!Init, Contract!Exch!Init, Exch!Init, Stage,
         Result, NoError, Contract!NoError, Exch!Preset, Exch!OK, Exch!NoBody, Exch!Answers,
         Contract!Exch!Preset, Contract!Exch!OK, Contract!Exch!NoBody, Contract!Exch!Answers
<1>2. IInv /\ OutcomeByStage /\ [Next]_vars => [Contract!Next]_(Contract!evars)
  <2> SUFFICES ASSUME IInv, OutcomeByStage, [Next]_vars
               PROVE  Contract!Next \/ UNCHANGED Contract!evars
    OBVIOUS
  <2>0. "query_parms" \in Locals /\ local \in [Locals -> {"none", "held", "freed"}]
    BY DEF IInv, TypeOK, Locals
  <2>1. CASE Enter
    BY <2>1 DEF Enter, exchange, Contract!Enter, Contract!Next, Contract!exchange, Stage, Result,
                NoError, Contract!NoError
  <2>2. CASE Refused
    BY <2>2 DEF Refused, Exit, exchange, Contract!evars, Stage, Result, OutcomeByStage
  <2>3. CASE Send
    <3>1. Contract!Exch!Call /\ Stage = "entered" /\ Stage' = "asking" /\ Result' = Result
      BY <2>3 DEF Send, Stage, Result, Exch!Call, Contract!Exch!Call, Exch!Preset, Exch!OK,
                  Exch!NoBody, Exch!Answers, Contract!Exch!Preset, Contract!Exch!OK,
                  Contract!Exch!NoBody, Contract!Exch!Answers
    <3> QED
      BY <3>1 DEF Contract!Ask, Contract!Next
  <2>4. CASE Answered
    <3>1. /\ Contract!Exch!Deliver \/ Contract!Exch!Refuse \/ Contract!Exch!GiveUp
          /\ Stage = "asking" /\ Stage' = "answered" /\ Result' = Result
      BY <2>4 DEF Answered, Stage, Result, Exch!Deliver, Exch!Refuse, Exch!GiveUp, Exch!OK,
                  Exch!NoBody, Contract!Exch!Deliver, Contract!Exch!Refuse, Contract!Exch!GiveUp,
                  Contract!Exch!OK, Contract!Exch!NoBody
    <3> QED
      BY <3>1 DEF Contract!Answered, Contract!Next
  <2>5. CASE Return
    <3>1. CASE local["query_parms"] = "held"
      BY <2>5, <3>1 DEF Return, exchange, Contract!ReturnAnswered, Contract!Next,
                        Contract!exchange, Stage, Result, OutcomeByStage
    <3>2. CASE local["query_parms"] # "held"
      BY <2>5, <3>2 DEF Return, exchange, Contract!ReturnUnasked, Contract!Next,
                        Contract!exchange, Stage, Result, OutcomeByStage
    <3> QED
      BY <3>1, <3>2
  <2>6. CASE RequestFailed \/ NotJson \/ Loaded \/ RootInvalid \/ RootValid \/ StartEntry \/ Metadata
             \/ Pair \/ PairsDone \/ Field \/ NotAFile \/ EntryDone
    <3> DEFINE late == {"answered", "root"} \cup Parsing
    <3>1. /\ pc \in late /\ pc' \in late \cup {"exit"} /\ UNCHANGED exchange
          /\ local'["query_parms"] = local["query_parms"]
      BY <2>0, <2>6
      DEF RequestFailed, NotJson, Loaded, RootInvalid, RootValid, StartEntry, Metadata, Pair,
          PairsDone, Field, NotAFile, EntryDone, Exit, Parsing, exchange
    <3>2. local["query_parms"] = "held"
      BY <3>1 DEF OutcomeByStage
    <3> QED
      BY <3>1, <3>2 DEF Contract!evars, exchange, Stage, Result, Parsing
  <2>7. CASE UNCHANGED vars
    BY <2>7 DEF vars, Contract!evars, Stage, Result
  <2> QED
    BY <2>1, <2>2, <2>3, <2>4, <2>5, <2>6, <2>7 DEF Next
<1> QED
  BY <1>1, <1>2, OutcomeStep, Inductive, PTL DEF Spec, ImplementsEntryPoint, Contract!Spec

-----------------------------------------------------------------------------
(* Steps that one update takes at most: two to start it, one for each pair   *)
(* and one after them, one for each field and one to go on.                 *)
PerUpdate == MaxPairs + 11
AllUpdates == MaxUpdates * PerUpdate

UpdatesAfter == (updateCount - i) * PerUpdate

(* Steps that a call has left, at most.                                     *)
StepsLeft ==
  CASE pc = "guards" -> AllUpdates + 6
    [] pc = "requested" -> AllUpdates + 5
    [] pc = "answered" -> AllUpdates + 4
    [] pc = "root" -> AllUpdates + 3
    [] pc = "entry" -> UpdatesAfter + PerUpdate + 1
    [] pc = "metadata" -> UpdatesAfter + PerUpdate
    [] pc = "pairs" -> UpdatesAfter + (updates[i].pairs - updates[i].copied) + 10
    [] pc = "fields" -> UpdatesAfter + (7 - next) + 3
    [] pc = "exit" -> 1
    [] OTHER -> 0

(***************************************************************************)
(* No path through the parser repeats itself: every step of a call, in the   *)
(* loops over updates, pairs and fields too, leaves fewer steps to take.    *)
(***************************************************************************)
CallIsBounded ==
  [][Running => StepsLeft' < StepsLeft]_vars

LEMMA Multiples ==
  ASSUME NEW w \in Nat
  PROVE  /\ \A n \in Int : (n - 1) * w + w = n * w
         /\ \A n, m \in Nat : n <= m => n * w \in Nat /\ n * w <= m * w
<1>1. \A n \in Int : (n - 1) * w + w = n * w
  OBVIOUS
<1>2. ASSUME NEW n \in Nat, NEW m \in Nat, n <= m
      PROVE  n * w \in Nat /\ n * w <= m * w
  <2>1. (m - n) * w = m * w - n * w
    OBVIOUS
  <2>2. n * w \in Nat /\ m * w \in Nat /\ (m - n) * w \in Nat
    BY <1>2
  <2> QED
    BY <2>1, <2>2
<1> QED
  BY <1>1, <1>2

(* What the updates after the one at hand can take, of what all can.         *)
LEMMA RoomForUpdate ==
  ASSUME IInv, pc \in Parsing
  PROVE  UpdatesAfter \in Nat /\ UpdatesAfter + PerUpdate <= AllUpdates
<1>1. /\ updateCount \in Nat /\ i \in Nat /\ 1 <= i /\ i <= updateCount
      /\ updateCount <= MaxUpdates
  BY DEF IInv, TypeOK, ArrayByStage
<1>2. PerUpdate \in Nat
  BY DEF PerUpdate
<1> DEFINE n == updateCount - i
<1>3. n \in Nat /\ n + 1 \in Nat /\ n + 1 <= MaxUpdates /\ (n + 1) - 1 = n
  BY <1>1
<1> HIDE DEF n
<1>4. /\ ((n + 1) - 1) * PerUpdate + PerUpdate = (n + 1) * PerUpdate
      /\ (n + 1) * PerUpdate <= MaxUpdates * PerUpdate
      /\ n * PerUpdate \in Nat
  BY <1>2, <1>3, Multiples
<1>5. UpdatesAfter = n * PerUpdate
  BY DEF n, UpdatesAfter
<1> QED
  BY <1>3, <1>4, <1>5 DEF AllUpdates

(* The entry at hand, as far as its steps go.                               *)
LEMMA EntryInRange ==
  ASSUME IInv, pc \in Parsing
  PROVE  /\ updates[i].pairs \in 0 .. MaxPairs /\ updates[i].copied \in 0 .. MaxPairs
         /\ pc = "pairs" => updates[i].copied <= updates[i].pairs
         /\ next \in 1 .. 8
<1>1. i \in 1 .. Len(updates) /\ updates \in Seq(Entry) /\ next \in 1 .. Len(Order) + 1
  BY DEF IInv, TypeOK, ArrayByStage
<1>2. updates[i] \in Entry
  BY <1>1
<1> QED
  <2>1. updates[i].pairs \in 0 .. MaxPairs /\ updates[i].copied \in 0 .. MaxPairs
    BY <1>2 DEF Entry
  <2>2. next \in 1 .. 8
    BY <1>1, OrderOfFields
  <2> QED
    BY <2>1, <2>2 DEF IInv, EntryAtHand

LEMMA Sizing ==
  /\ AllUpdates \in Nat /\ PerUpdate \in Nat /\ PerUpdate = MaxPairs + 11
  /\ AllUpdates' = AllUpdates /\ PerUpdate' = PerUpdate
  BY DEF AllUpdates, PerUpdate

(* The cases of StepsLeft, before and after a step.                         *)
LEMMA StepsByStage ==
  /\ pc = "guards" => StepsLeft = AllUpdates + 6
  /\ pc = "requested" => StepsLeft = AllUpdates + 5
  /\ pc = "answered" => StepsLeft = AllUpdates + 4
  /\ pc = "root" => StepsLeft = AllUpdates + 3
  /\ pc = "entry" => StepsLeft = UpdatesAfter + PerUpdate + 1
  /\ pc = "metadata" => StepsLeft = UpdatesAfter + PerUpdate
  /\ pc = "pairs" => StepsLeft = UpdatesAfter + (updates[i].pairs - updates[i].copied) + 10
  /\ pc = "fields" => StepsLeft = UpdatesAfter + (7 - next) + 3
  /\ pc = "exit" => StepsLeft = 1
  /\ pc \in {"idle", "returned"} => StepsLeft = 0
  BY DEF StepsLeft

LEMMA StepsByStageAfter ==
  /\ pc' = "guards" => StepsLeft' = AllUpdates + 6
  /\ pc' = "requested" => StepsLeft' = AllUpdates + 5
  /\ pc' = "answered" => StepsLeft' = AllUpdates + 4
  /\ pc' = "root" => StepsLeft' = AllUpdates + 3
  /\ pc' = "entry" => StepsLeft' = UpdatesAfter' + PerUpdate + 1
  /\ pc' = "metadata" => StepsLeft' = UpdatesAfter' + PerUpdate
  /\ pc' = "pairs" => StepsLeft' = UpdatesAfter' + (updates'[i'].pairs - updates'[i'].copied) + 10
  /\ pc' = "fields" => StepsLeft' = UpdatesAfter' + (7 - next') + 3
  /\ pc' = "exit" => StepsLeft' = 1
  /\ pc' \in {"idle", "returned"} => StepsLeft' = 0
  BY Sizing DEF StepsLeft

LEMMA StepsInRange == IInv => StepsLeft \in 0 .. AllUpdates + 6
<1> SUFFICES ASSUME IInv PROVE StepsLeft \in 0 .. AllUpdates + 6
  OBVIOUS
<1>1. /\ AllUpdates \in Nat /\ PerUpdate \in Nat /\ PerUpdate = MaxPairs + 11
      /\ AllUpdates' = AllUpdates /\ PerUpdate' = PerUpdate
  BY Sizing
<1>2. CASE pc \in Parsing
  <2>1. UpdatesAfter \in Nat /\ UpdatesAfter + PerUpdate <= AllUpdates
    BY <1>2, RoomForUpdate
  <2> QED
    BY <1>1, <1>2, <2>1, EntryInRange DEF StepsLeft, Parsing
<1>3. CASE pc \notin Parsing
  BY <1>1, <1>3 DEF StepsLeft, Parsing
<1> QED
  BY <1>2, <1>3

LEMMA FewerSteps ==
  ASSUME IInv, Running, Next
  PROVE  StepsLeft' < StepsLeft
<1>1. /\ AllUpdates \in Nat /\ PerUpdate \in Nat /\ PerUpdate = MaxPairs + 11
      /\ AllUpdates' = AllUpdates /\ PerUpdate' = PerUpdate
  BY Sizing
<1>2. ~Enter
  BY DEF Running, Enter
<1>3. pc \in Parsing =>
        /\ UpdatesAfter \in Nat /\ UpdatesAfter + PerUpdate <= AllUpdates
        /\ updates[i].pairs \in 0 .. MaxPairs /\ updates[i].copied \in 0 .. MaxPairs
        /\ pc = "pairs" => updates[i].copied <= updates[i].pairs
        /\ next \in 1 .. 8
  BY RoomForUpdate, EntryInRange
<1>4. CASE pc' = "exit"
  <2>1. StepsLeft' = 1
    BY <1>4, StepsByStageAfter
  <2>2. pc \in {"guards", "requested", "answered", "root"} \cup Parsing
    BY <1>4 DEF Next, Enter, Refused, Send, Answered, RequestFailed, NotJson, Loaded, RootInvalid,
       RootValid, StartEntry, Metadata, Pair, PairsDone, Field, NotAFile, EntryDone, Return,
       Parsing
  <2>3. StepsLeft \in Int /\ StepsLeft > 1
    <3>1. CASE pc \in Parsing
      BY <1>1, <1>3, <3>1, StepsByStage DEF Parsing
    <3>2. CASE pc \notin Parsing
      BY <1>1, <2>2, <3>2, StepsByStage
    <3> QED
      BY <3>1, <3>2
  <2> QED
    BY <2>1, <2>3
<1>5. CASE Send \/ Answered \/ Loaded
  BY <1>1, <1>5, StepsByStage, StepsByStageAfter DEF Send, Answered, Loaded
<1>6. CASE RootValid /\ pc' # "exit"
  <2>1. /\ pc = "root" /\ pc' = "entry" /\ i' = 1
        /\ updateCount' \in 0 .. MaxUpdates
    BY <1>6 DEF RootValid
  <2> DEFINE n == updateCount'
  <2>2. n \in Nat /\ n \in Int /\ n <= MaxUpdates
    BY <2>1
  <2> HIDE DEF n
  <2>3. (n - 1) * PerUpdate + PerUpdate = n * PerUpdate /\ n * PerUpdate <= AllUpdates
    BY <1>1, <2>2, Multiples DEF AllUpdates
  <2>4. UpdatesAfter' = (n - 1) * PerUpdate
    BY <1>1, <2>1 DEF UpdatesAfter, n
  <2>5. UpdatesAfter' \in Int /\ UpdatesAfter' + PerUpdate <= AllUpdates
    BY <1>1, <2>2, <2>3, <2>4
  <2> QED
    BY <1>1, <2>1, <2>5, StepsByStage, StepsByStageAfter
<1>7. CASE StartEntry \/ (Metadata /\ pc' # "exit") \/ PairsDone
  <2>1. UpdatesAfter' = UpdatesAfter /\ pc \in Parsing
    BY <1>7 DEF StartEntry, Metadata, PairsDone, UpdatesAfter, PerUpdate, outs, Parsing, parse
  <2>2. CASE StartEntry
    BY <1>1, <1>3, <2>1, <2>2, StepsByStage, StepsByStageAfter DEF StartEntry
  <2>3. CASE Metadata /\ pc' # "exit"
    <3>1. /\ pc = "metadata" /\ pc' = "pairs" /\ i' = i
          /\ updates' = [updates EXCEPT ![i].pairs = reply.pairs]
          /\ reply.pairs \in 0 .. MaxPairs
      BY <2>3 DEF Metadata, Exit, parse, IInv, TypeOK, Replies
    <3>2. i \in 1 .. Len(updates) /\ updates \in Seq(Entry)
      BY <2>1 DEF IInv, TypeOK, ArrayByStage
    <3>3. updates'[i'].pairs = reply.pairs /\ updates'[i'].copied = 0
      BY <3>1, <3>2 DEF IInv, EntryAtHand, Entry
    <3> QED
      BY <1>1, <1>3, <2>1, <3>1, <3>3, StepsByStage, StepsByStageAfter
  <2>4. CASE PairsDone
    BY <1>1, <1>3, <2>1, <2>4, StepsByStage, StepsByStageAfter DEF PairsDone
  <2> QED
    BY <1>7, <2>2, <2>3, <2>4
<1>8. CASE Pair /\ pc' # "exit"
  <2>1. /\ pc = "pairs" /\ pc' = "pairs" /\ i' = i /\ updateCount' = updateCount
        /\ updates' = [updates EXCEPT ![i].keys = @ + 1, ![i].copied = @ + 1]
    BY <1>8 DEF Pair, Exit, parse
  <2>2. updates'[i'].copied = updates[i].copied + 1 /\ updates'[i'].pairs = updates[i].pairs
    <3>1. i \in 1 .. Len(updates) /\ updates \in Seq(Entry)
      BY <2>1 DEF IInv, TypeOK, ArrayByStage, Parsing
    <3> QED
      BY <2>1, <3>1 DEF Entry
  <2>3. UpdatesAfter' = UpdatesAfter /\ pc \in Parsing
    BY <2>1 DEF UpdatesAfter, PerUpdate, Parsing
  <2> QED
    BY <1>1, <1>3, <2>1, <2>2, <2>3, StepsByStage, StepsByStageAfter
<1>9. CASE Field /\ pc' # "exit"
  <2>1. /\ pc = "fields" /\ pc' = "fields" /\ next' = next + 1
        /\ i' = i /\ updateCount' = updateCount
    BY <1>9 DEF Field, Exit
  <2>2. UpdatesAfter' = UpdatesAfter /\ pc \in Parsing
    BY <2>1 DEF UpdatesAfter, PerUpdate, Parsing
  <2> QED
    BY <1>1, <1>3, <2>1, <2>2, StepsByStage, StepsByStageAfter
<1>10. CASE EntryDone /\ pc' # "exit"
  <2>1. /\ pc = "fields" /\ pc' = "entry" /\ i' = i + 1 /\ updateCount' = updateCount
        /\ updateCount \in Int /\ i \in Int
    BY <1>10 DEF EntryDone, outs, IInv, TypeOK
  <2> DEFINE n == updateCount - i
  <2>2. n \in Int /\ updateCount' - i' = n - 1
    BY <2>1
  <2> HIDE DEF n
  <2>3. (n - 1) * PerUpdate + PerUpdate = n * PerUpdate
    BY <1>1, <2>2, Multiples
  <2>4. UpdatesAfter' + PerUpdate = UpdatesAfter /\ UpdatesAfter' \in Int
    <3>1. UpdatesAfter = n * PerUpdate /\ UpdatesAfter' = (n - 1) * PerUpdate
      BY <2>2 DEF UpdatesAfter, PerUpdate, n
    <3> QED
      BY <1>1, <2>2, <2>3, <3>1
  <2> QED
    BY <1>1, <1>3, <2>1, <2>4, StepsByStage, StepsByStageAfter DEF Parsing
<1>11. CASE Return
  BY <1>11, StepsByStage, StepsByStageAfter DEF Return
<1>12. Refused \/ RequestFailed \/ NotJson \/ RootInvalid \/ NotAFile => pc' = "exit"
  BY DEF Refused, RequestFailed, NotJson, RootInvalid, NotAFile, Exit
<1> QED
  BY <1>2, <1>4, <1>5, <1>6, <1>7, <1>8, <1>9, <1>10, <1>11, <1>12 DEF Next

(***************************************************************************)
(* A call makes at most 6 steps and MaxPairs + 11 more for each update, of   *)
(* which every one brings it nearer to its return.                          *)
(***************************************************************************)
THEOREM Bounded ==
  Spec => []( StepsLeft \in 0 .. AllUpdates + 6 ) /\ CallIsBounded
<1>1. IInv /\ [Next]_vars => [Running => StepsLeft' < StepsLeft]_vars
  BY FewerSteps
<1> QED
  BY <1>1, Inductive, StepsInRange, PTL DEF Spec, CallIsBounded
=============================================================================
