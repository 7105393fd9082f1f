--------------------------- MODULE IpcClientProofs ---------------------------
(***************************************************************************)
(* Proofs about IpcClient, for every set of request bodies and capability  *)
(* sets, and for sessions of any length: the transport may delay, repeat,  *)
(* damage or lose what it carries.                                         *)
(***************************************************************************)
EXTENDS IpcClient, TLAPS

-----------------------------------------------------------------------------
(* The inductive invariant.                                                *)
Request == [id : InitialId..MaxId, body : Bodies]

Sent == {wire[i].id : i \in DOMAIN wire}

(* Ids are handed out in increasing order, up to the last one. *)
IdsIncrease ==
    /\ wire \in Seq(Request)
    /\ \A i, j \in DOMAIN wire : i < j => wire[i].id < wire[j].id
    /\ \A i \in DOMAIN wire : nextId = None \/ wire[i].id < nextId

(* A call waits for the last request sent, and a failed session for none. *)
WaitsForLast ==
    /\ inflight # None => Len(wire) > 0 /\ inflight = wire[Len(wire)]
    /\ failed => inflight = None

(* Only the last request may still be unhandled, while its call waits or   *)
(* after it failed.                                                        *)
RestHandled ==
    \A i \in DOMAIN wire :
        Handled(wire[i].id) \/ (i = Len(wire) /\ (inflight # None \/ failed))

(* The daemon answers a request with its own id, once, and commits a push  *)
(* exactly when it does not refuse it.                                     *)
AnswersSound ==
    /\ \A r \in answers :
        /\ r.id = r.for /\ r.for \in Sent
        /\ r.kind = "capabilities" => r.caps \in Grants
        /\ r.kind = "error" => r.for \notin committed
        /\ r.kind # "error" => \A i \in DOMAIN wire :
                wire[i].id = r.for /\ Mutating(wire[i].body) => r.for \in committed
    /\ \A id \in committed : Handled(id)

(* What each outcome says of the request. *)
ResultSound ==
    /\ result.outcome = "none" => result.request = None
    /\ result.outcome = "refused" => result.request.id = None
    /\ result.outcome = "remote" =>
            Handled(result.request.id) /\ result.request.id \notin committed
    /\ result.outcome = "failed" => ~Mutating(result.request.body)

SessionInv ==
    /\ TypeOK
    /\ IdsIncrease
    /\ WaitsForLast
    /\ RestHandled
    /\ AnswersSound
    /\ ResultSound
    /\ AnswerIsOwn

-----------------------------------------------------------------------------
(* What the daemon may answer to a request it does not refuse. *)
LEMMA AnswersAre ==
    ASSUME NEW q, NEW r \in Answers(q)
    PROVE /\ r.id = q.id /\ r.for = q.id
          /\ r.kind = AnswerKind(q.body.kind)
          /\ q.body.kind = "capabilities" => r.caps \in Grants
<1> DEFINE base == [id |-> q.id, for |-> q.id, kind |-> AnswerKind(q.body.kind),
                 repository |-> q.body.repository, subject |-> q.body.subject,
                 amount |-> [a \in Amounts |-> 0], caps |-> None, intact |-> TRUE]
<1>1. CASE q.body.kind = "capabilities"
  <2>1. PICK g \in Grants : r = [base EXCEPT !.caps = g]
    BY <1>1 DEF Answers
  <2> QED BY <2>1
<1>2. CASE q.body.kind # "capabilities"
  <2>1. r \in {base, [base EXCEPT !.intact = FALSE],
               [base EXCEPT !.repository = None], [base EXCEPT !.subject = None],
               [base EXCEPT !.amount["pack"] = 2]}
    BY <1>2 DEF Answers
  <2> QED BY <1>2, <2>1
<1> QED BY <1>1, <1>2

(* An answer to a request of another kind is not a capability set, and the *)
(* answer to a push is not an error.                                       *)
LEMMA AnswerKinds ==
    /\ \A k : AnswerKind(k) = "capabilities" => k = "capabilities"
    /\ AnswerKind("push") = "push"
    /\ AnswerKind("capabilities") = "capabilities"
BY DEF AnswerKind

(* The next id is a new one. *)
LEMMA SuccessorType ==
    ASSUME NEW id \in InitialId..MaxId
    PROVE /\ Successor(id) \in InitialId..MaxId \cup {None}
          /\ Successor(id) # None => id < Successor(id)
BY IdAssumption, NoneAssumption DEF Successor

LEMMA SessionInit == Init => SessionInv
<1> SUFFICES ASSUME Init PROVE SessionInv
  OBVIOUS
<1>1. TypeOK
  <2>1. InitialId \in InitialId..MaxId
    BY IdAssumption
  <2>2. NoResult.outcome = "none"
    BY DEF NoResult
  <2>3. DOMAIN wire = {}
    BY DEF Init
  <2> QED BY <2>1, <2>2, <2>3 DEF Init, TypeOK
<1>2. IdsIncrease
  BY DEF Init, IdsIncrease, Request
<1> QED BY <1>1, <1>2
        DEF Init, SessionInv, WaitsForLast, RestHandled, AnswersSound, ResultSound, AnswerIsOwn, NoResult

(* A call refused before anything is sent may cost an id, nothing else. *)
LEMMA RefuseStep ==
    ASSUME SessionInv, NEW b \in Bodies, RefuseLocally(b)
    PROVE SessionInv'
<1> USE DEF SessionInv
<1>1. /\ UNCHANGED <<caps, failed, inflight, wire, answers, committed>>
      /\ result' = [outcome |-> "refused", request |-> [id |-> None, body |-> b], response |-> None]
      /\ nextId' = nextId \/ (nextId # None /\ nextId' = Successor(nextId))
  BY DEF RefuseLocally, Result
<1>2. /\ nextId' \in InitialId..MaxId \cup {None}
      /\ \A n \in Nat : (nextId = None \/ n < nextId) => (nextId' = None \/ n < nextId')
  BY <1>1, SuccessorType, IdAssumption, NoneAssumption DEF TypeOK
<1>3. TypeOK'
  BY <1>1, <1>2 DEF TypeOK
<1>4. IdsIncrease'
  <2>1. \A i \in DOMAIN wire : wire[i].id \in Nat
    BY IdAssumption DEF TypeOK
  <2> QED BY <1>1, <1>2, <2>1 DEF IdsIncrease
<1>5. ResultSound' /\ AnswerIsOwn'
  BY <1>1 DEF ResultSound, AnswerIsOwn
<1>6. WaitsForLast' /\ RestHandled' /\ AnswersSound'
  BY <1>1 DEF WaitsForLast, RestHandled, AnswersSound, Handled, Sent
<1> QED BY <1>3, <1>4, <1>5, <1>6

(* A request is written to the wire under a new id, by a session in which  *)
(* every earlier request was handled.                                      *)
LEMMA SendStep ==
    ASSUME SessionInv, NEW b \in Bodies, Send(b)
    PROVE SessionInv'
<1> USE DEF SessionInv
<1> DEFINE q == [id |-> nextId, body |-> b]
           n == Len(wire)
<1>1. /\ inflight = None /\ ~failed /\ nextId # None
      /\ inflight' = q /\ wire' = Append(wire, q)
      /\ nextId' = Successor(nextId)
      /\ result' = NoResult
      /\ UNCHANGED <<caps, failed, answers, committed>>
  BY DEF Send, Requested
<1>2. nextId \in InitialId..MaxId /\ nextId \in Nat /\ q \in Request
  BY <1>1, IdAssumption DEF TypeOK, Request
<1>3. /\ wire \in Seq(Request) /\ n \in Nat
      /\ wire' \in Seq(Request) /\ Len(wire') = n + 1
      /\ DOMAIN wire = 1..n /\ DOMAIN wire' = 1..(n + 1)
      /\ \A i \in 1..n : wire'[i] = wire[i]
      /\ wire'[n + 1] = q
  <2> HIDE DEF q
  <2> QED BY <1>1, <1>2 DEF IdsIncrease
<1>4. nextId' \in InitialId..MaxId \cup {None} /\ (nextId' # None => nextId < nextId')
  BY <1>1, <1>2, SuccessorType
<1>5. \A i \in 1..n : wire[i].id \in Nat /\ wire[i].id < nextId
  BY <1>1, <1>3, IdAssumption DEF IdsIncrease, TypeOK
<1>6. \A i \in 1..(n + 1) : i \in 1..n \/ i = n + 1
  BY <1>3
<1>7. IdsIncrease'
  <2>1. \A i \in 1..(n + 1) : nextId' = None \/ wire'[i].id < nextId'
    <3>1. \A i \in 1..n : wire'[i].id \in Nat /\ wire'[i].id < nextId
      BY <1>3, <1>5
    <3>2. wire'[n + 1].id = nextId
      BY <1>3
    <3>3. nextId' # None => nextId' \in Nat
      BY <1>4, IdAssumption
    <3> QED BY <1>2, <1>4, <1>6, <3>1, <3>2, <3>3
  <2>2. \A i, j \in 1..(n + 1) : i < j => wire'[i].id < wire'[j].id
    <3>1. \A i, j \in 1..n : i < j => wire'[i].id < wire'[j].id
      BY <1>3 DEF IdsIncrease
    <3>2. \A i \in 1..n : wire'[i].id < wire'[n + 1].id
      BY <1>3, <1>5
    <3> QED BY <1>3, <1>6, <3>1, <3>2
  <2> QED BY <1>3, <2>1, <2>2 DEF IdsIncrease
<1>8. q # None
  BY <1>2, NoneAssumption DEF Request
<1>9. WaitsForLast'
  BY <1>1, <1>3 DEF WaitsForLast
<1>10. \A i \in DOMAIN wire : Handled(wire[i].id)
  BY <1>1 DEF RestHandled
<1>11. RestHandled'
  BY <1>1, <1>3, <1>6, <1>8, <1>10 DEF RestHandled, Handled
<1>12. Sent' = Sent \cup {nextId} /\ Sent \subseteq Nat /\ nextId \notin Sent
  <2>1. Sent = {wire[i].id : i \in 1..n} /\ Sent' = {wire'[i].id : i \in 1..(n + 1)}
    BY <1>3 DEF Sent
  <2>2. \A i \in 1..n : wire'[i].id = wire[i].id
    BY <1>3
  <2>3. wire'[n + 1].id = nextId
    BY <1>3
  <2> QED BY <1>2, <1>5, <1>6, <2>1, <2>2, <2>3
<1>13. AnswersSound'
  <2>1. \A r \in answers : r.kind # "error" => \A i \in DOMAIN wire' :
            wire'[i].id = r.for /\ Mutating(wire'[i].body) => r.for \in committed
    <3>1. \A r \in answers : r.for # wire'[n + 1].id
      BY <1>3, <1>12 DEF AnswersSound
    <3> QED BY <1>3, <1>6, <3>1 DEF AnswersSound
  <2> QED BY <1>1, <1>12, <2>1 DEF AnswersSound, Handled
<1>14. TypeOK'
  <2>1. \A i \in DOMAIN wire' : wire'[i].id \in InitialId..MaxId /\ wire'[i].body \in Bodies
    <3>1. \A i \in 1..n : wire'[i].id \in InitialId..MaxId /\ wire'[i].body \in Bodies
      BY <1>3 DEF TypeOK
    <3>2. wire'[n + 1].id \in InitialId..MaxId /\ wire'[n + 1].body \in Bodies
      BY <1>2, <1>3
    <3> QED BY <1>3, <1>6, <3>1, <3>2
  <2>2. committed' \subseteq {wire'[i].id : i \in DOMAIN wire'}
    <3>1. committed \subseteq Sent
      BY DEF TypeOK, Sent
    <3>2. Sent' = {wire'[i].id : i \in DOMAIN wire'}
      BY DEF Sent
    <3> QED BY <1>1, <1>12, <3>1, <3>2
  <2>3. inflight' # None => inflight'.id \in InitialId..MaxId /\ inflight'.body \in Bodies
    BY <1>1, <1>2
  <2>4. result'.outcome = "none"
    BY <1>1 DEF NoResult
  <2> QED BY <1>1, <1>4, <2>1, <2>2, <2>3, <2>4 DEF TypeOK
<1>15. ResultSound' /\ AnswerIsOwn'
  BY <1>1 DEF ResultSound, AnswerIsOwn, NoResult
<1> QED BY <1>7, <1>9, <1>11, <1>13, <1>14, <1>15

(* An answer ends the call: it is the daemon's own, and says what was done *)
(* with the request.                                                       *)
LEMMA AnswerStep ==
    ASSUME SessionInv, NEW r \in answers \cup {Broken}, Accept(r) \/ Refused(r) \/ FailExchange(r)
    PROVE SessionInv'
<1> USE DEF SessionInv
<1> DEFINE q == inflight
           n == Len(wire)
<1>1. /\ q # None /\ inflight' = None
      /\ UNCHANGED <<nextId, wire, answers, committed>>
      /\ failed' \in BOOLEAN
      /\ ~failed
  BY DEF Accept, Refused, FailExchange, TypeOK, WaitsForLast
<1>2. /\ n \in DOMAIN wire /\ q = wire[n]
      /\ q.id \in InitialId..MaxId /\ q.body \in Bodies
  <2>1. n \in 1..n /\ DOMAIN wire = 1..n
    BY <1>1 DEF WaitsForLast, IdsIncrease
  <2> QED BY <1>1, <2>1 DEF WaitsForLast, TypeOK
<1>3. q.id \in Sent
  BY <1>2 DEF Sent
<1>4. WaitsForLast' /\ IdsIncrease' /\ AnswersSound'
  BY <1>1 DEF WaitsForLast, IdsIncrease, AnswersSound, Handled, Sent
<1>5. ASSUME r.intact, r.id = q.id
      PROVE r \in answers /\ r.for = q.id /\ Handled(q.id)
  <2>1. r # Broken
    BY <1>5 DEF Broken
  <2> QED BY <1>5, <2>1 DEF AnswersSound, Handled
<1>6. ASSUME Handled(q.id) \/ failed' PROVE RestHandled'
  BY <1>1, <1>2, <1>6 DEF RestHandled, Handled
<1>7. CASE Accept(r)
  <2>1. r.intact /\ r.id = q.id /\ r.kind # "error" /\ r.kind = AnswerKind(q.body.kind)
    BY <1>7 DEF Accept, OwnAnswer, SameContext
  <2>2. r \in answers /\ r.for = q.id /\ Handled(q.id)
    BY <1>5, <2>1
  <2>3. Mutating(q.body) => q.id \in committed
    BY <1>2, <2>1, <2>2 DEF AnswersSound
  <2>4. CASE r.kind = "capabilities"
    <3>1. r.caps \in Grants /\ q.body.kind = "capabilities"
      BY <2>1, <2>2, <2>4, AnswerKinds DEF AnswersSound
    <3>2. /\ caps' \in Grants \cup {None}
          /\ \/ result' = Result("ok", q, r)
             \/ result' = Result("failed", q, r)
      BY <1>7, <2>4, <3>1 DEF Accept
    <3>3. TypeOK'
      BY <1>1, <3>2 DEF TypeOK, Result
    <3>4. ResultSound' /\ AnswerIsOwn'
      BY <1>1, <2>2, <2>3, <3>1, <3>2 DEF ResultSound, AnswerIsOwn, Result, Mutating
    <3> QED BY <1>4, <1>6, <2>2, <3>3, <3>4
  <2>5. CASE r.kind # "capabilities"
    <3>1. caps' = caps /\ failed' = failed /\ result' = Result("ok", q, r)
      BY <1>7, <2>5 DEF Accept
    <3>2. TypeOK'
      BY <1>1, <3>1 DEF TypeOK, Result
    <3>3. ResultSound' /\ AnswerIsOwn'
      BY <1>1, <2>2, <2>3, <3>1 DEF ResultSound, AnswerIsOwn, Result
    <3> QED BY <1>4, <1>6, <2>2, <3>2, <3>3
  <2> QED BY <2>4, <2>5
<1>8. CASE Refused(r)
  <2>1. r.intact /\ r.id = q.id /\ r.kind = "error" /\ result' = Result("remote", q, r)
        /\ caps' = caps /\ failed' = failed
    BY <1>8 DEF Refused, RemoteRefusal
  <2>2. r \in answers /\ r.for = q.id /\ Handled(q.id)
    BY <1>5, <2>1
  <2>3. q.id \notin committed
    BY <2>1, <2>2 DEF AnswersSound
  <2>4. TypeOK'
    BY <1>1, <2>1 DEF TypeOK, Result
  <2>5. ResultSound' /\ AnswerIsOwn'
    BY <1>1, <2>1, <2>2, <2>3 DEF ResultSound, AnswerIsOwn, Result, Handled
  <2> QED BY <1>4, <1>6, <2>2, <2>4, <2>5
<1>9. CASE FailExchange(r)
  <2>1. /\ failed' = TRUE /\ caps' = caps
        /\ result' = Result(IF Mutating(q.body) THEN "indeterminate" ELSE "failed", q, None)
    BY <1>9 DEF FailExchange
  <2>2. TypeOK'
    BY <1>1, <2>1 DEF TypeOK, Result
  <2>3. ResultSound' /\ AnswerIsOwn'
    BY <1>1, <2>1 DEF ResultSound, AnswerIsOwn, Result
  <2> QED BY <1>4, <1>6, <2>1, <2>2, <2>3
<1> QED BY <1>7, <1>8, <1>9

(* The daemon handles a request that reaches it, once, also when nobody    *)
(* waits for it any more.                                                  *)
LEMMA DaemonStep ==
    ASSUME SessionInv, NEW i \in DOMAIN wire, DaemonHandles(wire[i])
    PROVE SessionInv'
<1> USE DEF SessionInv
<1> DEFINE q == wire[i]
<1>1. /\ ~Handled(q.id)
      /\ UNCHANGED <<nextId, caps, failed, inflight, result, wire>>
  BY DEF DaemonHandles
<1>2. q.id \in Sent /\ q.body \in Bodies
  BY DEF Sent, TypeOK
<1>3. \A j \in DOMAIN wire : wire[j].id = q.id => j = i
  <2>1. \A j, k \in DOMAIN wire : j < k => wire[j].id < wire[k].id
    BY DEF IdsIncrease
  <2>2. \A j \in DOMAIN wire : j \in Nat /\ wire[j].id \in Nat
    BY IdAssumption DEF IdsIncrease, TypeOK
  <2> QED BY <2>1, <2>2
<1>4. PICK r : /\ answers' = answers \cup {r}
               /\ r.id = q.id /\ r.for = q.id
               /\ \/ /\ r \in Answers(q)
                     /\ committed' = IF Mutating(q.body) THEN committed \cup {q.id} ELSE committed
                  \/ r = Refusal(q) /\ committed' = committed
  BY AnswersAre DEF DaemonHandles, Refusal
<1>5. committed \subseteq committed' /\ committed' \subseteq committed \cup {q.id}
  BY <1>4
<1>6. r.kind = "capabilities" => r.caps \in Grants
  BY <1>4, AnswersAre, AnswerKinds DEF Refusal
<1>7. q.id \notin committed
  BY <1>1 DEF AnswersSound
<1>8. r.kind = "error" => r.for \notin committed'
  BY <1>4, <1>7, AnswersAre, AnswerKinds DEF Mutating
<1>9. r.kind # "error" /\ Mutating(q.body) => r.for \in committed'
  BY <1>4 DEF Refusal
<1>10. \A s \in answers : s.for # q.id
  BY <1>1 DEF Handled
<1>11. AnswersSound'
  <2>1. \A s \in answers' :
            /\ s.id = s.for /\ s.for \in Sent
            /\ s.kind = "capabilities" => s.caps \in Grants
    BY <1>2, <1>4, <1>6 DEF AnswersSound
  <2>2. \A s \in answers' : s.kind = "error" => s.for \notin committed'
    BY <1>4, <1>5, <1>8, <1>10 DEF AnswersSound
  <2>3. \A s \in answers' : s.kind # "error" => \A j \in DOMAIN wire :
            wire[j].id = s.for /\ Mutating(wire[j].body) => s.for \in committed'
    BY <1>3, <1>4, <1>5, <1>9 DEF AnswersSound
  <2>4. \A id \in committed' : Handled(id)'
    BY <1>4, <1>5 DEF AnswersSound, Handled
  <2> QED BY <1>1, <2>1, <2>2, <2>3, <2>4 DEF AnswersSound, Sent
<1>12. TypeOK'
  <2>1. \A s \in answers' : s.kind \in {"error"} \cup {AnswerKind(b.kind) : b \in Bodies}
    BY <1>2, <1>4, AnswersAre DEF TypeOK, Refusal
  <2>2. committed' \subseteq {wire[j].id : j \in DOMAIN wire}
    BY <1>2, <1>5 DEF TypeOK, Sent
  <2> QED BY <1>1, <2>1, <2>2 DEF TypeOK
<1>13. \A id : Handled(id) => Handled(id)' /\ id # q.id
  BY <1>1, <1>4 DEF Handled
<1>14. WaitsForLast' /\ RestHandled' /\ IdsIncrease'
  BY <1>1, <1>13 DEF WaitsForLast, RestHandled, IdsIncrease
<1>15. ResultSound' /\ AnswerIsOwn'
  BY <1>1, <1>5, <1>13 DEF ResultSound, AnswerIsOwn
<1> QED BY <1>11, <1>12, <1>14, <1>15

LEMMA SessionStep == SessionInv /\ [Next]_vars => SessionInv'
<1> SUFFICES ASSUME SessionInv, [Next]_vars PROVE SessionInv'
  OBVIOUS
<1>1. CASE UNCHANGED vars
  BY <1>1 DEF vars, SessionInv, TypeOK, IdsIncrease, WaitsForLast, RestHandled, AnswersSound,
              ResultSound, AnswerIsOwn, Handled, Sent
<1>2. ASSUME NEW b \in Bodies, RefuseLocally(b) \/ Send(b) PROVE SessionInv'
  BY <1>2, RefuseStep, SendStep
<1>3. CASE Exchange
  BY <1>3, AnswerStep DEF Exchange
<1>4. ASSUME NEW i \in DOMAIN wire, DaemonHandles(wire[i]) PROVE SessionInv'
  BY <1>4, DaemonStep
<1> QED BY <1>1, <1>2, <1>3, <1>4 DEF Next

LEMMA SessionInvariant == Spec => []SessionInv
BY SessionInit, SessionStep, PTL DEF Spec

-----------------------------------------------------------------------------
(* Every variable of a session keeps its type. *)
THEOREM SessionTypeCorrect == Spec => []TypeOK
<1>1. SessionInv => TypeOK
  BY DEF SessionInv
<1> QED BY <1>1, SessionInvariant, PTL

(* What send returns is the daemon's answer to the request of this call,   *)
(* and a push it reports as done is committed.                             *)
THEOREM AnswersAreOwn == Spec => []AnswerIsOwn
<1>1. SessionInv => AnswerIsOwn
  BY DEF SessionInv
<1> QED BY <1>1, SessionInvariant, PTL

(* Every failure but PushIndeterminate means that the push did not and     *)
(* will not happen.                                                        *)
THEOREM DefiniteFailuresAreFinal == Spec => []DefiniteFailureNotCommitted
<1>1. SessionInv => DefiniteFailureNotCommitted
  <2>1. SUFFICES ASSUME SessionInv, Mutating(result.request.body),
                        result.outcome \in {"refused", "remote", "failed"}
                 PROVE result.request.id \notin committed
    BY DEF DefiniteFailureNotCommitted
  <2>2. None \notin committed
    <3>1. \A i \in DOMAIN wire : wire[i].id \in Nat
      BY <2>1, IdAssumption DEF SessionInv, TypeOK
    <3>2. committed \subseteq {wire[i].id : i \in DOMAIN wire}
      BY <2>1 DEF SessionInv, TypeOK
    <3> QED BY <3>1, <3>2, NoneAssumption
  <2> QED BY <2>1, <2>2 DEF SessionInv, ResultSound
<1> QED BY <1>1, SessionInvariant, PTL

(* An id is never used twice. *)
THEOREM IdsAreFresh == Spec => []FreshIds
<1>1. SessionInv => FreshIds
  <2>1. SUFFICES ASSUME SessionInv, NEW i \in DOMAIN wire, NEW j \in DOMAIN wire,
                        wire[i].id = wire[j].id
                 PROVE i = j
    BY DEF FreshIds
  <2>2. i \in Nat /\ j \in Nat /\ wire[i].id \in Nat /\ wire[j].id \in Nat
    BY <2>1, IdAssumption DEF SessionInv, IdsIncrease, TypeOK
  <2>3. (i < j => wire[i].id < wire[j].id) /\ (j < i => wire[j].id < wire[i].id)
    BY <2>1 DEF SessionInv, IdsIncrease
  <2> QED BY <2>1, <2>2, <2>3
<1> QED BY <1>1, SessionInvariant, PTL

(* No request is sent while an earlier one may still take effect. *)
THEOREM RequestsAreSequential == Spec => []OneAtATime
<1>1. SessionInv => OneAtATime
  <2>1. SUFFICES ASSUME SessionInv, NEW i \in DOMAIN wire, NEW j \in DOMAIN wire, i < j
                 PROVE Handled(wire[i].id)
    BY DEF OneAtATime
  <2>2. i # Len(wire)
    BY <2>1 DEF SessionInv, IdsIncrease
  <2> QED BY <2>1, <2>2 DEF SessionInv, RestHandled
<1> QED BY <1>1, SessionInvariant, PTL
=============================================================================
