------------------------------ MODULE IpcClient ------------------------------
(***************************************************************************)
(* GitIpcClient of styrene-git-remote: one session of typed requests over  *)
(* an authenticated transport that belongs to somebody else.  A request    *)
(* may be handled by the daemon or not, and the bytes that come back may   *)
(* be its answer, an answer to an earlier request that was delayed or      *)
(* repeated, garbage, or nothing at all.                                   *)
(*                                                                         *)
(* A body is reduced to what client.rs compares: its kind, the repository, *)
(* the subject (view or operation) and the amounts that limits bound.      *)
(***************************************************************************)
EXTENDS Naturals, Sequences

CONSTANTS
    Bodies,      \* the request bodies the helper may pass to send
    Grants,      \* the capability sets the daemon may answer with
    InitialId,   \* ClientConfig.initial_request_id
    MaxId,       \* u128::MAX
    Bootstrap,   \* the request size allowed before negotiation
    None

ASSUME IdAssumption == InitialId \in Nat /\ MaxId \in Nat /\ InitialId <= MaxId

Amounts == {"request", "wants", "haves", "updates", "pack", "page"}

ASSUME BodiesAssumption ==
    \A b \in Bodies : DOMAIN b.amount = Amounts /\ \A a \in Amounts : b.amount[a] \in Nat

ASSUME GrantsAssumption ==
    \A g \in Grants : DOMAIN g.limits = Amounts /\ g.valid \in BOOLEAN

(* The absent request, id or capability set is none of them. *)
ASSUME NoneAssumption ==
    /\ None \notin Nat
    /\ None \notin Grants
    /\ None \notin [id : InitialId..MaxId, body : Bodies]

VARIABLES
    nextId,       \* the next request id, None when they are used up
    caps,         \* the negotiated capability set, None before
    failed,       \* the session is poisoned
    inflight,     \* the request send waits for, None outside exchange
    result,       \* how the last call of send ended
    wire,         \* the requests given to the transport, in order
    answers,      \* the responses the daemon produced
    committed     \* the ids of the pushes the daemon committed

vars == <<nextId, caps, failed, inflight, result, wire, answers, committed>>

-----------------------------------------------------------------------------
(* What a request needs, and which amounts of it are bounded.              *)
Required(kind) ==
    CASE kind \in {"refs", "fetch"} -> "read"
      [] kind \in {"push_refs", "push"} -> "write_own"
      [] kind = "synchronize" -> "synchronize"
      [] kind \in {"operation", "observations"} -> "read_operations"
      [] kind = "cancel" -> "cancel"

Bounded(kind) ==
    CASE kind = "fetch" -> {"wants", "haves"}
      [] kind = "push" -> {"updates", "pack"}
      [] kind = "observations" -> {"page"}
      [] OTHER -> {}

(* The kind of response each request expects. *)
AnswerKind(kind) ==
    CASE kind \in {"synchronize", "operation", "cancel"} -> "operation"
      [] OTHER -> kind

(* validate_request: before anything is written. *)
RequestAllowed(b) ==
    b.kind # "capabilities" =>
        /\ caps # None
        /\ Required(b.kind) \in caps.granted
        /\ \A a \in Bounded(b.kind) : b.amount[a] <= caps.limits[a]

(* negotiate returns the capabilities it has without a request. *)
Requested(b) == inflight = None /\ (b.kind = "capabilities" => caps = None)

MaxRequest == IF caps = None THEN Bootstrap ELSE caps.limits["request"]

(* A mutant: the id wraps around. *)
SuccessorWraps(id) == (id + 1) % (MaxId + 1)

Successor(id) == IF id = MaxId THEN None ELSE id + 1

Mutating(b) == b.kind = "push"

(* validate_response_context: response and request are about the same      *)
(* thing, the repository, a view of it or an operation.  An operation that *)
(* was started has the view as its subject.                                *)
SameContext(b, r) ==
    /\ r.kind = AnswerKind(b.kind)
    /\ b.kind \in {"refs", "push_refs", "push", "synchronize"} => r.repository = b.repository
    /\ b.kind \in {"refs", "synchronize", "operation", "cancel", "observations"} =>
            r.subject = b.subject

(* A mutant: the response id is not compared. *)
OwnAnswerAnyId(q, r) == r.intact /\ r.kind # "error" /\ SameContext(q.body, r)

(* validate_response accepts r as the answer to q. *)
OwnAnswer(q, r) ==
    /\ r.intact
    /\ r.id = q.id
    /\ r.kind # "error"
    /\ SameContext(q.body, r)
    /\ caps # None /\ r.kind = "fetch" => r.amount["pack"] <= caps.limits["pack"]
    /\ caps # None /\ r.kind = "observations" => r.amount["page"] <= caps.limits["page"]

(* The daemon's own refusal of q, ClientError::Remote: not a failure of    *)
(* the session.                                                            *)
RemoteRefusal(q, r) == r.intact /\ r.id = q.id /\ r.kind = "error"

NoResult == [outcome |-> "none", request |-> None, response |-> None]
Result(outcome, q, r) == [outcome |-> outcome, request |-> q, response |-> r]

Broken == [id |-> None, kind |-> "broken", repository |-> None, subject |-> None,
           amount |-> [a \in Amounts |-> 0], caps |-> None, intact |-> FALSE]
-----------------------------------------------------------------------------
Init ==
    /\ nextId = InitialId
    /\ caps = None
    /\ failed = FALSE
    /\ inflight = None
    /\ result = NoResult
    /\ wire = <<>>
    /\ answers = {}
    /\ committed = {}

(* A call that never reaches the transport: the session has failed, the    *)
(* request is not allowed, ids are used up, or its encoding is too large,  *)
(* which costs an id.                                                      *)
RefuseLocally(b) ==
    /\ Requested(b)
    /\ \/ /\ failed \/ ~RequestAllowed(b) \/ nextId = None
          /\ UNCHANGED nextId
       \/ /\ ~failed /\ RequestAllowed(b) /\ nextId # None
          /\ b.amount["request"] > MaxRequest
          /\ nextId' = Successor(nextId)
    /\ result' = Result("refused", [id |-> None, body |-> b], None)
    /\ UNCHANGED <<caps, failed, inflight, wire, answers, committed>>

(* A mutant: a failed session is used again. *)
SendAnyway(b) ==
    /\ Requested(b)
    /\ RequestAllowed(b) /\ nextId # None
    /\ b.amount["request"] <= MaxRequest
    /\ inflight' = [id |-> nextId, body |-> b]
    /\ wire' = Append(wire, inflight')
    /\ nextId' = Successor(nextId)
    /\ result' = NoResult
    /\ UNCHANGED <<caps, failed, answers, committed>>

(* send, up to the exchange. *)
Send(b) ==
    /\ Requested(b)
    /\ ~failed
    /\ RequestAllowed(b) /\ nextId # None
    /\ b.amount["request"] <= MaxRequest
    /\ inflight' = [id |-> nextId, body |-> b]
    /\ wire' = Append(wire, inflight')
    /\ nextId' = Successor(nextId)
    /\ result' = NoResult
    /\ UNCHANGED <<caps, failed, answers, committed>>

(* The exchange returned bytes that answer the request. *)
Accept(r) ==
    /\ inflight # None /\ OwnAnswer(inflight, r)
    /\ IF r.kind = "capabilities"
       THEN /\ failed' = ~r.caps.valid
            /\ caps' = IF r.caps.valid THEN r.caps ELSE None
            /\ result' = Result(IF r.caps.valid THEN "ok" ELSE "failed", inflight, r)
       ELSE /\ result' = Result("ok", inflight, r)
            /\ UNCHANGED <<caps, failed>>
    /\ inflight' = None
    /\ UNCHANGED <<nextId, wire, answers, committed>>

(* It returned the daemon's refusal. *)
Refused(r) ==
    /\ inflight # None /\ RemoteRefusal(inflight, r)
    /\ result' = Result("remote", inflight, r)
    /\ inflight' = None
    /\ UNCHANGED <<nextId, caps, failed, wire, answers, committed>>

(* A mutant: every failure is reported alike. *)
FailExchangeAlike(r) ==
    /\ inflight # None /\ ~OwnAnswer(inflight, r) /\ ~RemoteRefusal(inflight, r)
    /\ failed' = TRUE
    /\ result' = Result("failed", inflight, None)
    /\ inflight' = None
    /\ UNCHANGED <<nextId, caps, wire, answers, committed>>

(* It failed, or returned anything else: the session is over, and a push   *)
(* may or may not have been committed.                                     *)
FailExchange(r) ==
    /\ inflight # None /\ ~OwnAnswer(inflight, r) /\ ~RemoteRefusal(inflight, r)
    /\ failed' = TRUE
    /\ result' = Result(IF Mutating(inflight.body) THEN "indeterminate" ELSE "failed", inflight, None)
    /\ inflight' = None
    /\ UNCHANGED <<nextId, caps, wire, answers, committed>>

(* The transport hands over an answer of the daemon, any one it ever gave  *)
(* in this session, or breaks.                                             *)
Exchange ==
    \E r \in answers \cup {Broken} : Accept(r) \/ Refused(r) \/ FailExchange(r)
-----------------------------------------------------------------------------
(* The daemon, once for each request that reaches it. *)
Handled(id) == \E r \in answers : r.for = id

(* Its answer may be damaged, of another version, or about something else. *)
Answers(q) ==
    LET base == [id |-> q.id, for |-> q.id, kind |-> AnswerKind(q.body.kind),
                 repository |-> q.body.repository, subject |-> q.body.subject,
                 amount |-> [a \in Amounts |-> 0], caps |-> None, intact |-> TRUE] IN
    IF q.body.kind = "capabilities"
    THEN {[base EXCEPT !.caps = g] : g \in Grants}
    ELSE {base, [base EXCEPT !.intact = FALSE],
          [base EXCEPT !.repository = None], [base EXCEPT !.subject = None],
          [base EXCEPT !.amount["pack"] = 2]}

Refusal(q) ==
    [id |-> q.id, for |-> q.id, kind |-> "error", repository |-> None, subject |-> None,
     amount |-> [a \in Amounts |-> 0], caps |-> None, intact |-> TRUE]

(* A request left in the transport may be handled after its call failed. *)
DaemonHandles(q) ==
    /\ ~Handled(q.id)
    /\ \/ /\ \E r \in Answers(q) : answers' = answers \cup {r}
          /\ committed' = IF Mutating(q.body) THEN committed \cup {q.id} ELSE committed
       \/ /\ answers' = answers \cup {Refusal(q)}
          /\ UNCHANGED committed
    /\ UNCHANGED <<nextId, caps, failed, inflight, result, wire>>

Next ==
    \/ \E b \in Bodies : RefuseLocally(b) \/ Send(b)
    \/ Exchange
    \/ \E i \in DOMAIN wire : DaemonHandles(wire[i])

Spec == Init /\ [][Next]_vars
-----------------------------------------------------------------------------
(* Every variable has its type. *)
TypeOK ==
    /\ nextId \in InitialId..MaxId \cup {None}
    /\ caps \in Grants \cup {None}
    /\ failed \in BOOLEAN
    /\ inflight # None => inflight.id \in InitialId..MaxId /\ inflight.body \in Bodies
    /\ result.outcome \in {"none", "refused", "ok", "remote", "failed", "indeterminate"}
    /\ \A i \in DOMAIN wire : wire[i].id \in InitialId..MaxId /\ wire[i].body \in Bodies
    /\ \A r \in answers : r.kind \in {"error"} \cup {AnswerKind(b.kind) : b \in Bodies}
    /\ committed \subseteq {wire[i].id : i \in DOMAIN wire}

(* A call that succeeds returns what the daemon produced for this very     *)
(* request: never an answer that was delayed, repeated or meant for        *)
(* another request, and a push it reports was committed.                   *)
AnswerIsOwn ==
    result.outcome = "ok" =>
        /\ result.response.for = result.request.id
        /\ Mutating(result.request.body) => result.request.id \in committed

(* A push that failed in any way but PushIndeterminate is not committed,   *)
(* and never will be: its caller may correct it and push again.            *)
DefiniteFailureNotCommitted ==
    /\ result.request # None
    /\ Mutating(result.request.body)
    /\ result.outcome \in {"refused", "remote", "failed"}
    => result.request.id \notin committed

(* No two requests carry the same id, also when the ids run out. *)
FreshIds ==
    \A i, j \in DOMAIN wire : wire[i].id = wire[j].id => i = j

(* The daemon has handled a request before the session sends the next one: *)
(* none is left in a transport that broke, to be handled, and a push to be *)
(* committed, after or between later requests of the session.              *)
OneAtATime ==
    \A i, j \in DOMAIN wire : i < j => Handled(wire[i].id)
=============================================================================
