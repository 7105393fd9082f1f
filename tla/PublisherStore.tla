--------------------------- MODULE PublisherStore ----------------------------
(***************************************************************************)
(* Repository::commit of styrene-git-store and the git processes it runs.  *)
(*                                                                         *)
(* The store holds no lock of its own.  Callers (threads, or processes on  *)
(* one repository directory) run commit concurrently, and every read, file *)
(* promotion and ref update of one interleaves with those of the others.   *)
(* The last step is a `git update-ref --stdin' transaction, which is a     *)
(* process of its own: it locks every ref it names, compares the old       *)
(* values, then renames the new values into place one ref at a time, and   *)
(* it outlives a caller that dies.                                         *)
(*                                                                         *)
(* A state blob is written from the state its transition produced, so the  *)
(* blob's object id and the transition id identify each other and the      *)
(* state ref is modelled by the transition.                                *)
(***************************************************************************)
EXTENDS SignedHistory

CONSTANTS
    Caller,   \* concurrent callers of commit
    Calls,    \* the arguments commit is called with
    Faults    \* the faults of the environment that may happen

ASSUME CallsAssumption ==
    \A call \in Calls :
        /\ call.objects \subseteq Object        \* what the quarantine holds
        /\ call.transition \in Transition
        /\ call.selected \in Publisher          \* whose selection is passed

ASSUME FaultsAssumption == Faults \subseteq {"read", "io", "crash", "kill"}

VARIABLES
    odb,          \* objects under path/objects
    stateRef,     \* refs/styrene/publishers/<p>/state
    transRef,     \* refs/styrene/publishers/<p>/transitions/<t>
    nsRef,        \* refs/namespaces/<p>/<r>
    pc,           \* where each caller is in commit
    call,         \* its arguments
    prev,         \* the publisher state it read
    outcome,      \* what its last finished call returned
    txn,          \* its update-ref process
    staleLocks,   \* .lock files no process owns any more
    applied       \* history: transitions some caller got Applied for

storeVars == <<odb, stateRef, transRef, nsRef>>
callerVars == <<pc, call, prev, outcome>>
gitVars == <<txn, staleLocks>>
vars == <<storeVars, callerVars, gitVars, applied>>

Outcomes == {"none", "applied", "already", "error"}
PcValues == {"idle", "read", "verify", "promote", "update", "await", "reread"}
Phases == {"none", "submitted", "locked", "committed", "failed"}

-----------------------------------------------------------------------------
(* The refs of one transaction.  Names are tagged tuples.                  *)
NsName(p, r) == <<"namespace", p, r>>
StateName(p) == <<"state", p>>
TransName(t) == <<"transition", t>>

RefNames ==
    {NsName(p, r) : p \in Publisher, r \in RefName}
        \cup {StateName(p) : p \in Publisher}
        \cup {TransName(t) : t \in Transition}

(* A mutant: refs the new map leaves out are not deleted. *)
TxnNamesKept(p, t, old) ==
    {NsName(p, r) : r \in {x \in RefName : RefsOf(t)[x] # None}} \cup {StateName(p), TransName(t)}

TxnNames(p, t, old) ==
    {NsName(p, r) : r \in {x \in RefName : RefsOf(t)[x] # None \/ RefsOf(old)[x] # None}}
        \cup {StateName(p), TransName(t)}

NoTxn == [phase |-> "none", publisher |-> None, transition |-> None, old |-> None, pending |-> {}]

(* A mutant: old and new swapped. *)
SubmittedSwapped(p, t, old) ==
    [phase |-> "submitted", publisher |-> p, transition |-> old, old |-> t,
     pending |-> TxnNames(p, old, t)]

Submitted(p, t, old) ==
    [phase |-> "submitted", publisher |-> p, transition |-> t, old |-> old,
     pending |-> TxnNames(p, t, old)]

(* The same transaction, further on. *)
InPhase(x, phase, pending) ==
    [phase |-> phase, publisher |-> x.publisher, transition |-> x.transition, old |-> x.old,
     pending |-> pending]

(* The names whose .lock file exists. *)
Locked ==
    staleLocks \cup UNION {txn[c].pending : c \in {x \in Caller : txn[x].phase = "locked"}}

(* A mutant: updates without old values. *)
OldValuesUnchecked(p, t, old) == TRUE

(* The old values the transaction names still hold: refs the map deletes   *)
(* or replaces have the previous target, new ones are absent, the state    *)
(* ref has the blob that was read, the transition ref does not exist.      *)
OldValuesHold(p, t, old) ==
    /\ \A r \in RefName :
        NsName(p, r) \in TxnNames(p, t, old) => nsRef[p][r] = RefsOf(old)[r]
    /\ stateRef[p] = old
    /\ t \notin transRef

-----------------------------------------------------------------------------
Init ==
    /\ odb = {}
    /\ stateRef = [p \in Publisher |-> None]
    /\ transRef = {}
    /\ nsRef = [p \in Publisher |-> NoRefs]
    /\ pc = [c \in Caller |-> "idle"]
    /\ call = [c \in Caller |-> None]
    /\ prev = [c \in Caller |-> None]
    /\ outcome = [c \in Caller |-> "none"]
    /\ txn = [c \in Caller |-> NoTxn]
    /\ staleLocks = {}
    /\ applied = {}

(* The call is over: its quarantine is dropped with it. *)
Return(c, result) ==
    /\ pc' = [pc EXCEPT ![c] = "idle"]
    /\ outcome' = [outcome EXCEPT ![c] = result]
    /\ prev' = [prev EXCEPT ![c] = None]
    /\ UNCHANGED call

Step(c, from, to) ==
    /\ pc[c] = from
    /\ pc' = [pc EXCEPT ![c] = to]
    /\ UNCHANGED <<call, outcome>>

(* A caller enters commit with a filled quarantine. *)
Begin(c) ==
    /\ pc[c] = "idle"
    /\ \E k \in Calls : call' = [call EXCEPT ![c] = k]
    /\ pc' = [pc EXCEPT ![c] = "read"]
    /\ outcome' = [outcome EXCEPT ![c] = "none"]
    /\ UNCHANGED <<storeVars, gitVars, prev, applied>>

Admissible(k) == k.repository = Repository /\ k.binding = Selection[k.selected]

(* publisher_state: any failure of `git show-ref' reads as no state.       *)
ReadsState(p, h) == h = stateRef[p] \/ ("read" \in Faults /\ h = None)

(* The quarantine is of another repository, or the binding not selected. *)
RefuseCall(c) ==
    /\ pc[c] = "read"
    /\ ~Admissible(call[c])
    /\ Return(c, "error")
    /\ UNCHANGED <<storeVars, gitVars, applied>>

(* The publisher's state is read and the transition verified against it.   *)
(* Its blob may be unreadable too.                                         *)
ReadState(c) ==
    /\ pc[c] = "read"
    /\ Admissible(call[c])
    /\ \E h \in StateId :
        /\ ReadsState(call[c].selected, h)
        /\ \/ /\ h = call[c].transition
              /\ Return(c, "already")
           \/ /\ h # call[c].transition
              /\ \/ ~Verifies(call[c].transition, call[c].binding, Selection[call[c].selected], h)
                 \/ "read" \in Faults
              /\ Return(c, "error")
           \/ /\ h # call[c].transition
              /\ Verifies(call[c].transition, call[c].binding, Selection[call[c].selected], h)
              /\ Step(c, "read", "verify")
              /\ prev' = [prev EXCEPT ![c] = h]
    /\ UNCHANGED <<storeVars, gitVars, applied>>

(* A mutant: only the targets themselves are looked up. *)
TargetsPresentShallow(k, stored) == Targets(k.transition) \subseteq stored \cup k.objects

(* Quarantine::verify_targets: with the repository as alternate, the whole *)
(* graph below the targets is there.  The git commands it runs, fsck the   *)
(* last, may fail besides.                                                 *)
TargetsPresent(k, stored) == Reach(Targets(k.transition)) \subseteq stored \cup k.objects

VerifyTargets(c) ==
    /\ pc[c] = "verify"
    /\ \/ /\ TargetsPresent(call[c], odb)
          /\ Step(c, "verify", "promote")
          /\ UNCHANGED prev
       \/ /\ ~TargetsPresent(call[c], odb) \/ "read" \in Faults
          /\ Return(c, "error")
    /\ UNCHANGED <<storeVars, gitVars, applied>>

(* promote_objects links one quarantined file after another into the       *)
(* repository, in directory order; a file already there is skipped.        *)
PromoteObject(c) ==
    /\ pc[c] = "promote"
    /\ \E o \in call[c].objects \ odb : odb' = odb \cup {o}
    /\ UNCHANGED <<stateRef, transRef, nsRef, callerVars, gitVars, applied>>

(* A link fails halfway: what was promoted stays.                          *)
PromoteFails(c) ==
    /\ "io" \in Faults
    /\ pc[c] = "promote"
    /\ Return(c, "error")
    /\ UNCHANGED <<storeVars, gitVars, applied>>

(* A mutant: the refs are updated while files are still being promoted. *)
PromoteDoneEarly(c) ==
    /\ Step(c, "promote", "update")
    /\ UNCHANGED <<storeVars, gitVars, prev, applied>>

PromoteDone(c) ==
    /\ Step(c, "promote", "update")
    /\ call[c].objects \subseteq odb
    /\ UNCHANGED <<storeVars, gitVars, prev, applied>>

(* The state and transition blobs are written and the ref transaction is   *)
(* handed to git.                                                          *)
SubmitUpdate(c) ==
    /\ Step(c, "update", "await")
    /\ txn[c].phase = "none"
    /\ txn' = [txn EXCEPT ![c] = Submitted(call[c].selected, call[c].transition, prev[c])]
    /\ UNCHANGED <<storeVars, prev, staleLocks, applied>>

(* update-ref succeeded: CommitOutcome::Applied. *)
UpdateSucceeded(c) ==
    /\ pc[c] = "await"
    /\ txn[c].phase = "committed"
    /\ applied' = applied \cup {call[c].transition}
    /\ txn' = [txn EXCEPT ![c] = NoTxn]
    /\ Return(c, "applied")
    /\ UNCHANGED <<storeVars, staleLocks>>

(* update-ref failed, or did its work and still looked like a failure. *)
UpdateErred(c) ==
    /\ Step(c, "await", "reread")
    /\ \/ txn[c].phase = "failed"
       \/ txn[c].phase = "committed" /\ "io" \in Faults
    /\ txn' = [txn EXCEPT ![c] = NoTxn]
    /\ UNCHANGED <<storeVars, prev, staleLocks, applied>>

(* A mutant: any state found after an error counts as this one. *)
RereadStateAny(c) ==
    /\ pc[c] = "reread"
    /\ \E h \in StateId :
        /\ ReadsState(call[c].selected, h)
        /\ Return(c, IF h # None THEN "already" ELSE "error")
    /\ UNCHANGED <<storeVars, gitVars, applied>>

(* After any error the state is read again: somebody may have committed    *)
(* the same transition.                                                    *)
RereadState(c) ==
    /\ pc[c] = "reread"
    /\ \E h \in StateId :
        /\ ReadsState(call[c].selected, h)
        /\ Return(c, IF h = call[c].transition THEN "already" ELSE "error")
    /\ UNCHANGED <<storeVars, gitVars, applied>>

-----------------------------------------------------------------------------
(* The update-ref process of caller c.                                     *)

(* prepare: every ref is locked and holds its old value. *)
PrepareRefs(c) ==
    LET x == txn[c] IN
    /\ x.phase = "submitted"
    /\ x.pending \cap Locked = {}
    /\ OldValuesHold(x.publisher, x.transition, x.old)
    /\ txn' = [txn EXCEPT ![c] = InPhase(x, "locked", x.pending)]
    /\ UNCHANGED <<storeVars, callerVars, staleLocks, applied>>

(* Another transaction on some of the refs is alive: git locks refs one    *)
(* by one and gives up on a held lock after a tenth of a second, so either *)
(* one of them, or both, may fail.                                         *)
Contended(c) ==
    \E d \in Caller \ {c} :
        /\ txn[d].phase \in {"submitted", "locked"}
        /\ txn[d].pending \cap txn[c].pending # {}

(* A mutant: a held lock is waited for. *)
PrepareFailsWaits(c) ==
    LET x == txn[c] IN
    /\ x.phase = "submitted"
    /\ ~OldValuesHold(x.publisher, x.transition, x.old) \/ Contended(c)
    /\ txn' = [txn EXCEPT ![c] = InPhase(x, "failed", {})]
    /\ UNCHANGED <<storeVars, callerVars, staleLocks, applied>>

PrepareFails(c) ==
    LET x == txn[c] IN
    /\ x.phase = "submitted"
    /\ \/ x.pending \cap Locked # {}
       \/ ~OldValuesHold(x.publisher, x.transition, x.old)
       \/ Contended(c)
       \/ "io" \in Faults
    /\ txn' = [txn EXCEPT ![c] = InPhase(x, "failed", {})]
    /\ UNCHANGED <<storeVars, callerVars, staleLocks, applied>>

(* commit: one lock file is renamed into place, or one ref deleted. *)
RenameRef(c) ==
    LET x == txn[c] IN
    /\ x.phase = "locked"
    /\ \E n \in x.pending :
        /\ txn' = [txn EXCEPT ![c] =
                InPhase(x, IF x.pending = {n} THEN "committed" ELSE "locked", x.pending \ {n})]
        /\ nsRef' = [p \in Publisher |-> [r \in RefName |->
                        IF n = NsName(p, r) THEN RefsOf(x.transition)[r] ELSE nsRef[p][r]]]
        /\ stateRef' = [p \in Publisher |-> IF n = StateName(p) THEN x.transition ELSE stateRef[p]]
        /\ transRef' = IF n = TransName(x.transition) THEN transRef \cup {x.transition} ELSE transRef
    /\ UNCHANGED <<odb, callerVars, staleLocks, applied>>

(* The git process is killed: the locks it still held stay on disk. *)
KillGit(c) ==
    /\ "kill" \in Faults
    /\ txn[c].phase \in {"submitted", "locked"}
    /\ staleLocks' = IF txn[c].phase = "locked" THEN staleLocks \cup txn[c].pending ELSE staleLocks
    /\ txn' = [txn EXCEPT ![c] = InPhase(txn[c], "failed", {})]
    /\ UNCHANGED <<storeVars, callerVars, applied>>

(* The caller's process dies.  A git child it had started runs on, or ends *)
(* at the end of its input if that was not written to the last line.       *)
Crash(c) ==
    /\ "crash" \in Faults
    /\ pc[c] # "idle"
    /\ Return(c, "none")
    /\ \/ UNCHANGED txn
       \/ /\ txn[c].phase = "submitted"
          /\ txn' = [txn EXCEPT ![c] = InPhase(txn[c], "failed", {})]
    /\ UNCHANGED <<storeVars, staleLocks, applied>>

(* A finished git process nobody waits for is reaped. *)
Reap(c) ==
    /\ pc[c] # "await"
    /\ txn[c].phase \in {"committed", "failed"}
    /\ txn' = [txn EXCEPT ![c] = NoTxn]
    /\ UNCHANGED <<storeVars, callerVars, staleLocks, applied>>

-----------------------------------------------------------------------------
CommitStep(c) ==
    \/ RefuseCall(c)
    \/ ReadState(c)
    \/ VerifyTargets(c)
    \/ PromoteObject(c)
    \/ PromoteFails(c)
    \/ PromoteDone(c)
    \/ SubmitUpdate(c)
    \/ UpdateSucceeded(c)
    \/ UpdateErred(c)
    \/ RereadState(c)

GitStep(c) ==
    \/ PrepareRefs(c)
    \/ PrepareFails(c)
    \/ RenameRef(c)
    \/ Reap(c)

Next == \E c \in Caller : Begin(c) \/ CommitStep(c) \/ GitStep(c) \/ KillGit(c) \/ Crash(c)

Spec == Init /\ [][Next]_vars

(* A running thread of commit and a running git process keep going.  A     *)
(* caller need not call, and nothing has to fail.                          *)
Fairness == \A c \in Caller : WF_vars(CommitStep(c)) /\ WF_vars(GitStep(c))

FairSpec == Spec /\ Fairness
-----------------------------------------------------------------------------
(* Every variable has its type.                                            *)
TypeOK ==
    /\ odb \subseteq Object
    /\ stateRef \in [Publisher -> StateId]
    /\ transRef \subseteq Transition
    /\ nsRef \in [Publisher -> RefMap]
    /\ pc \in [Caller -> PcValues]
    /\ call \in [Caller -> Calls \cup {None}]
    /\ prev \in [Caller -> StateId]
    /\ outcome \in [Caller -> Outcomes]
    /\ txn \in [Caller -> [phase : Phases, publisher : Publisher \cup {None},
                          transition : StateId, old : StateId, pending : SUBSET RefNames]]
    /\ staleLocks \subseteq RefNames
    /\ applied \subseteq Transition

(* No accepted reference dangles: everything reachable from the targets of *)
(* an accepted state, and from any target already renamed into a namespace,*)
(* is stored, although targets were checked against a quarantine that is   *)
(* gone and files were promoted one by one (lib.rs:313, 498, 586).         *)
AcceptedClosure ==
    \A p \in Publisher :
        /\ Reach(Targets(stateRef[p])) \subseteq odb
        /\ \A r \in RefName : nsRef[p][r] # None => Reach({nsRef[p][r]}) \subseteq odb

(* A namespace ref that no transaction has locked says what the publisher's*)
(* accepted state says, ref by ref, also after deletions, lost races and   *)
(* killed git processes (update_publisher_refs, lib.rs:369).               *)
NamespaceMatchesState ==
    \A p \in Publisher, r \in RefName :
        {NsName(p, r), StateName(p)} \cap Locked = {} => nsRef[p][r] = RefsOf(stateRef[p])[r]

(* Every ref in a namespace was signed into it by the publisher's selected *)
(* key for this repository: nobody writes another's namespace.             *)
NamespaceSigned ==
    \A p \in Publisher, r \in RefName :
        nsRef[p][r] # None =>
            \E t \in Transition :
                SignedFor(t, Selection[p]) /\ Payload[t].refs[r] = nsRef[p][r]

(* Of two transitions a publisher signed on the same parent at most one is *)
(* ever committed, whoever delivers them and however the calls race.       *)
NoFork ==
    \A t, u \in transRef :
        /\ Payload[t].publisher = Payload[u].publisher
        /\ Payload[t].parent = Payload[u].parent
        => t = u

(* The transition ref of every accepted transition is kept, back to the    *)
(* first, unless the transaction that creates it holds its lock or was     *)
(* killed holding it (transition_ref, lib.rs:579).                         *)
LineageRetained ==
    \A p \in Publisher : \A t \in Lineage(stateRef[p]) :
        t \in transRef \/ TransName(t) \in Locked

(* A call that was told Applied or AlreadyPresent was told the truth, and  *)
(* it stays true: its transition is the accepted one or an ancestor of it. *)
SuccessIsAccepted ==
    \A c \in Caller :
        outcome[c] \in {"applied", "already"} =>
            call[c].transition \in Lineage(stateRef[call[c].selected])

(* The accepted state of a publisher only ever moves to a child of itself, *)
(* with a sequence one greater, also at the last sequence there is, signed *)
(* by the selected key.  Rewinds, replays, forks, a wrapped sequence and   *)
(* stale compare-and-swap values are all excluded, although the transition *)
(* is verified against a state read several steps earlier.                 *)
StateMovesToChild ==
    [][\A p \in Publisher : stateRef'[p] # stateRef[p] =>
            /\ stateRef'[p] # None
            /\ SignedFor(stateRef'[p], Selection[p])
            /\ Payload[stateRef'[p]].parent = stateRef[p]
            /\ stateRef[p] # None =>
                    Payload[stateRef'[p]].sequence = Payload[stateRef[p]].sequence + 1]_vars

(* Of all callers ever given one transition, at most one is told it        *)
(* applied it: events and follow-up work are not duplicated.               *)
AppliedOnce ==
    [][\A c \in Caller : outcome'[c] = "applied" /\ outcome[c] # "applied" =>
            call[c].transition \notin applied]_vars

(* Every call of commit returns, whatever it races with: a lock held by a  *)
(* transaction, or left behind by a killed one, is an error, not a hang.   *)
CallsReturn == \A c \in Caller : (pc[c] # "idle") ~> (pc[c] = "idle")

(* The store implements the atomic commits of AcceptedHistory. *)
Abstract == INSTANCE AcceptedHistory WITH
    head <- stateRef, objects <- odb, reported <- applied
CommitsAtomically == Abstract!Spec

(* Two callers that deliver one valid transition both end with the state   *)
(* it produced: "both callers observe the same final accepted state"       *)
(* (replication-contract.md:66).                                           *)
DuplicateObservesAccepted ==
    \A c, d \in Caller :
        /\ outcome[c] = "applied"
        /\ pc[d] = "idle"
        /\ call[d] = call[c]
        => outcome[d] # "error"
=============================================================================
