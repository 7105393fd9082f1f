----------------------------- MODULE Replication -----------------------------
(***************************************************************************)
(* Operators that publish signed transitions, exchange transfers over an   *)
(* untrusted carrier and derive the canonical head: operator.rs of         *)
(* styrene-git-functional over apply_transfer and export_transfer of       *)
(* styrene-git-protocol.                                                   *)
(*                                                                         *)
(* An operator handles a request under one mutex and owns its store, so a  *)
(* request is one step here and a commit inside it is the atomic Accept of *)
(* AcceptedHistory; PublisherStore shows what a commit does underneath.    *)
(* A transfer that was once exported can be delivered any number of times, *)
(* in any order, to anybody, or never.                                     *)
(***************************************************************************)
EXTENDS Canonical

CONSTANTS
    Author,    \* Author[o]: who writes the commit o
    Edition,   \* Edition[o]: the sequence its author stamps into it
    Faults     \* "lost": a response is lost; "restart": a process restarts

ASSUME AuthorAssumption ==
    /\ Author \in [Object -> Publisher]
    /\ Edition \in [Object -> Nat]

ASSUME ReplicationFaultsAssumption == Faults \subseteq {"lost", "restart"}

VARIABLES
    accepted,    \* accepted[o][p]: p's accepted transition in o's store
    objects,     \* objects[o]: the objects of o's store
    ready,       \* o's process has a context for the repository
    canonical,   \* the canonical head in that context
    announced,   \* history: the last canonical head o answered with
    transfers    \* the transfers that left an operator

vars == <<accepted, objects, ready, canonical, announced, transfers>>

(* Operator and publisher are one: each operator signs its own namespace.  *)
Operator == Publisher

(* RefState::transition of the state and all its predecessors.             *)
Ancestry[h \in StateId] == IF h = None THEN {} ELSE {h} \cup Ancestry[Payload[h].parent]

(* A mutant: the pack and the prerequisites swapped. *)
TransferSwapped(t, pack, needs) == [transition |-> t, pack |-> needs, needs |-> pack]

(* A transfer: a transition, the objects its pack holds and the objects it *)
(* needs.  Its parent transition is a prerequisite when there is one.      *)
Transfer(t, pack, needs) == [transition |-> t, pack |-> pack, needs |-> needs]

Sender(m) == Payload[m.transition].publisher

-----------------------------------------------------------------------------
Init ==
    /\ accepted = [o \in Operator |-> [p \in Publisher |-> None]]
    /\ objects = [o \in Operator |-> {}]
    /\ ready = [o \in Operator |-> FALSE]
    /\ canonical = [o \in Operator |-> None]
    /\ announced = [o \in Operator |-> None]
    /\ transfers = {}

(* A mutant: a repository that exists is created afresh.                   *)
InitializeAfresh(o) ==
    /\ ready' = [ready EXCEPT ![o] = TRUE]
    /\ canonical' = [canonical EXCEPT ![o] = IF ready[o] THEN @ ELSE None]
    /\ accepted' = [accepted EXCEPT ![o] = [p \in Publisher |-> None]]
    /\ objects' = [objects EXCEPT ![o] = {}]
    /\ UNCHANGED <<announced, transfers>>

(* initialize: the store is created or opened again; a context that exists *)
(* is kept.                                                                *)
Initialize(o) ==
    /\ ready' = [ready EXCEPT ![o] = TRUE]
    /\ canonical' = [canonical EXCEPT ![o] = IF ready[o] THEN @ ELSE None]
    /\ UNCHANGED <<accepted, objects, announced, transfers>>

(* signed_transition: the next transition after the accepted one, with the *)
(* complete map refs/heads/main |-> target.                                *)
SignsNext(o, t, target) ==
    /\ SignedFor(t, Selection[o])
    /\ Extends(t, accepted[o][o])
    /\ Payload[t].refs = [r \in RefName |-> IF r = DefaultBranch THEN target ELSE None]

(* The response with the transfer may never arrive, or the export after    *)
(* the commit may fail: nothing exports that transition again.             *)
Export(m) ==
    \/ transfers' = transfers \cup {m}
    \/ "lost" \in Faults /\ UNCHANGED transfers

(* Repository::commit by the only caller: the transition is the child of   *)
(* the accepted one and its graph is complete.                             *)
Commit(o, t, incoming) ==
    /\ Reach(Targets(t)) \subseteq objects[o] \cup incoming
    /\ objects' = [objects EXCEPT ![o] = @ \cup incoming]
    /\ accepted' = [accepted EXCEPT ![o][Payload[t].publisher] = t]

(* A new commit is written on parents the store has.  The sequence and the *)
(* author's date are computed without a check (operator.rs:247-256): at    *)
(* the end of u64 they panic, which is a Restart, or wrap, in the date     *)
(* only; after the last sequence signing refuses and nothing is changed.   *)
PublishCommit(o, x) ==
    /\ ready[o]
    /\ Author[x] = o
    /\ Edition[x] = NextSequence(accepted[o][o])
    /\ Links[x] \subseteq objects[o]
    /\ \E t \in Transition :
        /\ SignsNext(o, t, x)
        /\ Commit(o, t, {x})
        /\ Export(Transfer(t, {x}, Links[x]))
    /\ UNCHANGED <<ready, canonical, announced>>

(* A commit the store already has becomes the operator's head.             *)
PublishTarget(o, x) ==
    /\ ready[o]
    /\ x \in objects[o]
    /\ \E t \in Transition :
        /\ SignsNext(o, t, x)
        /\ Commit(o, t, {})
        /\ Export(Transfer(t, {}, {x}))
    /\ UNCHANGED <<ready, canonical, announced>>

(* apply_transfer: the prerequisites the store lacks.  The parent must be  *)
(* the accepted transition itself, an older or newer one does not do.      *)
Missing(o, m) ==
    (m.needs \ objects[o])
        \cup ({Payload[m.transition].parent} \ {None, accepted[o][Sender(m)]})

ApplyOutcome(o, m) ==
    LET current == accepted[o][Sender(m)] IN
    CASE current = m.transition -> "already_present"
      [] current # m.transition /\ Missing(o, m) # {} -> "missing_prerequisites"
      [] OTHER -> IF /\ Verifies(m.transition, Selection[Sender(m)], Selection[Sender(m)], current)
                     /\ Reach(Targets(m.transition)) \subseteq objects[o] \cup m.pack
                  THEN "applied" ELSE "error"

Apply(o, m) ==
    /\ ready[o]
    /\ ApplyOutcome(o, m) = "applied"
    /\ Commit(o, m.transition, m.pack)
    /\ UNCHANGED <<ready, canonical, announced, transfers>>

(* state: the canonical head is derived from the delegates the request     *)
(* names, and the context keeps it.                                        *)
StatesOf(o, asked) == [p \in Publisher |-> IF p \in asked THEN accepted[o][p] ELSE None]

CanonicalAfter(o, asked) ==
    HeadAfter(DeriveCanonicalHead(StatesOf(o, asked), canonical[o]), canonical[o])

QueryState(o, asked) ==
    /\ ready[o]
    /\ canonical' = [canonical EXCEPT ![o] = CanonicalAfter(o, asked)]
    /\ announced' = [announced EXCEPT ![o] = CanonicalAfter(o, asked)]
    /\ UNCHANGED <<accepted, objects, ready, transfers>>

(* A mutant: accepted states live in the process only. *)
RestartForgets(o) ==
    /\ "restart" \in Faults
    /\ ready[o]
    /\ ready' = [ready EXCEPT ![o] = FALSE]
    /\ canonical' = [canonical EXCEPT ![o] = None]
    /\ accepted' = [accepted EXCEPT ![o] = [p \in Publisher |-> None]]
    /\ UNCHANGED <<objects, announced, transfers>>

(* The process image is replaced: the store stays, the context is gone.    *)
Restart(o) ==
    /\ "restart" \in Faults
    /\ ready[o]
    /\ ready' = [ready EXCEPT ![o] = FALSE]
    /\ canonical' = [canonical EXCEPT ![o] = None]
    /\ UNCHANGED <<accepted, objects, announced, transfers>>

Next ==
    \E o \in Operator :
        \/ Initialize(o)
        \/ \E x \in Object : PublishCommit(o, x)
        \/ \E x \in Object : PublishTarget(o, x)
        \/ \E m \in transfers : Apply(o, m)
        \/ \E asked \in SUBSET Publisher : QueryState(o, asked)
        \/ Restart(o)

Spec == Init /\ [][Next]_vars

(* A carrier that keeps delivering: an exported transfer is offered to     *)
(* every operator until it has been applied there, and every operator is   *)
(* (re)initialized.  Processes restart any number of times, but not for    *)
(* ever.                                                                   *)
Fairness ==
    /\ \A o \in Operator :
        /\ WF_vars(Initialize(o))
        /\ \A t \in Transition :
            WF_vars(\E m \in transfers : m.transition = t /\ Apply(o, m))
    /\ <>[][\A o \in Operator : ~Restart(o)]_vars

FairSpec == Spec /\ Fairness
-----------------------------------------------------------------------------
(* Every variable has its type. *)
TypeOK ==
    /\ accepted \in [Operator -> [Publisher -> StateId]]
    /\ objects \in [Operator -> SUBSET Object]
    /\ ready \in [Operator -> BOOLEAN]
    /\ canonical \in [Operator -> Object \cup {None}]
    /\ announced \in [Operator -> Object \cup {None}]
    /\ \A m \in transfers :
        m.transition \in Transition /\ m.pack \subseteq Object /\ m.needs \subseteq Object

(* What any operator accepted from a publisher is on the history that the  *)
(* publisher itself committed, however transfers were lost, repeated and   *)
(* reordered: no replica is ahead of, or beside, the publisher.            *)
ReplicaFollowsPublisher ==
    \A o \in Operator, p \in Publisher : Ancestry[accepted[o][p]] \subseteq Ancestry[accepted[p][p]]

(* A canonical head was signed as the default branch by a threshold of     *)
(* delegates, each somewhere on the history this operator has verified:    *)
(* neither other publishers nor the delegates a state request names can    *)
(* make one (derive_canonical_head, canonical.rs:16).                      *)
CanonicalHasQuorum ==
    \A o \in Operator : canonical[o] # None =>
        Cardinality({d \in Delegate : \E t \in Ancestry[accepted[o][d]] :
                        Payload[t].refs[DefaultBranch] = canonical[o]}) >= Threshold

(* The objects below a canonical head are all in the operator's store, so  *)
(* is_ancestor never takes a missing object for a divergence.              *)
CanonicalStored ==
    \A o \in Operator : canonical[o] # None => Reach({canonical[o]}) \subseteq objects[o]

(* The canonical heads an operator answers with only ever move forward:    *)
(* "automatic canonical advancement is refused" for a head that does not   *)
(* descend from the accepted one (repository-state.md:108), and a restart  *)
(* "derives to the same head" (repository-state.md:146).                   *)
CanonicalNeverRewinds ==
    [][\A o \in Operator : announced[o] # None =>
            announced'[o] # None /\ IsDescendant(announced[o], announced'[o])]_vars

(* Publishing and applying transfers give every operator's store, restarts *)
(* and all, the atomic commits that PublisherStore implements.             *)
Store(o) == INSTANCE AcceptedHistory WITH
                head <- accepted[o], objects <- objects[o], reported <- {}
CommitsAtomically ==
    /\ \A o \in Operator : Store(o)!Init
    /\ [][\A o \in Operator : [Store(o)!Next]_<<accepted[o], objects[o]>>]_<<accepted, objects>>

(* Once exported, a transition reaches every operator, although a transfer *)
(* that arrives before its parent or its objects is turned away and must   *)
(* be offered again.                                                       *)
TransfersArrive ==
    \A t \in Transition, o \in Operator :
        (\E m \in transfers : m.transition = t) ~> (t \in Ancestry[accepted[o][Payload[t].publisher]])

(* A transfer whose transition the operator has committed is reported as   *)
(* already present when it is delivered again (replication-contract.md:56).*)
RedeliveryAlreadyPresent ==
    \A o \in Operator, m \in transfers :
        m.transition \in Ancestry[accepted[o][Sender(m)]] => ApplyOutcome(o, m) = "already_present"
=============================================================================
