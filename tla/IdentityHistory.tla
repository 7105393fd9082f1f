--------------------------- MODULE IdentityHistory ---------------------------
(***************************************************************************)
(* The governance of a repository: identity.rs of styrene-git-core.  An    *)
(* identity state is replaced by a transition that a threshold of its own  *)
(* delegates approved.  Transitions are drafts that travel from delegate   *)
(* to delegate, and every verifier advances its own state with whatever    *)
(* draft it is given.                                                      *)
(*                                                                         *)
(* A transition is the record of its payload and its approvals, and stands *)
(* for its own digest, which covers both.  A payload names its parent by   *)
(* that digest and its repository; histories of two repositories start     *)
(* from different roots, so that the parent tells them apart as well.      *)
(***************************************************************************)
EXTENDS Naturals, FiniteSets

CONSTANTS
    Identity,     \* Styrene identities
    LastEpoch,    \* LastEpoch[i]: the last epoch a key of i is bound for
    KeyOf,        \* KeyOf[i][e]: the repository key bound to i for epoch e
    Document,     \* identity documents, the ones that do not validate too
    Founding,     \* the initial document
    Verifier,     \* holders of an accepted identity state
    Draft,        \* copies of transitions in circulation
    MaxSequence,  \* u64::MAX in the code
    Root,         \* the id of the founding state, no transition's
    None          \* no draft, no selection

ASSUME EpochAssumption == LastEpoch \in [Identity -> Nat]

ASSUME IdentitySequenceAssumption == MaxSequence \in Nat

(* A document lists its delegates; `listed' is the length of that list.    *)
ASSUME DocumentAssumption ==
    /\ IsFiniteSet(Identity)
    /\ \A d \in Document :
        d.delegates \subseteq Identity /\ d.listed \in Nat /\ d.threshold \in Nat
    /\ Founding.delegates \subseteq Identity /\ Founding.threshold \in Nat

ASSUME NoneIsNoEpoch == None \notin Nat

VARIABLES
    state,      \* state[v]: the IdentityState v has accepted
    draft,      \* the transition in each copy
    current,    \* current[i]: the epoch of the key i signs with
    selection,  \* selection[v][i]: the epoch of i that v selects
    accepted,   \* accepted[v]: a history, the transitions v has accepted
    signed      \* a history, <<i, payload>> for each payload i approved

vars == <<state, draft, current, selection, accepted, signed>>

(* IdentityDocument::validate: the threshold is within the list, and the   *)
(* list has no delegate twice.                                             *)
Valid(d) ==
    /\ d.threshold # 0 /\ d.threshold <= d.listed
    /\ d.listed = Cardinality(d.delegates)

ASSUME FoundingAssumption == Valid(Founding)

(* IdentityState::initial.  The digest of the root is no transition's.     *)
Initial == [transition |-> Root, sequence |-> 0, document |-> Founding]

(* An approval by a key over a payload, labelled with an identity and the  *)
(* epoch of its key.  `again' tells a repetition in the list apart.        *)
Approval(i, e, key, payload, again) ==
    [identity |-> i, epoch |-> e, key |-> key, over |-> payload, again |-> again]

(* SignerBinding::issue binds any key, also one that is bound already.     *)
(* That no two identities share one is what GovernedByPrior rests on; one  *)
(* identity may keep its key for several epochs.                           *)
KeysOwn ==
    \A i, j \in Identity : \A e \in 0 .. LastEpoch[i] : \A f \in 0 .. LastEpoch[j] :
        KeyOf[i][e] = KeyOf[j][f] => i = j

Exhausted(s) == s.sequence = MaxSequence

Proposal(s, d) ==
    [payload |-> [parent |-> s.transition, sequence |-> s.sequence + 1, document |-> d],
     approvals |-> {}]

(* IdentityTransition::approve: an earlier approval of the same identity   *)
(* is replaced.                                                            *)
Approved(t, i, e) ==
    [t EXCEPT !.approvals =
        {a \in @ : a.identity # i} \cup {Approval(i, e, KeyOf[i][e], t.payload, FALSE)}]

-----------------------------------------------------------------------------
(* IdentityTransition::verify after the accepted state s.                  *)

(* A mutant: repetitions are let through. *)
DistinctUnchecked(approvals) == TRUE

(* Approvals are sorted and unique by identity. *)
Distinct(approvals) == \A a, b \in approvals : a.identity = b.identity => a = b

(* The approval is by the selected key of its identity, over this payload. *)
Genuine(a, payload, selected) ==
    /\ selected[a.identity] # None
    /\ a.epoch = selected[a.identity]
    /\ a.key = KeyOf[a.identity][selected[a.identity]]
    /\ a.over = payload

(* A mutant: the proposed delegates have a say. *)
CountedProposed(t, s) == {a \in t.approvals : a.identity \in t.payload.document.delegates}

(* Approvals of others than the current delegates are skipped. *)
Counted(t, s) == {a \in t.approvals : a.identity \in s.document.delegates}

(* A mutant: the parent is not compared. *)
VerifiesDetached(t, s, selected) ==
    /\ ~Exhausted(s)
    /\ t.payload.sequence = s.sequence + 1
    /\ Valid(t.payload.document)
    /\ Distinct(t.approvals)
    /\ \A a \in Counted(t, s) : Genuine(a, t.payload, selected)
    /\ Cardinality(Counted(t, s)) >= s.document.threshold

(* A mutant: the proposed document is not validated. *)
VerifiesAnyDocument(t, s, selected) ==
    /\ ~Exhausted(s)
    /\ t.payload.parent = s.transition
    /\ t.payload.sequence = s.sequence + 1
    /\ Distinct(t.approvals)
    /\ \A a \in Counted(t, s) : Genuine(a, t.payload, selected)
    /\ Cardinality(Counted(t, s)) >= s.document.threshold

Verifies(t, s, selected) ==
    /\ ~Exhausted(s)
    /\ t.payload.parent = s.transition
    /\ t.payload.sequence = s.sequence + 1
    /\ Valid(t.payload.document)
    /\ Distinct(t.approvals)
    /\ \A a \in Counted(t, s) : Genuine(a, t.payload, selected)
    /\ Cardinality(Counted(t, s)) >= s.document.threshold

After(t) ==
    [transition |-> t, sequence |-> t.payload.sequence, document |-> t.payload.document]

-----------------------------------------------------------------------------
Init ==
    /\ state = [v \in Verifier |-> Initial]
    /\ draft = [c \in Draft |-> None]
    /\ current = [i \in Identity |-> 0]
    /\ selection = [v \in Verifier |->
            [i \in Identity |-> IF i \in Founding.delegates THEN 0 ELSE None]]
    /\ accepted = [v \in Verifier |-> {}]
    /\ signed = {}

Propose(v, c, d) ==
    /\ draft[c] = None
    /\ ~Exhausted(state[v])
    /\ draft' = [draft EXCEPT ![c] = Proposal(state[v], d)]
    /\ UNCHANGED <<state, current, selection, accepted, signed>>

Approve(i, c) ==
    /\ draft[c] # None
    /\ draft' = [draft EXCEPT ![c] = Approved(@, i, current[i])]
    /\ signed' = signed \cup {<<i, draft[c].payload>>}
    /\ UNCHANGED <<state, current, selection, accepted>>

(* A delegate moves to its next key, and a verifier to the key in use.     *)
Rekey(i) ==
    /\ current[i] < LastEpoch[i]
    /\ current' = [current EXCEPT ![i] = @ + 1]
    /\ UNCHANGED <<state, draft, selection, accepted, signed>>

Select(v, i) ==
    /\ selection' = [selection EXCEPT ![v][i] = current[i]]
    /\ UNCHANGED <<state, draft, current, accepted, signed>>

(* What decodes from the bytes of a copy: the copy, or one with approvals  *)
(* of another copy as well, with an approval twice, or with one under      *)
(* another identity or epoch, in its place or besides.                     *)
Labels == UNION {{<<i, e>> : e \in 0 .. LastEpoch[i]} : i \in Identity}

Again(a) == Approval(a.identity, a.epoch, a.key, a.over, TRUE)

Relabelled(a, l) == Approval(l[1], l[2], a.key, a.over, a.again)

Arriving(c) ==
    LET own == draft[c].approvals
        altered ==
            {own}
            \cup {own \cup draft[b].approvals : b \in {x \in Draft : draft[x] # None}}
            \cup {own \cup {Again(a)} : a \in own}
            \cup {(own \ {a}) \cup {Relabelled(a, l)} : a \in own, l \in Labels}
            \cup {own \cup {Relabelled(a, l)} : a \in own, l \in Labels}
    IN  {[payload |-> draft[c].payload, approvals |-> approvals] : approvals \in altered}

Accept(v, c) ==
    /\ draft[c] # None
    /\ \E t \in Arriving(c) :
        /\ Verifies(t, state[v], selection[v])
        /\ state' = [state EXCEPT ![v] = After(t)]
        /\ accepted' = [accepted EXCEPT ![v] = @ \cup {t}]
    /\ UNCHANGED <<draft, current, selection, signed>>

Next ==
    \/ \E v \in Verifier, c \in Draft : Accept(v, c) \/ \E d \in Document : Propose(v, c, d)
    \/ \E i \in Identity, c \in Draft : Approve(i, c)
    \/ \E i \in Identity : Rekey(i) \/ \E v \in Verifier : Select(v, i)

Spec == Init /\ [][Next]_vars

-----------------------------------------------------------------------------
(* The policy a transition had to satisfy, and who of its delegates really *)
(* approved its payload.                                                   *)
PolicyOver(t) ==
    IF t.payload.sequence = 1 THEN Founding ELSE t.payload.parent.payload.document

Signers(t) ==
    {i \in PolicyOver(t).delegates : <<i, t.payload>> \in signed}

(* Every state is the founding one or the one its transition says, with a  *)
(* document that validates, and the sequence stays below the maximum.      *)
TypeOK ==
    /\ \A v \in Verifier :
        /\ state[v].sequence \in 0 .. MaxSequence
        /\ Valid(state[v].document)
        /\ \/ state[v] = Initial
           \/ state[v].sequence > 0 /\ state[v] = After(state[v].transition)
    /\ \A i \in Identity : current[i] \in 0 .. LastEpoch[i]
    /\ \A v \in Verifier, i \in Identity : selection[v][i] \in (0 .. LastEpoch[i]) \cup {None}

(* repository-identity.md: each transition a verifier accepted was really  *)
(* approved, for its own payload, by a threshold of the delegates of the   *)
(* state before it, however copies were merged, repeated, relabelled or    *)
(* carried on by delegates they admit themselves.  This is for identities  *)
(* with keys of their own (KeysOwn).  Of two that share a key one approval *)
(* counts for both once it is relabelled, against repository-identity.md:  *)
(* 94-97: a signing frame that names its signer is still to come           *)
(* (tasks.md:94).                                                          *)
GovernedByPrior ==
    \A v \in Verifier : \A t \in accepted[v] :
        Cardinality(Signers(t)) >= PolicyOver(t).threshold

(* Verifiers that were led to rival documents after one state can name the *)
(* delegates that signed both: the two thresholds must overlap.            *)
RivalsShareSigners ==
    \A v, w \in Verifier : \A t \in accepted[v], u \in accepted[w] :
        /\ t.payload.sequence = u.payload.sequence
        /\ t.payload.parent = u.payload.parent
        /\ t.payload # u.payload
        => Cardinality(Signers(t) \cap Signers(u)) + Cardinality(PolicyOver(t).delegates)
                >= 2 * PolicyOver(t).threshold

(* A verifier moves along one line, whatever drafts it is given: what it   *)
(* accepted leads from the root to its state, link by link, with one       *)
(* transition for each sequence number.                                    *)
OneLine ==
    \A v \in Verifier :
        /\ state[v] # Initial => state[v].transition \in accepted[v]
        /\ \A t \in accepted[v] :
            /\ t.payload.sequence \in 1 .. state[v].sequence
            /\ IF t.payload.sequence = 1 THEN t.payload.parent = Root
               ELSE /\ t.payload.parent \in accepted[v]
                    /\ t.payload.sequence = t.payload.parent.payload.sequence + 1
        /\ \A t, u \in accepted[v] : t.payload.sequence = u.payload.sequence => t = u
=============================================================================
