---------------------------- MODULE SignedHistory ----------------------------
(***************************************************************************)
(* The values that cross the repository layer: Git objects, signer         *)
(* bindings and the signed reference transitions of styrene-git-core, with *)
(* the verification rule every store and every receiver applies to them.   *)
(*                                                                         *)
(* A transition is a member of Transition and stands for its own           *)
(* transition id, the digest over payload and signature (refs.rs:115): two *)
(* transitions with one id are one transition.  The signed fields are      *)
(* Payload[t]; `key' is the key its signature verifies under, so a forged  *)
(* or relabelled transition is one whose key is not the selected one.      *)
(***************************************************************************)
EXTENDS Naturals

CONSTANTS
    Publisher,    \* Styrene identities that may own a namespace
    Object,       \* Git objects
    RefName,      \* reference names inside a namespace
    Transition,   \* signed reference transitions, each its own id
    Repository,   \* the id of the repository the store holds
    MaxSequence,  \* the largest sequence (u64::MAX in the code)
    None,         \* no object, no transition
    Links,        \* Links[o]: the objects the Git object o names directly
    Payload,      \* Payload[t]: the signed fields of t, and its key
    Selection     \* Selection[p]: the signer binding accepted for p

ASSUME NoneAssumption == None \notin Transition /\ None \notin Object
ASSUME SequenceAssumption == MaxSequence \in Nat
ASSUME LinksAssumption == Links \in [Object -> SUBSET Object]

RefMap == [RefName -> Object \cup {None}]

(* The accepted transition of a publisher, or None before the first one. *)
StateId == Transition \cup {None}

(* A payload lists its complete resulting reference map; names the map     *)
(* leaves out are deleted by the transition.                               *)
ASSUME PayloadAssumption ==
    \A t \in Transition :
        /\ Payload[t].publisher \in Publisher
        /\ Payload[t].parent \in StateId
        /\ Payload[t].sequence \in 0..MaxSequence
        /\ Payload[t].refs \in RefMap

ASSUME SelectionAssumption ==
    \A p \in Publisher : Selection[p].identity = p

NoRefs == [r \in RefName |-> None]

(* RefState.refs of the state a transition produced; no state, no refs. *)
RefsOf(h) == IF h = None THEN NoRefs ELSE Payload[h].refs

Targets(h) == {RefsOf(h)[r] : r \in RefName} \ {None}

-----------------------------------------------------------------------------
(* Git reachability, what `rev-list --objects --missing=error' walks: the  *)
(* least set that holds the roots and everything its members name.         *)
LinkClosed(S) == \A o \in S : Links[o] \subseteq S

Reach(roots) ==
    {o \in Object : \A S \in SUBSET Object :
                        roots \subseteq S /\ LinkClosed(S) => o \in S}

-----------------------------------------------------------------------------
(* The parent and the sequence a next transition must carry after h, and   *)
(* the checked_add that refuses to wrap at the last sequence.              *)
Exhausted(h) == h # None /\ Payload[h].sequence = MaxSequence

NextSequence(h) == IF h = None THEN 0 ELSE Payload[h].sequence + 1

(* A mutant: the parent is not compared. *)
ExtendsBySequence(t, h) == ~Exhausted(h) /\ Payload[t].sequence = NextSequence(h)

(* A mutant: the sequence wraps around. *)
ExtendsWrapping(t, h) ==
    /\ Payload[t].parent = h
    /\ Payload[t].sequence = NextSequence(h) % (MaxSequence + 1)

Extends(t, h) ==
    /\ ~Exhausted(h)
    /\ Payload[t].parent = h
    /\ Payload[t].sequence = NextSequence(h)

(* t is addressed to this repository and carries the selected signature. *)
SignedFor(t, selected) ==
    /\ Payload[t].repository = Repository
    /\ Payload[t].publisher = selected.identity
    /\ Payload[t].epoch = selected.epoch
    /\ Payload[t].key = selected.key

(* Mutants of verify: one without the signature, one without the lineage. *)
VerifiesUnsigned(t, binding, selected, h) ==
    /\ binding = selected
    /\ Payload[t].repository = Repository /\ Payload[t].publisher = selected.identity
    /\ Extends(t, h)

VerifiesSignatureOnly(t, binding, selected, h) == binding = selected /\ SignedFor(t, selected)

(* RefTransition::verify after the accepted state h. *)
Verifies(t, binding, selected, h) ==
    /\ binding = selected
    /\ SignedFor(t, selected)
    /\ Extends(t, h)

(* Every transition on the parent chain that ends in h. *)
Lineage(h) ==
    {t \in Transition : \A S \in SUBSET Transition :
        (/\ h \in Transition => h \in S
         /\ \A u \in S : Payload[u].parent \in Transition => Payload[u].parent \in S)
        => t \in S}
=============================================================================
