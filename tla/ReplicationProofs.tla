-------------------------- MODULE ReplicationProofs --------------------------
(***************************************************************************)
(* Proofs about Replication, for every set of operators, commits and       *)
(* transitions and every order, repetition and loss of transfers.          *)
(***************************************************************************)
EXTENDS Replication, SignedHistoryProofs, FiniteSetTheorems

USE DEF StateId, Operator

-----------------------------------------------------------------------------
(* The ancestry of a state.                                                *)

(* The recursive definition of Ancestry has a solution, the lineage of     *)
(* each state, so Ancestry is one.                                         *)
LEMMA AncestryUnfolds ==
    \A h \in StateId :
        Ancestry[h] = IF h = None THEN {} ELSE {h} \cup Ancestry[Payload[h].parent]
<1> DEFINE Unfolds(f) == f = [h \in StateId |-> IF h = None THEN {} ELSE {h} \cup f[Payload[h].parent]]
           line == [h \in StateId |-> Lineage(h)]
<1>1. Unfolds(line)
  <2>1. ASSUME NEW h \in StateId
        PROVE Lineage(h) = IF h = None THEN {} ELSE {h} \cup line[Payload[h].parent]
    <3>1. CASE h = None
      BY <3>1, LineageNothing, NoneAssumption
    <3>2. CASE h # None
      <4>1. h \in Transition /\ Payload[h].parent \in StateId
        BY <3>2, PayloadAssumption
      <4>2. Lineage(h) = {h} \cup Lineage(Payload[h].parent)
        BY <4>1, LineageOfChild
      <4> QED BY <3>2, <4>1, <4>2
    <3> QED BY <3>1, <3>2
  <2> QED BY <2>1
<1>2. Ancestry = CHOOSE f : Unfolds(f)
  BY DEF Ancestry
<1>3. Unfolds(Ancestry)
  <2> HIDE DEF Unfolds
  <2> QED BY <1>1, <1>2
<1> QED BY <1>3

(* A state's ancestry holds the state; a child adds itself to it. *)
LEMMA AncestryOfChild ==
    ASSUME NEW t \in Transition
    PROVE t \in Ancestry[t] /\ Ancestry[t] = {t} \cup Ancestry[Payload[t].parent]
BY AncestryUnfolds, NoneAssumption

LEMMA AncestryOfNone == Ancestry[None] = {}
BY AncestryUnfolds

-----------------------------------------------------------------------------
(* The inductive invariant.                                                *)

(* What an operator accepted is complete in its store. *)
StoresClosed ==
    \A o \in Operator, p \in Publisher : Reach(Targets(accepted[o][p])) \subseteq objects[o]

(* A transfer carries a transition its publisher has committed. *)
TransfersCommitted ==
    \A m \in transfers : m.transition \in Ancestry[accepted[Sender(m)][Sender(m)]]

(* A process without a context has derived nothing. *)
ContextOnly == \A o \in Operator : canonical[o] # None => ready[o]

ReplicationInv ==
    /\ TypeOK
    /\ StoresClosed
    /\ TransfersCommitted
    /\ ContextOnly
    /\ ReplicaFollowsPublisher
    /\ CanonicalHasQuorum
    /\ CanonicalStored

-----------------------------------------------------------------------------
(* The steps.                                                              *)

(* Operator o accepts the child t of what it accepted from t's publisher:  *)
(* it publishes t, or t was committed by its publisher before.             *)
Accepts(o, t) ==
    LET p == Payload[t].publisher IN
    /\ t \in Transition
    /\ SignedFor(t, Selection[p]) /\ Extends(t, accepted[o][p])
    /\ Payload[t].parent = accepted[o][p]
    /\ accepted' = [accepted EXCEPT ![o][p] = t]
    /\ \E S \in SUBSET Object : objects' = [objects EXCEPT ![o] = @ \cup S]
    /\ Reach(Targets(t)) \subseteq objects'[o]
    /\ o = p \/ t \in Ancestry[accepted[p][p]]
    /\ UNCHANGED <<ready, canonical, announced>>

LEMMA CommitAccepts ==
    ASSUME TypeOK, NEW o \in Operator, NEW t \in Transition, NEW incoming \in SUBSET Object,
           Commit(o, t, incoming), SignedFor(t, Selection[Payload[t].publisher]),
           Extends(t, accepted[o][Payload[t].publisher]),
           o = Payload[t].publisher \/ t \in Ancestry[accepted[Payload[t].publisher][Payload[t].publisher]],
           UNCHANGED <<ready, canonical, announced>>
    PROVE Accepts(o, t)
<1>1. objects' = [objects EXCEPT ![o] = @ \cup incoming]
  BY DEF Commit
<1>2. Reach(Targets(t)) \subseteq objects'[o]
  BY <1>1 DEF Commit, TypeOK
<1> QED BY <1>1, <1>2 DEF Accepts, Commit, Extends

LEMMA PublishAccepts ==
    ASSUME TypeOK, NEW o \in Operator, NEW x \in Object, PublishCommit(o, x) \/ PublishTarget(o, x)
    PROVE \E t \in Transition :
            /\ Accepts(o, t)
            /\ Payload[t].publisher = o
            /\ \A m \in transfers' : m \in transfers \/
                    \E pack, needs \in SUBSET Object : m = Transfer(t, pack, needs)
<1>1. PICK t \in Transition, incoming \in SUBSET Object, needs \in SUBSET Object :
        /\ SignsNext(o, t, x)
        /\ Commit(o, t, incoming)
        /\ Export(Transfer(t, incoming, needs))
        /\ UNCHANGED <<ready, canonical, announced>>
  <2>1. CASE PublishCommit(o, x)
    BY <2>1, LinksAssumption DEF PublishCommit
  <2>2. CASE PublishTarget(o, x)
    BY <2>2 DEF PublishTarget
  <2> QED BY <2>1, <2>2
<1>2. Payload[t].publisher = o /\ SignedFor(t, Selection[o]) /\ Extends(t, accepted[o][o])
  BY <1>1, SelectionAssumption DEF SignsNext, SignedFor
<1>3. Accepts(o, t)
  BY <1>1, <1>2, CommitAccepts
<1>4. \A m \in transfers' : m \in transfers \/ m = Transfer(t, incoming, needs)
  BY <1>1 DEF Export
<1> QED BY <1>2, <1>3, <1>4

LEMMA ApplyAccepts ==
    ASSUME ReplicationInv, NEW o \in Operator, NEW m \in transfers, Apply(o, m)
    PROVE Accepts(o, m.transition) /\ transfers' = transfers
<1> DEFINE t == m.transition
           p == Payload[t].publisher
<1>1. t \in Transition /\ p \in Publisher /\ m.pack \subseteq Object
  BY PayloadAssumption DEF ReplicationInv, TypeOK
<1>2. Verifies(t, Selection[p], Selection[p], accepted[o][p])
  BY DEF Apply, ApplyOutcome, Sender
<1>3. t \in Ancestry[accepted[p][p]]
  BY DEF ReplicationInv, TransfersCommitted, Sender
<1>4. Commit(o, t, m.pack) /\ UNCHANGED <<ready, canonical, announced, transfers>>
  BY DEF Apply
<1> QED BY <1>1, <1>2, <1>3, <1>4, CommitAccepts DEF ReplicationInv, Verifies

(* Every step accepts a transition, derives a canonical head, or touches   *)
(* the process only.                                                       *)
LEMMA StepKinds ==
    ASSUME ReplicationInv, [Next]_vars
    PROVE \/ \E o \in Operator, t \in Transition :
                /\ Accepts(o, t)
                /\ \A m \in transfers' : m \in transfers \/
                        /\ Payload[t].publisher = o
                        /\ \E pack, needs \in SUBSET Object : m = Transfer(t, pack, needs)
          \/ \E o \in Operator, asked \in SUBSET Publisher : QueryState(o, asked)
          \/ \E o \in Operator : Initialize(o) \/ Restart(o)
          \/ UNCHANGED vars
<1>1. ASSUME NEW o \in Operator, NEW x \in Object, PublishCommit(o, x) \/ PublishTarget(o, x)
      PROVE \E t \in Transition :
                /\ Accepts(o, t)
                /\ \A m \in transfers' : m \in transfers \/
                        /\ Payload[t].publisher = o
                        /\ \E pack, needs \in SUBSET Object : m = Transfer(t, pack, needs)
  BY <1>1, PublishAccepts DEF ReplicationInv
<1>2. ASSUME NEW o \in Operator, NEW m \in transfers, Apply(o, m)
      PROVE m.transition \in Transition /\ Accepts(o, m.transition) /\ transfers' = transfers
  BY <1>2, ApplyAccepts DEF ReplicationInv, TypeOK
<1> QED BY <1>1, <1>2 DEF Next

-----------------------------------------------------------------------------
(* Accepting a transition keeps the invariant.                             *)

(* One accepted state changes, to its child, and stores only grow.         *)
LEMMA AcceptEffect ==
    ASSUME TypeOK, NEW o \in Operator, NEW t \in Transition, Accepts(o, t)
    PROVE /\ accepted' \in [Operator -> [Publisher -> StateId]]
          /\ objects' \in [Operator -> SUBSET Object]
          /\ accepted'[o][Payload[t].publisher] = t
          /\ \A q \in Operator, p \in Publisher :
                (q # o \/ p # Payload[t].publisher) => accepted'[q][p] = accepted[q][p]
          /\ \A q \in Operator : objects[q] \subseteq objects'[q]
<1> DEFINE p == Payload[t].publisher
<1>1. p \in Publisher
  BY PayloadAssumption
<1>2. accepted' = [accepted EXCEPT ![o][p] = t] /\ accepted \in [Operator -> [Publisher -> StateId]]
  BY DEF Accepts, TypeOK
<1>3. PICK S \in SUBSET Object : objects' = [objects EXCEPT ![o] = @ \cup S]
  BY DEF Accepts
<1>4. objects \in [Operator -> SUBSET Object]
  BY DEF TypeOK
<1>5. objects' \in [Operator -> SUBSET Object] /\ \A q \in Operator : objects[q] \subseteq objects'[q]
  BY <1>3, <1>4
<1> HIDE DEF p
<1>6. /\ accepted' \in [Operator -> [Publisher -> StateId]]
      /\ accepted'[o][p] = t
      /\ \A q \in Operator, r \in Publisher : (q # o \/ r # p) => accepted'[q][r] = accepted[q][r]
  BY <1>1, <1>2
<1> QED BY <1>5, <1>6 DEF p

(* What an operator had accepted stays on its history. *)
LEMMA AncestryGrows ==
    ASSUME TypeOK, NEW o \in Operator, NEW t \in Transition, Accepts(o, t),
           NEW q \in Operator, NEW p \in Publisher
    PROVE Ancestry[accepted[q][p]] \subseteq Ancestry[accepted'[q][p]]
<1>1. CASE q = o /\ p = Payload[t].publisher
  <2>1. accepted'[q][p] = t /\ Payload[t].parent = accepted[q][p]
    BY <1>1, AcceptEffect DEF Accepts
  <2> QED BY <2>1, AncestryOfChild
<1>2. CASE q # o \/ p # Payload[t].publisher
  BY <1>2, AcceptEffect
<1> QED BY <1>1, <1>2

LEMMA AcceptKeepsStoresClosed ==
    ASSUME ReplicationInv, NEW o \in Operator, NEW t \in Transition, Accepts(o, t)
    PROVE StoresClosed'
<1> SUFFICES ASSUME NEW q \in Operator, NEW p \in Publisher
             PROVE Reach(Targets(accepted'[q][p])) \subseteq objects'[q]
  BY DEF StoresClosed
<1>1. TypeOK
  BY DEF ReplicationInv
<1>2. CASE q = o /\ p = Payload[t].publisher
  BY <1>1, <1>2, AcceptEffect DEF Accepts
<1>3. CASE q # o \/ p # Payload[t].publisher
  <2>1. accepted'[q][p] = accepted[q][p] /\ objects[q] \subseteq objects'[q]
    BY <1>1, <1>3, AcceptEffect
  <2> QED BY <2>1 DEF ReplicationInv, StoresClosed
<1> QED BY <1>2, <1>3

(* A publisher's child of its own state extends its history; a transition  *)
(* accepted from another publisher was on that publisher's history before. *)
LEMMA AcceptKeepsReplicasBehind ==
    ASSUME ReplicationInv, NEW o \in Operator, NEW t \in Transition, Accepts(o, t)
    PROVE ReplicaFollowsPublisher'
<1> SUFFICES ASSUME NEW q \in Operator, NEW p \in Publisher
             PROVE Ancestry[accepted'[q][p]] \subseteq Ancestry[accepted'[p][p]]
  BY DEF ReplicaFollowsPublisher
<1>1. TypeOK
  BY DEF ReplicationInv
<1>2. Ancestry[accepted[q][p]] \subseteq Ancestry[accepted[p][p]]
  BY DEF ReplicationInv, ReplicaFollowsPublisher
<1>3. Ancestry[accepted[p][p]] \subseteq Ancestry[accepted'[p][p]]
  BY <1>1, AncestryGrows
<1>4. CASE q = p
  BY <1>4
<1>5. CASE q = o /\ p = Payload[t].publisher /\ q # p
  <2>1. t \in Ancestry[accepted[p][p]] /\ Payload[t].parent = accepted[q][p]
    BY <1>5 DEF Accepts
  <2>2. Ancestry[t] = {t} \cup Ancestry[accepted[q][p]]
    BY <2>1, AncestryOfChild
  <2>3. accepted'[q][p] = t
    BY <1>1, <1>5, AcceptEffect
  <2> QED BY <1>2, <1>3, <2>1, <2>2, <2>3
<1>6. CASE q # o \/ p # Payload[t].publisher
  <2>1. accepted'[q][p] = accepted[q][p]
    BY <1>1, <1>6, AcceptEffect
  <2> QED BY <1>2, <1>3, <2>1
<1> QED BY <1>4, <1>5, <1>6

(* The signatures behind a head are only added to. *)
LEMMA AcceptKeepsQuorum ==
    ASSUME ReplicationInv, NEW o \in Operator, NEW t \in Transition, Accepts(o, t)
    PROVE CanonicalHasQuorum' /\ CanonicalStored'
<1> SUFFICES ASSUME NEW q \in Operator, canonical'[q] # None
             PROVE /\ Cardinality({d \in Delegate : \E u \in Ancestry[accepted'[q][d]] :
                                    Payload[u].refs[DefaultBranch] = canonical'[q]}) >= Threshold
                   /\ Reach({canonical'[q]}) \subseteq objects'[q]
  BY DEF CanonicalHasQuorum, CanonicalStored
<1> DEFINE V == {d \in Delegate : \E u \in Ancestry[accepted[q][d]] :
                    Payload[u].refs[DefaultBranch] = canonical[q]}
           W == {d \in Delegate : \E u \in Ancestry[accepted'[q][d]] :
                    Payload[u].refs[DefaultBranch] = canonical[q]}
<1>1. TypeOK /\ canonical' = canonical
  BY DEF ReplicationInv, Accepts
<1>2. V \subseteq W
  BY <1>1, AncestryGrows, IdentityAssumption
<1>3. IsFiniteSet(W)
  BY FS_Subset, IdentityAssumption
<1>4. Cardinality(V) <= Cardinality(W) /\ Cardinality(V) \in Nat /\ Cardinality(W) \in Nat
  BY <1>2, <1>3, FS_Subset, FS_CardinalityType
<1>5. Cardinality(V) >= Threshold
  BY <1>1 DEF ReplicationInv, CanonicalHasQuorum
<1>6. Threshold \in Nat
  BY IdentityAssumption, FS_CardinalityType
<1>7. Cardinality(W) >= Threshold
  <2> HIDE DEF V, W
  <2> QED BY <1>4, <1>5, <1>6
<1>8. Reach({canonical[q]}) \subseteq objects'[q]
  <2>1. objects[q] \subseteq objects'[q]
    BY <1>1, AcceptEffect
  <2> QED BY <1>1, <2>1 DEF ReplicationInv, CanonicalStored
<1> QED BY <1>1, <1>7, <1>8

(* Every transfer that leaves with the step carries the committed child.   *)
LEMMA AcceptKeepsTransfers ==
    ASSUME ReplicationInv, NEW o \in Operator, NEW t \in Transition, Accepts(o, t),
           \A m \in transfers' : m \in transfers \/
                /\ Payload[t].publisher = o
                /\ \E pack, needs \in SUBSET Object : m = Transfer(t, pack, needs)
    PROVE /\ TransfersCommitted'
          /\ \A m \in transfers' :
                m.transition \in Transition /\ m.pack \subseteq Object /\ m.needs \subseteq Object
<1> SUFFICES ASSUME NEW m \in transfers'
             PROVE /\ m.transition \in Ancestry[accepted'[Sender(m)][Sender(m)]]
                   /\ m.transition \in Transition /\ m.pack \subseteq Object /\ m.needs \subseteq Object
  BY DEF TransfersCommitted
<1>1. TypeOK
  BY DEF ReplicationInv
<1>2. CASE m \in transfers
  <2>1. m.transition \in Transition /\ m.pack \subseteq Object /\ m.needs \subseteq Object
    BY <1>1, <1>2 DEF TypeOK
  <2>2. Sender(m) \in Publisher
    BY <2>1, PayloadAssumption DEF Sender
  <2>3. m.transition \in Ancestry[accepted[Sender(m)][Sender(m)]]
    BY <1>2 DEF ReplicationInv, TransfersCommitted
  <2> QED BY <1>1, <2>1, <2>2, <2>3, AncestryGrows
<1>3. CASE /\ Payload[t].publisher = o
           /\ \E pack, needs \in SUBSET Object : m = Transfer(t, pack, needs)
  <2>1. m.transition = t /\ m.pack \subseteq Object /\ m.needs \subseteq Object
    BY <1>3 DEF Transfer
  <2>2. accepted'[o][o] = t /\ Sender(m) = o
    BY <1>1, <1>3, <2>1, AcceptEffect DEF Sender
  <2> QED BY <2>1, <2>2, AncestryOfChild
<1> QED BY <1>2, <1>3

LEMMA AcceptKeepsInv ==
    ASSUME ReplicationInv, NEW o \in Operator, NEW t \in Transition, Accepts(o, t),
           \A m \in transfers' : m \in transfers \/
                /\ Payload[t].publisher = o
                /\ \E pack, needs \in SUBSET Object : m = Transfer(t, pack, needs)
    PROVE ReplicationInv'
<1>1. TypeOK /\ ContextOnly
  BY DEF ReplicationInv
<1>2. UNCHANGED <<ready, canonical, announced>>
  BY DEF Accepts
<1>3. /\ accepted' \in [Operator -> [Publisher -> StateId]]
      /\ objects' \in [Operator -> SUBSET Object]
  BY <1>1, AcceptEffect
<1>4. TransfersCommitted' /\ \A m \in transfers' :
        m.transition \in Transition /\ m.pack \subseteq Object /\ m.needs \subseteq Object
  BY AcceptKeepsTransfers
<1>5. TypeOK'
  BY <1>1, <1>2, <1>3, <1>4 DEF TypeOK
<1>6. ContextOnly'
  BY <1>1, <1>2 DEF ContextOnly
<1> QED BY <1>4, <1>5, <1>6, AcceptKeepsStoresClosed, AcceptKeepsReplicasBehind,
           AcceptKeepsQuorum DEF ReplicationInv

-----------------------------------------------------------------------------
(* Deriving a canonical head.                                              *)

(* Acting on derive_canonical_head keeps the previous head or takes one    *)
(* that qualifies and descends from it.                                    *)
LEMMA HeadDerived ==
    ASSUME NEW states, NEW previous
    PROVE LET head == HeadAfter(DeriveCanonicalHead(states, previous), previous) IN
          \/ head = previous
          \/ head \in Qualifying(states) /\ (previous = None \/ IsDescendant(previous, head))
<1> DEFINE Q == Qualifying(states)
           candidate == CHOOSE x \in Q : TRUE
<1>1. CASE Cardinality(Q) = 1
  <2>1. Q # {}
    BY <1>1, FS_EmptySet
  <2>2. candidate \in Q
    BY <2>1
  <2>3. CASE previous = candidate
    BY <1>1, <2>3 DEF DeriveCanonicalHead, HeadAfter, Retain
  <2>4. CASE previous # candidate /\ previous # None /\ ~IsDescendant(previous, candidate)
    BY <1>1, <2>4 DEF DeriveCanonicalHead, HeadAfter, Diverged
  <2>5. CASE previous # candidate /\ (previous = None \/ IsDescendant(previous, candidate))
    <3>1. DeriveCanonicalHead(states, previous) = Advance(candidate)
      BY <1>1, <2>5 DEF DeriveCanonicalHead
    <3>2. HeadAfter(DeriveCanonicalHead(states, previous), previous) = candidate
      BY <3>1 DEF HeadAfter, Advance
    <3> QED BY <2>2, <2>5, <3>2
  <2> QED BY <2>3, <2>4, <2>5
<1>2. CASE Cardinality(Q) # 1
  BY <1>2 DEF DeriveCanonicalHead, HeadAfter, Retain, NoAgreement
<1> QED BY <1>1, <1>2

(* A voter of a derived head has accepted history that points to it.       *)
LEMMA VotersAccepted ==
    ASSUME TypeOK, NEW o \in Operator, NEW asked \in SUBSET Publisher, NEW x \in Object,
           NEW d \in Voters(StatesOf(o, asked), x)
    PROVE /\ d \in Delegate /\ d \in Publisher
          /\ accepted[o][d] \in Transition
          /\ RefsOf(accepted[o][d])[DefaultBranch] = x
          /\ Payload[accepted[o][d]].refs[DefaultBranch] = x
<1> DEFINE h == IF d \in asked THEN accepted[o][d] ELSE None
<1>1. d \in Delegate /\ d \in Publisher /\ DefaultBranch \in RefName
  BY IdentityAssumption DEF Voters
<1>2. RefsOf(h)[DefaultBranch] = x
  BY <1>1 DEF Voters, StatesOf
<1>3. accepted[o][d] \in StateId
  BY <1>1 DEF TypeOK
<1>4. h # None
  BY <1>1, <1>2, NoneAssumption DEF RefsOf, NoRefs
<1>5. h = accepted[o][d]
  BY <1>4
<1> QED BY <1>1, <1>2, <1>3, <1>4, <1>5 DEF RefsOf

(* Threshold delegates vouch for a qualifying head, and one of them shows  *)
(* that its objects are stored.                                            *)
LEMMA QualifyingBacked ==
    ASSUME ReplicationInv, NEW o \in Operator, NEW asked \in SUBSET Publisher,
           NEW x \in Qualifying(StatesOf(o, asked))
    PROVE /\ x \in Object
          /\ Cardinality({d \in Delegate : \E u \in Ancestry[accepted[o][d]] :
                            Payload[u].refs[DefaultBranch] = x}) >= Threshold
          /\ Reach({x}) \subseteq objects[o]
<1> DEFINE V == Voters(StatesOf(o, asked), x)
           W == {d \in Delegate : \E u \in Ancestry[accepted[o][d]] :
                    Payload[u].refs[DefaultBranch] = x}
<1>1. TypeOK /\ x \in Object /\ Cardinality(V) >= Threshold
  BY DEF ReplicationInv, Qualifying
<1>2. V \subseteq W
  BY <1>1, VotersAccepted, AncestryOfChild
<1>3. IsFiniteSet(W) /\ IsFiniteSet(V)
  BY <1>2, FS_Subset, IdentityAssumption
<1>4. /\ Cardinality(V) <= Cardinality(W) /\ Cardinality(V) \in Nat /\ Cardinality(W) \in Nat
      /\ Threshold \in Nat /\ Threshold >= 1
  BY <1>2, <1>3, FS_Subset, FS_CardinalityType, IdentityAssumption
<1>5. V # {}
  <2> HIDE DEF V, W
  <2> SUFFICES ASSUME V = {} PROVE FALSE
    OBVIOUS
  <2>1. Cardinality(V) = 0
    BY <1>3, FS_EmptySet
  <2> QED BY <1>1, <1>4, <2>1
<1>6. PICK d \in V : TRUE
  BY <1>5
<1>7. /\ d \in Publisher /\ DefaultBranch \in RefName
      /\ RefsOf(accepted[o][d])[DefaultBranch] = x
  BY <1>1, <1>6, VotersAccepted, IdentityAssumption
<1>8. Reach({x}) \subseteq Reach(Targets(accepted[o][d]))
  BY <1>1, <1>7, NoneAssumption, ReachTarget
<1>9. Reach({x}) \subseteq objects[o]
  BY <1>7, <1>8 DEF ReplicationInv, StoresClosed
<1>10. Cardinality(W) >= Threshold
  <2> HIDE DEF V, W
  <2> QED BY <1>1, <1>4
<1> QED BY <1>1, <1>9, <1>10

LEMMA QueryKeepsInv ==
    ASSUME ReplicationInv, NEW o \in Operator, NEW asked \in SUBSET Publisher, QueryState(o, asked)
    PROVE ReplicationInv'
<1> DEFINE head == CanonicalAfter(o, asked)
<1>1. /\ TypeOK /\ ready[o]
      /\ canonical' = [canonical EXCEPT ![o] = head]
      /\ announced' = [announced EXCEPT ![o] = head]
      /\ UNCHANGED <<accepted, objects, ready, transfers>>
  BY DEF ReplicationInv, QueryState
<1>2. head = canonical[o] \/ head \in Qualifying(StatesOf(o, asked))
  BY HeadDerived DEF CanonicalAfter
<1> HIDE DEF head
<1>3. canonical[o] \in Object \cup {None}
  BY <1>1 DEF TypeOK
<1>4. head \in Object \cup {None}
  BY <1>2, <1>3, QualifyingBacked
<1>5. /\ canonical' \in [Operator -> Object \cup {None}] /\ canonical'[o] = head
      /\ announced' \in [Operator -> Object \cup {None}]
      /\ \A q \in Operator : q # o => canonical'[q] = canonical[q]
  BY <1>1, <1>4 DEF TypeOK
<1>6. TypeOK'
  BY <1>1, <1>5 DEF TypeOK
<1>7. ContextOnly'
  BY <1>1, <1>5 DEF ReplicationInv, ContextOnly
<1>8. CanonicalHasQuorum' /\ CanonicalStored'
  <2> SUFFICES ASSUME NEW q \in Operator, canonical'[q] # None
               PROVE /\ Cardinality({d \in Delegate : \E u \in Ancestry[accepted[q][d]] :
                                    Payload[u].refs[DefaultBranch] = canonical'[q]}) >= Threshold
                     /\ Reach({canonical'[q]}) \subseteq objects[q]
    BY <1>1 DEF CanonicalHasQuorum, CanonicalStored
  <2>1. CASE canonical'[q] = canonical[q]
    BY <2>1 DEF ReplicationInv, CanonicalHasQuorum, CanonicalStored
  <2>2. CASE q = o /\ head \in Qualifying(StatesOf(o, asked))
    BY <1>5, <2>2, QualifyingBacked
  <2> QED BY <1>2, <1>5, <2>1, <2>2
<1>9. StoresClosed' /\ TransfersCommitted' /\ ReplicaFollowsPublisher'
  <2>1. StoresClosed /\ TransfersCommitted /\ ReplicaFollowsPublisher
    BY DEF ReplicationInv
  <2>2. StoresClosed'
    BY <1>1, <2>1 DEF StoresClosed
  <2>3. TransfersCommitted'
    BY <1>1, <2>1 DEF TransfersCommitted
  <2>4. ReplicaFollowsPublisher'
    BY <1>1, <2>1 DEF ReplicaFollowsPublisher
  <2> QED BY <2>2, <2>3, <2>4
<1> QED BY <1>6, <1>7, <1>8, <1>9 DEF ReplicationInv

-----------------------------------------------------------------------------
(* The theorems.                                                           *)

LEMMA ContextKeepsInv ==
    ASSUME ReplicationInv, NEW o \in Operator, Initialize(o) \/ Restart(o)
    PROVE ReplicationInv'
<1>1. /\ TypeOK /\ StoresClosed /\ TransfersCommitted /\ ContextOnly
      /\ ReplicaFollowsPublisher /\ CanonicalHasQuorum /\ CanonicalStored
  BY DEF ReplicationInv
<1>2. /\ UNCHANGED <<accepted, objects, announced, transfers>>
      /\ ready' \in [Operator -> BOOLEAN]
      /\ canonical' \in [Operator -> Object \cup {None}]
      /\ \A q \in Operator : canonical'[q] = canonical[q] \/ canonical'[q] = None
  BY <1>1 DEF Initialize, Restart, TypeOK
<1>3. ContextOnly'
  BY <1>1 DEF Initialize, Restart, ContextOnly, TypeOK
<1>4. TypeOK' /\ StoresClosed' /\ TransfersCommitted' /\ ReplicaFollowsPublisher'
  BY <1>1, <1>2 DEF TypeOK, StoresClosed, TransfersCommitted, ReplicaFollowsPublisher
<1>5. CanonicalHasQuorum' /\ CanonicalStored'
  BY <1>1, <1>2 DEF CanonicalHasQuorum, CanonicalStored
<1> QED BY <1>3, <1>4, <1>5 DEF ReplicationInv

LEMMA InitHoldsInv == Init => ReplicationInv
<1> SUFFICES ASSUME Init PROVE ReplicationInv
  OBVIOUS
<1>1. TypeOK
  BY DEF Init, TypeOK
<1>2. StoresClosed
  BY ReachNothing DEF Init, StoresClosed
<1>3. TransfersCommitted /\ ContextOnly /\ CanonicalHasQuorum /\ CanonicalStored
  BY DEF Init, TransfersCommitted, ContextOnly, CanonicalHasQuorum, CanonicalStored
<1>4. ReplicaFollowsPublisher
  BY DEF Init, ReplicaFollowsPublisher
<1> QED BY <1>1, <1>2, <1>3, <1>4 DEF ReplicationInv

LEMMA StepKeepsInv == ReplicationInv /\ [Next]_vars => ReplicationInv'
<1> SUFFICES ASSUME ReplicationInv, [Next]_vars PROVE ReplicationInv'
  OBVIOUS
<1>1. ASSUME UNCHANGED vars PROVE ReplicationInv'
  BY <1>1 DEF vars, ReplicationInv, TypeOK, StoresClosed, TransfersCommitted, ContextOnly,
              ReplicaFollowsPublisher, CanonicalHasQuorum, CanonicalStored
<1> QED BY <1>1, StepKinds, AcceptKeepsInv, QueryKeepsInv, ContextKeepsInv

LEMMA InvAlways == Spec => []ReplicationInv
BY InitHoldsInv, StepKeepsInv, PTL DEF Spec

(* Accepted states, stores, canonical heads and transfers keep their types *)
(* in every step of every operator.                                        *)
THEOREM ReplicationTypeCorrect == Spec => []TypeOK
<1>1. ReplicationInv => TypeOK
  BY DEF ReplicationInv
<1> QED BY <1>1, InvAlways, PTL

(* No operator ever holds a state of a publisher's namespace that the      *)
(* publisher has not committed itself, for any number of operators and     *)
(* transfers lost, repeated and reordered in any way (apply_transfer).     *)
THEOREM ReplicasStayBehind == Spec => []ReplicaFollowsPublisher
<1>1. ReplicationInv => ReplicaFollowsPublisher
  BY DEF ReplicationInv
<1> QED BY <1>1, InvAlways, PTL

(* Every canonical head a context holds was signed as the default branch   *)
(* by a threshold of the delegates, whatever a state request asks for      *)
(* (derive_canonical_head).                                                *)
THEOREM CanonicalIsSigned == Spec => []CanonicalHasQuorum
<1>1. ReplicationInv => CanonicalHasQuorum
  BY DEF ReplicationInv
<1> QED BY <1>1, InvAlways, PTL

(* Everything reachable from a canonical head is in the operator's store,  *)
(* so the ancestry check of the next derivation reads a complete graph.    *)
THEOREM CanonicalIsComplete == Spec => []CanonicalStored
<1>1. ReplicationInv => CanonicalStored
  BY DEF ReplicationInv
<1> QED BY <1>1, InvAlways, PTL

-----------------------------------------------------------------------------
(* Every operator's store is an instance of AcceptedHistory.               *)

(* The operators of the abstract specification are those of the store.     *)
LEMMA StoreOperators ==
    ASSUME NEW o \in Operator
    PROVE /\ \A t, s : Store(o)!SignedFor(t, s) <=> SignedFor(t, s)
          /\ \A t, h : Store(o)!Extends(t, h) <=> Extends(t, h)
          /\ \A t : Store(o)!Reach(Store(o)!Targets(t)) = Reach(Targets(t))
<1>1. \A t, s : Store(o)!SignedFor(t, s) <=> SignedFor(t, s)
  BY DEF Store!SignedFor, SignedFor
<1>2. \A t, h : Store(o)!Extends(t, h) <=> Extends(t, h)
  BY DEF Store!Extends, Extends, Store!Exhausted, Exhausted, Store!NextSequence, NextSequence
<1>3. \A t : Store(o)!Targets(t) = Targets(t)
  BY DEF Store!Targets, Targets, Store!RefsOf, RefsOf, Store!NoRefs, NoRefs
<1>4. \A S : Store(o)!Reach(S) = Reach(S)
  BY DEF Store!Reach, Reach, Store!LinkClosed, LinkClosed
<1> QED BY <1>1, <1>2, <1>3, <1>4

LEMMA InitStores == ASSUME Init, NEW o \in Operator PROVE Store(o)!Init
BY DEF Init, Store!Init

(* Publishing and applying are the abstract commit of the operator's own   *)
(* store; the other stores do not move.                                    *)
LEMMA StepStores ==
    ASSUME ReplicationInv, [Next]_vars, NEW o \in Operator
    PROVE Store(o)!Next \/ UNCHANGED <<accepted[o], objects[o]>>
<1>1. accepted \in [Operator -> [Publisher -> StateId]] /\ objects \in [Operator -> SUBSET Object]
  BY DEF ReplicationInv, TypeOK
<1>2. ASSUME NEW q \in Operator, NEW t \in Transition, Accepts(q, t)
      PROVE Store(o)!Next \/ UNCHANGED <<accepted[o], objects[o]>>
  <2> DEFINE p == Payload[t].publisher
  <2>1. p \in Publisher
    BY PayloadAssumption
  <2>2. PICK S \in SUBSET Object : objects' = [objects EXCEPT ![q] = @ \cup S]
    BY <1>2 DEF Accepts
  <2>3. accepted' = [accepted EXCEPT ![q][p] = t]
    BY <1>2 DEF Accepts
  <2>4. CASE q = o
    <3>1. objects'[o] = objects[o] \cup S /\ accepted'[o] = [accepted[o] EXCEPT ![p] = t]
      BY <1>1, <2>2, <2>3, <2>4
    <3>2. /\ SignedFor(t, Selection[p]) /\ Extends(t, accepted[o][p])
          /\ Reach(Targets(t)) \subseteq objects'[o]
      BY <1>2, <2>4 DEF Accepts
    <3>3. Store(o)!Accept(p, t)
      BY <3>1, <3>2, StoreOperators DEF Store!Accept
    <3> QED BY <2>1, <3>3 DEF Store!Next
  <2>5. CASE q # o
    BY <1>1, <2>2, <2>3, <2>5
  <2> QED BY <2>4, <2>5
<1>3. ASSUME UNCHANGED <<accepted, objects>>
      PROVE UNCHANGED <<accepted[o], objects[o]>>
  BY <1>3
<1> QED BY <1>2, <1>3, StepKinds DEF QueryState, Initialize, Restart, vars

(* Every operator's store behaves as one repository with atomic commits,   *)
(* which is what PublisherStore implements underneath.                     *)
THEOREM StoresCommitAtomically == Spec => CommitsAtomically
<1>1. Init => \A o \in Operator : Store(o)!Init
  BY InitStores
<1>2. ReplicationInv /\ [Next]_vars =>
        [\A o \in Operator : [Store(o)!Next]_<<accepted[o], objects[o]>>]_<<accepted, objects>>
  BY StepStores
<1> QED BY <1>1, <1>2, InvAlways, PTL DEF Spec, CommitsAtomically

(* The same as a refinement: a behaviour of the operators is, for each of  *)
(* them, a behaviour of AcceptedHistory.                                   *)
THEOREM OperatorImplementsHistory == ASSUME NEW o \in Operator PROVE Spec => Store(o)!Spec
<1>1. Init => Store(o)!Init
  BY InitStores
<1>2. ReplicationInv /\ [Next]_vars => [Store(o)!Next]_<<accepted[o], objects[o], {}>>
  BY StepStores
<1> QED BY <1>1, <1>2, InvAlways, PTL DEF Spec, Store!Spec

-----------------------------------------------------------------------------
(* The heads an operator answers with.                                     *)

(* Without restarts a context lives as long as the process, so the head it *)
(* holds is the last one it answered with.                                 *)
AnswersFromContext ==
    \A o \in Operator : announced[o] # None => ready[o] /\ canonical[o] = announced[o]

LEMMA ReachSelf == ASSUME NEW x \in Object PROVE IsDescendant(x, x)
BY DEF IsDescendant, Reach

LEMMA AnswersKept ==
    ASSUME "restart" \notin Faults, ReplicationInv, AnswersFromContext, [Next]_vars
    PROVE /\ AnswersFromContext'
          /\ \A o \in Operator : announced[o] # None =>
                announced'[o] # None /\ IsDescendant(announced[o], announced'[o])
<1>1. TypeOK
  BY DEF ReplicationInv
<1>2. ASSUME UNCHANGED announced,
             \A o \in Operator : (ready'[o] = ready[o] /\ canonical'[o] = canonical[o]) \/ ~ready[o]
      PROVE /\ AnswersFromContext'
            /\ \A o \in Operator : announced[o] # None =>
                announced'[o] # None /\ IsDescendant(announced[o], announced'[o])
  <2>1. AnswersFromContext'
    BY <1>2 DEF AnswersFromContext
  <2>2. \A o \in Operator : announced[o] # None => announced[o] \in Object
    BY <1>1 DEF TypeOK
  <2> QED BY <1>2, <2>1, <2>2, ReachSelf
<1>3. ASSUME NEW o \in Operator, NEW asked \in SUBSET Publisher, QueryState(o, asked)
      PROVE /\ AnswersFromContext'
            /\ \A q \in Operator : announced[q] # None =>
                announced'[q] # None /\ IsDescendant(announced[q], announced'[q])
  <2> DEFINE head == CanonicalAfter(o, asked)
  <2>1. /\ ready[o]
        /\ canonical' = [canonical EXCEPT ![o] = head]
        /\ announced' = [announced EXCEPT ![o] = head]
        /\ ready' = ready
    BY <1>3 DEF QueryState
  <2>2. \/ head = canonical[o]
        \/ head \in Qualifying(StatesOf(o, asked)) /\ (canonical[o] = None \/ IsDescendant(canonical[o], head))
    BY HeadDerived DEF CanonicalAfter
  <2>3. head \in Qualifying(StatesOf(o, asked)) => head # None
    BY NoneAssumption DEF Qualifying
  <2> HIDE DEF head
  <2>4. canonical'[o] = head /\ announced'[o] = head
        /\ \A q \in Operator : q # o => canonical'[q] = canonical[q] /\ announced'[q] = announced[q]
    BY <1>1, <2>1 DEF TypeOK
  <2>5. AnswersFromContext'
    BY <2>1, <2>4 DEF AnswersFromContext
  <2>6. ASSUME NEW q \in Operator, announced[q] # None
        PROVE announced'[q] # None /\ IsDescendant(announced[q], announced'[q])
    <3>1. announced[q] \in Object /\ canonical[q] = announced[q]
      BY <1>1, <2>6 DEF TypeOK, AnswersFromContext
    <3> QED BY <2>2, <2>3, <2>4, <2>6, <3>1, ReachSelf
  <2> QED BY <2>5, <2>6
<1>4. ASSUME NEW o \in Operator, NEW t \in Transition, Accepts(o, t)
      PROVE UNCHANGED <<ready, canonical, announced>>
  BY <1>4 DEF Accepts
<1>5. ASSUME NEW o \in Operator, Initialize(o)
      PROVE /\ UNCHANGED announced
            /\ \A q \in Operator : (ready'[q] = ready[q] /\ canonical'[q] = canonical[q]) \/ ~ready[q]
  BY <1>1, <1>5 DEF Initialize, TypeOK
<1>6. ASSUME NEW o \in Operator PROVE ~Restart(o)
  BY DEF Restart
<1>7. CASE UNCHANGED vars
  BY <1>2, <1>7 DEF vars
<1>8. CASE \E o \in Operator, t \in Transition : Accepts(o, t)
  BY <1>2, <1>4, <1>8
<1>9. CASE \E o \in Operator : Initialize(o)
  BY <1>2, <1>5, <1>9
<1>10. CASE \E o \in Operator, asked \in SUBSET Publisher : QueryState(o, asked)
  BY <1>3, <1>10
<1> QED BY <1>6, <1>7, <1>8, <1>9, <1>10, StepKinds

(* While no process restarts, the canonical heads an operator answers with *)
(* move along descendants only, for any repository.  With restarts they do *)
(* not: a run shows the counterexample.                                    *)
THEOREM AnswersNeverRewind == ASSUME "restart" \notin Faults PROVE Spec => CanonicalNeverRewinds
<1>1. Init => AnswersFromContext
  BY DEF Init, AnswersFromContext
<1>2. ReplicationInv /\ AnswersFromContext /\ [Next]_vars =>
        /\ AnswersFromContext'
        /\ [\A o \in Operator : announced[o] # None =>
              announced'[o] # None /\ IsDescendant(announced[o], announced'[o])]_vars
  BY AnswersKept
<1> QED BY <1>1, <1>2, InvAlways, PTL DEF Spec, CanonicalNeverRewinds
=============================================================================
