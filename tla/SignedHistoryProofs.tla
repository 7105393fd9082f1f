------------------------- MODULE SignedHistoryProofs -------------------------
(***************************************************************************)
(* Lemmas about the operators of SignedHistory that the proofs about the   *)
(* store and about replication share.                                      *)
(***************************************************************************)
EXTENDS SignedHistory, TLAPS

USE DEF StateId

-----------------------------------------------------------------------------
(* Reference maps and reachability.                                        *)

(* RefState.refs is a map over all names for every state, the absent one   *)
(* included.                                                               *)
LEMMA RefsOfType == ASSUME NEW h \in StateId PROVE RefsOf(h) \in RefMap
BY PayloadAssumption DEF RefsOf, NoRefs, RefMap

(* More roots reach more objects: a graph found complete below all targets *)
(* of a map is complete below each of them.                                *)
LEMMA ReachMonotone == ASSUME NEW A, NEW B, A \subseteq B PROVE Reach(A) \subseteq Reach(B)
BY DEF Reach

LEMMA ReachTarget ==
    ASSUME NEW h, NEW r \in RefName, RefsOf(h)[r] # None
    PROVE Reach({RefsOf(h)[r]}) \subseteq Reach(Targets(h))
<1>1. {RefsOf(h)[r]} \subseteq Targets(h)
  BY DEF Targets
<1> QED BY <1>1, ReachMonotone

(* The absent state lists nothing. *)
LEMMA ReachNothing == Reach(Targets(None)) = {}
<1>1. Targets(None) = {}
  BY DEF Targets, RefsOf, NoRefs
<1>2. LinkClosed({})
  BY DEF LinkClosed
<1>3. {} \in SUBSET Object
  OBVIOUS
<1> QED BY <1>1, <1>2, <1>3 DEF Reach

-----------------------------------------------------------------------------
(* The parent chain.                                                       *)

(* The absent state has no lineage. *)
LEMMA LineageNothing == ASSUME NEW h, h \notin Transition PROVE Lineage(h) = {}
<1>1. {} \in SUBSET Transition
  OBVIOUS
<1> QED BY <1>1 DEF Lineage

(* A transition is in its own lineage, and so is the parent of each member.*)
LEMMA LineageClosed ==
    ASSUME NEW h
    PROVE /\ Lineage(h) \subseteq Transition
          /\ h \in Transition => h \in Lineage(h)
          /\ \A t \in Lineage(h) : Payload[t].parent \in Transition => Payload[t].parent \in Lineage(h)
BY DEF Lineage

(* A child adds itself to the lineage of its parent, and nothing else.     *)
LEMMA LineageOfChild ==
    ASSUME NEW t \in Transition
    PROVE Lineage(t) = {t} \cup Lineage(Payload[t].parent)
<1> DEFINE h == Payload[t].parent
           S == {t} \cup Lineage(h)
<1>1. ASSUME NEW u \in Lineage(t) PROVE u \in S
  <2>1. S \in SUBSET Transition /\ t \in S
    BY LineageClosed
  <2>2. \A v \in S : Payload[v].parent \in Transition => Payload[v].parent \in S
    BY LineageClosed
  <2> HIDE DEF S
  <2> QED BY <1>1, <2>1, <2>2 DEF Lineage
<1>2. ASSUME NEW u \in Lineage(h) PROVE u \in Lineage(t)
  <2>1. SUFFICES ASSUME NEW R \in SUBSET Transition, t \in R,
                        \A v \in R : Payload[v].parent \in Transition => Payload[v].parent \in R
                 PROVE u \in R
    BY <1>2 DEF Lineage
  <2>2. h \in Transition => h \in R
    BY <2>1
  <2> QED BY <1>2, <2>1, <2>2 DEF Lineage
<1>3. t \in Lineage(t)
  BY LineageClosed
<1> QED BY <1>1, <1>2, <1>3
=============================================================================
