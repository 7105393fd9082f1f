------------------------- MODULE StoreHistoryProofs --------------------------
(***************************************************************************)
(* What the store's history of accepted transitions looks like, and that   *)
(* commit implements the atomic commits of AcceptedHistory: proofs about   *)
(* PublisherStore for every set of callers and with every fault enabled.   *)
(***************************************************************************)
EXTENDS PublisherStoreProofs

USE DEF StateId

-----------------------------------------------------------------------------
(* Which transition refs a transaction names. *)
LEMMA TransNameIs ==
    /\ \A t, u : TransName(t) = TransName(u) => t = u
    /\ \A p, t, u, old : TransName(u) \in TxnNames(p, t, old) <=> u = t
BY NamesDiffer DEF TransName, TxnNames

-----------------------------------------------------------------------------
(* The inductive invariant.                                                *)

(* The accepted lineage of a publisher is its own, each member extends its *)
(* parent, and the sequence numbers tell its members apart.                *)
LineageOrdered(p) ==
    LET line == Lineage(stateRef[p]) IN
    /\ \A t \in line :
        /\ Payload[t].publisher = p
        /\ Extends(t, Payload[t].parent)
        /\ Payload[t].sequence < NextSequence(stateRef[p])
    /\ \A t, u \in line : Payload[t].sequence = Payload[u].sequence => t = u

(* What a transaction that holds or has released its locks has written. *)
Won(c) == txn[c].phase \in {"locked", "committed"}

Progress(c) ==
    LET x == txn[c] IN
    Won(c) =>
        /\ x.publisher \in Publisher
        /\ x.transition \in Transition
        /\ Payload[x.transition].publisher = x.publisher
        /\ x.phase = "committed" => x.pending = {}
        /\ StateName(x.publisher) \notin x.pending => x.transition \in Lineage(stateRef[x.publisher])
        /\ TransName(x.transition) \notin x.pending => x.transition \in transRef

(* A transition ref is only created for a transition that extends its      *)
(* parent.  The transition is accepted, or is about to be: the transaction *)
(* that wrote the ref still holds the state ref's lock, or died with it.   *)
Ahead(t) ==
    LET p == Payload[t].publisher IN
    /\ Payload[t].parent = stateRef[p]
    /\ \/ StateName(p) \in staleLocks
       \/ \E c \in Caller :
            /\ txn[c].phase = "locked" /\ txn[c].transition = t
            /\ StateName(p) \in txn[c].pending

Recorded ==
    \A t \in transRef :
        /\ Extends(t, Payload[t].parent)
        /\ t \in Lineage(stateRef[Payload[t].publisher]) \/ Ahead(t)

(* The transaction a caller waits for is the one of its own call, and a    *)
(* call has no outcome before it returns.                                  *)
Awaiting(c) ==
    /\ pc[c] = "await" =>
        /\ txn[c].phase # "none"
        /\ txn[c].transition = call[c].transition
        /\ txn[c].publisher = call[c].selected
    /\ pc[c] # "idle" => outcome[c] = "none"
    /\ outcome[c] # "none" => call[c] \in Calls

(* Of the transactions of one transition at most one is ever locked, and   *)
(* none once the transition was reported.                                  *)
OneWinner ==
    /\ applied \subseteq transRef
    /\ \A c \in Caller : Won(c) => txn[c].transition \notin applied
    /\ \A c, d \in Caller : Won(c) /\ Won(d) /\ c # d => txn[c].transition # txn[d].transition

HistoryInv ==
    /\ CommitInv
    /\ \A p \in Publisher : LineageOrdered(p)
    /\ \A c \in Caller : Progress(c) /\ Awaiting(c)
    /\ Recorded
    /\ NoFork
    /\ LineageRetained
    /\ SuccessIsAccepted
    /\ OneWinner
-----------------------------------------------------------------------------
(* What one step does to the lineages, the transition refs and the         *)
(* transactions.                                                           *)
LEMMA LineageGrows ==
    ASSUME CommitInv, [Next]_vars, NEW p \in Publisher
    PROVE Lineage(stateRef[p]) \subseteq Lineage(stateRef'[p])
<1>1. CASE stateRef'[p] = stateRef[p]
  BY <1>1
<1>2. CASE stateRef'[p] # stateRef[p]
  <2>1. stateRef'[p] \in Transition
    BY <1>2, MoveStep, TypeStep DEF CommitInv, TypeInv, TypeOK
  <2>2. Payload[stateRef'[p]].parent = stateRef[p]
    BY <1>2, MoveStep DEF Extends
  <2> QED BY <2>1, <2>2, LineageOfChild
<1> QED BY <1>1, <1>2

LEMMA OrderedStep ==
    ASSUME CommitInv, [Next]_vars, NEW p \in Publisher, LineageOrdered(p)
    PROVE LineageOrdered(p)'
<1> DEFINE h == stateRef[p]
           t == stateRef'[p]
<1>1. CASE t = h
  BY <1>1 DEF LineageOrdered
<1>2. CASE t # h
  <2>1. /\ t \in Transition
        /\ h \in StateId
    BY <1>2, MoveStep, TypeStep DEF CommitInv, TypeInv, TypeOK
  <2>2. /\ Payload[t].publisher = p
        /\ Payload[t].parent = h
        /\ Payload[t].sequence = NextSequence(h)
        /\ Extends(t, h)
    BY <1>2, MoveStep, SelectionAssumption DEF SignedFor, Extends
  <2>3. Lineage(t) = {t} \cup Lineage(h)
    BY <2>1, <2>2, LineageOfChild
  <2>4. NextSequence(h) \in Nat /\ NextSequence(t) = NextSequence(h) + 1
    BY <2>1, <2>2, PayloadAssumption, SequenceAssumption, NoneAssumption DEF NextSequence
  <2>5. \A u \in Lineage(h) : u \in Transition /\ Payload[u].sequence \in Nat
    BY LineageClosed, PayloadAssumption, SequenceAssumption
  <2>6. \A u \in Lineage(h) : Payload[u].sequence < Payload[t].sequence
    BY <2>2 DEF LineageOrdered
  <2>7. \A u \in Lineage(t) : Payload[u].sequence < NextSequence(t)
    BY <2>2, <2>3, <2>4, <2>5, <2>6
  <2>8. \A u, v \in Lineage(t) : Payload[u].sequence = Payload[v].sequence => u = v
    <3>1. \A u \in Lineage(h) : Payload[u].sequence # Payload[t].sequence
      BY <2>2, <2>4, <2>5, <2>6
    <3> QED BY <2>3, <3>1 DEF LineageOrdered
  <2>9. \A u \in Lineage(t) : Payload[u].publisher = p /\ Extends(u, Payload[u].parent)
    BY <2>2, <2>3 DEF LineageOrdered
  <2> QED BY <2>7, <2>8, <2>9 DEF LineageOrdered
<1> QED BY <1>1, <1>2

(* A locked or finished transaction writes what it has not yet written.    *)
LEMMA ProgressStep ==
    ASSUME CommitInv, \A c \in Caller : Progress(c), [Next]_vars
    PROVE \A c \in Caller : Progress(c)'
<1> USE DEF CommitInv, TypeInv, TypeOK, Progress, Won
<1>1. CASE UNCHANGED <<storeVars, gitVars>>
  BY <1>1 DEF storeVars, gitVars
<1>2. ASSUME NEW d \in Caller, PromoteObject(d) PROVE \A c \in Caller : Progress(c)'
  BY <1>2 DEF PromoteObject, gitVars
<1>3. ASSUME NEW d \in Caller, SubmitUpdate(d) PROVE \A c \in Caller : Progress(c)'
  BY <1>3 DEF SubmitUpdate, Submitted, storeVars
<1>4. ASSUME NEW d \in Caller, PrepareRefs(d) PROVE \A c \in Caller : Progress(c)'
  <2> DEFINE x == txn[d]
  <2>1. /\ x.phase = "submitted"
        /\ txn' = [txn EXCEPT ![d] = InPhase(x, "locked", x.pending)]
        /\ UNCHANGED <<stateRef, transRef>>
    BY <1>4 DEF PrepareRefs, storeVars
  <2>2. /\ x.publisher \in Publisher /\ x.transition \in Transition
        /\ Payload[x.transition].publisher = x.publisher
        /\ StateName(x.publisher) \in x.pending
        /\ TransName(x.transition) \in x.pending
    BY <2>1, TxnNamesAre, TransNameIs, SelectionAssumption DEF TxnInv, Writing, SignedFor
  <2> QED BY <2>1, <2>2 DEF InPhase
<1>5. ASSUME NEW d \in Caller, RenameRef(d), NEW c \in Caller PROVE Progress(c)'
  <2> DEFINE x == txn[d]
  <2>1. PICK n : Renames(d, n)
    BY <1>5, RenameStep
  <2>2. /\ txn' = [txn EXCEPT ![d] =
              InPhase(x, IF x.pending = {n} THEN "committed" ELSE "locked", x.pending \ {n})]
        /\ transRef \subseteq transRef'
        /\ n = TransName(x.transition) => x.transition \in transRef'
        /\ x.phase = "locked"
    BY <2>1 DEF Renames
  <2>3. \A p \in Publisher : Lineage(stateRef[p]) \subseteq Lineage(stateRef'[p])
    BY LineageGrows
  <2>4. CASE c # d
    BY <2>2, <2>3, <2>4
  <2>5. CASE c = d
    <3>1. /\ x.publisher \in Publisher /\ x.transition \in Transition
          /\ Payload[x.transition].publisher = x.publisher
      BY <2>2
    <3>2. n = StateName(x.publisher) => x.transition \in Lineage(stateRef'[x.publisher])
      BY <2>1, <3>1, LineageClosed DEF Renames
    <3>3. StateName(x.publisher) \notin x.pending => x.transition \in Lineage(stateRef'[x.publisher])
      BY <2>2, <2>3, <3>1
    <3>4. TransName(x.transition) \notin x.pending => x.transition \in transRef'
      BY <2>2
    <3> QED BY <2>2, <2>5, <3>1, <3>2, <3>3, <3>4 DEF InPhase
  <2> QED BY <2>4, <2>5
<1>6. ASSUME NEW d \in Caller, KillGit(d) PROVE \A c \in Caller : Progress(c)'
  BY <1>6 DEF KillGit, InPhase, storeVars
<1>7. ASSUME NEW d \in Caller, TxnEnds(d) PROVE \A c \in Caller : Progress(c)'
  BY <1>7 DEF TxnEnds, storeVars
<1> QED BY <1>1, <1>2, <1>3, <1>4, <1>5, <1>6, <1>7, StoreSteps

(* A transition that is ahead stays so until its own transaction moves the *)
(* state to it: nobody else can, the state ref is locked.                  *)
LEMMA AheadStep ==
    ASSUME HistoryInv, [Next]_vars, NEW t \in Transition, Ahead(t)
    PROVE t \in Lineage(stateRef'[Payload[t].publisher]) \/ Ahead(t)'
<1> USE DEF HistoryInv, CommitInv, TypeInv, TypeOK, Ahead
<1> DEFINE p == Payload[t].publisher
<1>0. p \in Publisher
  BY PayloadAssumption
<1>1. CASE UNCHANGED <<storeVars, gitVars>>
  BY <1>1 DEF storeVars, gitVars
<1>2. ASSUME NEW d \in Caller, PromoteObject(d) PROVE Ahead(t)'
  BY <1>2 DEF PromoteObject, gitVars
<1>3. ASSUME NEW d \in Caller, SubmitUpdate(d) PROVE Ahead(t)'
  BY <1>3 DEF SubmitUpdate, storeVars
<1>4. ASSUME NEW d \in Caller, PrepareRefs(d) PROVE Ahead(t)'
  BY <1>4 DEF PrepareRefs, storeVars
<1>5. ASSUME NEW d \in Caller, RenameRef(d)
      PROVE t \in Lineage(stateRef'[p]) \/ Ahead(t)'
  <2>1. PICK n : Renames(d, n)
    BY <1>5, RenameStep
  <2>2. CASE n = StateName(p)
    <3>1. n \notin staleLocks /\ \A c \in Caller : c # d /\ txn[c].phase = "locked" => n \notin txn[c].pending
      BY <2>1 DEF Renames, LocksExclusive
    <3>2. txn[d].transition = t
      BY <2>2, <3>1
    <3>3. stateRef'[p] = t
      BY <1>0, <2>1, <2>2, <3>2 DEF Renames
    <3> QED BY <3>3, LineageClosed
  <2>3. CASE n # StateName(p)
    <3>1. stateRef'[p] = stateRef[p] /\ staleLocks' = staleLocks
      BY <1>0, <2>1, <2>3 DEF Renames
    <3>2. ASSUME NEW c \in Caller, txn[c].phase = "locked", txn[c].transition = t,
                 StateName(p) \in txn[c].pending
          PROVE txn'[c].phase = "locked" /\ txn'[c].transition = t /\ StateName(p) \in txn'[c].pending
      <4>1. CASE c = d
        BY <2>1, <2>3, <3>2, <4>1 DEF Renames, InPhase
      <4>2. CASE c # d
        BY <2>1, <3>2, <4>2 DEF Renames
      <4> QED BY <4>1, <4>2
    <3> QED BY <3>1, <3>2
  <2> QED BY <2>2, <2>3
<1>6. ASSUME NEW d \in Caller, KillGit(d) PROVE Ahead(t)'
  <2>1. stateRef' = stateRef /\ staleLocks \subseteq staleLocks'
    BY <1>6 DEF KillGit, storeVars
  <2>2. txn[d].phase = "locked" => txn[d].pending \subseteq staleLocks'
    BY <1>6 DEF KillGit
  <2>3. \A c \in Caller : c # d => txn'[c] = txn[c]
    BY <1>6 DEF KillGit
  <2> QED BY <2>1, <2>2, <2>3
<1>7. ASSUME NEW d \in Caller, TxnEnds(d) PROVE Ahead(t)'
  BY <1>7 DEF TxnEnds, storeVars
<1> QED BY <1>1, <1>2, <1>3, <1>4, <1>5, <1>6, <1>7, StoreSteps

(* A transition ref is created by the transaction of its transition only,  *)
(* and then the transition is accepted or next.                            *)
LEMMA NewRecord ==
    ASSUME HistoryInv, [Next]_vars, NEW t \in transRef' \ transRef
    PROVE /\ t \in Transition
          /\ Extends(t, Payload[t].parent)
          /\ \/ t \in Lineage(stateRef[Payload[t].publisher])
             \/ \E d \in Caller :
                    /\ txn[d].phase = "locked" /\ txn'[d].phase = "locked"
                    /\ txn[d].transition = t /\ txn'[d].transition = t
                    /\ StateName(Payload[t].publisher) \in txn[d].pending \cap txn'[d].pending
                    /\ Payload[t].parent = stateRef[Payload[t].publisher]
                    /\ UNCHANGED stateRef
<1> USE DEF HistoryInv, CommitInv, TypeInv, TypeOK
<1>1. PICK d \in Caller : RenameRef(d)
  BY StoreSteps DEF PromoteObject, SubmitUpdate, PrepareRefs, KillGit, TxnEnds, storeVars
<1>2. PICK n : Renames(d, n)
  BY <1>1, RenameStep
<1> DEFINE x == txn[d]
<1>3. n = TransName(t) /\ t = x.transition /\ x.phase = "locked"
  BY <1>2 DEF Renames
<1>4. /\ x.publisher \in Publisher /\ t \in Transition
      /\ Payload[t].publisher = x.publisher
      /\ Extends(t, x.old) /\ Payload[t].parent = x.old
  BY <1>3, SelectionAssumption DEF TxnInv, Writing, SignedFor, Extends
<1>5. CASE StateName(x.publisher) \in x.pending
  <2>1. stateRef[x.publisher] = x.old
    BY <1>3, <1>5 DEF StateHeld
  <2>2. n # StateName(x.publisher)
    BY <1>3, NamesDiffer
  <2>3. txn'[d] = InPhase(x, "locked", x.pending \ {n})
    BY <1>2, <1>5, <2>2 DEF Renames
  <2>4. StateName(x.publisher) \in txn'[d].pending /\ txn'[d].phase = "locked" /\ txn'[d].transition = t
    BY <1>3, <1>5, <2>2, <2>3 DEF InPhase
  <2>5. \A q \in Publisher : stateRef'[q] = stateRef[q]
    BY <1>2, <1>3, NamesDiffer DEF Renames
  <2>6. stateRef' = stateRef
    BY <2>5, TypeStep
  <2> QED BY <1>3, <1>4, <1>5, <2>1, <2>4, <2>6
<1>6. CASE StateName(x.publisher) \notin x.pending
  BY <1>3, <1>4, <1>6 DEF Progress, Won
<1> QED BY <1>5, <1>6

LEMMA RecordedStep ==
    ASSUME HistoryInv, [Next]_vars
    PROVE Recorded'
<1> USE DEF HistoryInv, CommitInv, TypeInv, TypeOK
<1>1. \A p \in Publisher : Lineage(stateRef[p]) \subseteq Lineage(stateRef'[p])
  BY LineageGrows
<1>2. SUFFICES ASSUME NEW t \in transRef'
               PROVE /\ Extends(t, Payload[t].parent)
                     /\ t \in Lineage(stateRef'[Payload[t].publisher]) \/ Ahead(t)'
  BY DEF Recorded
<1>3. CASE t \in transRef
  <2>1. t \in Transition /\ Payload[t].publisher \in Publisher
    BY <1>3, PayloadAssumption
  <2>2. Extends(t, Payload[t].parent)
    BY <1>3 DEF Recorded
  <2>3. t \in Lineage(stateRef[Payload[t].publisher]) \/ Ahead(t)
    BY <1>3 DEF Recorded
  <2> QED BY <1>1, <2>1, <2>2, <2>3, AheadStep
<1>4. CASE t \notin transRef
  <2>1. t \in Transition /\ Extends(t, Payload[t].parent)
    BY <1>2, <1>4, NewRecord
  <2>2. Payload[t].publisher \in Publisher
    BY <2>1, PayloadAssumption
  <2>3. CASE t \in Lineage(stateRef[Payload[t].publisher])
    BY <1>1, <2>1, <2>2, <2>3
  <2>4. CASE t \notin Lineage(stateRef[Payload[t].publisher])
    BY <1>2, <1>4, <2>1, <2>4, NewRecord DEF Ahead
  <2> QED BY <2>3, <2>4
<1> QED BY <1>3, <1>4

(* A second child of a parent is never recorded: it would repeat a         *)
(* sequence number of the lineage, or need a lock that is held.            *)
LEMMA ForkStep ==
    ASSUME HistoryInv, [Next]_vars
    PROVE NoFork'
<1> USE DEF HistoryInv, CommitInv, TypeInv, TypeOK
<1>1. ASSUME NEW t \in transRef' \ transRef, NEW u \in transRef,
             Payload[t].publisher = Payload[u].publisher, Payload[t].parent = Payload[u].parent
      PROVE FALSE
  <2> DEFINE p == Payload[t].publisher
             h == stateRef[p]
  <2>1. /\ t \in Transition /\ u \in Transition /\ t # u /\ p \in Publisher
        /\ Extends(t, Payload[t].parent) /\ Extends(u, Payload[t].parent)
    BY <1>1, NewRecord, PayloadAssumption DEF Recorded
  <2>2. Payload[t].sequence = Payload[u].sequence
    BY <2>1 DEF Extends
  <2>3. \A v \in Lineage(h) : Payload[v].sequence < NextSequence(h)
    BY <2>1 DEF LineageOrdered
  <2>4. NextSequence(h) \in Nat
    BY <2>1, PayloadAssumption, SequenceAssumption DEF NextSequence
  <2>5. t \in Lineage(h) \/ Payload[t].parent = h
    BY <1>1, NewRecord
  <2>6. u \in Lineage(h) \/ (Payload[u].parent = h /\ Ahead(u))
    BY <1>1 DEF Recorded, Ahead
  <2>7. ~(t \in Lineage(h) /\ u \in Lineage(h))
    BY <2>1, <2>2 DEF LineageOrdered
  <2>8. Payload[t].parent = h => Payload[t].sequence = NextSequence(h)
    BY <2>1 DEF Extends
  <2>9. t \notin Lineage(h) /\ u \notin Lineage(h)
    <3>1. Payload[t].parent # h => FALSE
      BY <1>1, <2>5, <2>6, <2>7
    <3>2. Payload[t].sequence = NextSequence(h) /\ Payload[u].sequence = NextSequence(h)
      BY <2>2, <2>8, <3>1
    <3> QED BY <2>3, <2>4, <3>2
  <2>10. PICK d \in Caller : /\ txn[d].phase = "locked" /\ txn[d].transition = t
                             /\ StateName(p) \in txn[d].pending
    BY <1>1, <2>9, NewRecord
  <2>11. \/ StateName(p) \in staleLocks
         \/ \E c \in Caller : /\ txn[c].phase = "locked" /\ txn[c].transition = u
                              /\ StateName(p) \in txn[c].pending
    BY <1>1, <2>6, <2>9 DEF Ahead
  <2> QED BY <2>1, <2>10, <2>11 DEF LocksExclusive
<1>2. \A t, u \in transRef' : t \in transRef \/ u \in transRef \/ t = u
  <2>1. CASE transRef' = transRef
    BY <2>1
  <2>2. ASSUME NEW d \in Caller, RenameRef(d)
        PROVE \A t, u \in transRef' : t \in transRef \/ u \in transRef \/ t = u
    BY <2>2, RenameStep DEF Renames
  <2> QED BY <2>1, <2>2, StoreSteps
          DEF PromoteObject, SubmitUpdate, PrepareRefs, KillGit, TxnEnds, storeVars
<1>3. ASSUME NEW t \in transRef', NEW u \in transRef',
             Payload[t].publisher = Payload[u].publisher, Payload[t].parent = Payload[u].parent
      PROVE t = u
  <2>1. CASE t \in transRef /\ u \in transRef
    BY <1>3, <2>1 DEF NoFork
  <2> QED BY <1>1, <1>2, <1>3, <2>1
<1> QED BY <1>3 DEF NoFork

(* An accepted transition keeps its ref, or the lock under which the ref   *)
(* is still to be written.                                                 *)
LEMMA RetainedStep ==
    ASSUME HistoryInv, [Next]_vars
    PROVE LineageRetained'
<1> USE DEF HistoryInv, CommitInv, TypeInv, TypeOK
<1>1. SUFFICES ASSUME NEW p \in Publisher, NEW t \in Lineage(stateRef'[p])
               PROVE t \in transRef' \/ TransName(t) \in Locked'
  BY DEF LineageRetained
<1>2. CASE stateRef' = stateRef /\ transRef' = transRef /\ \A n : n \in Locked => n \in Locked'
  BY <1>1, <1>2 DEF LineageRetained
<1>3. CASE UNCHANGED <<storeVars, gitVars>>
  <2>1. Locked' = Locked
    BY <1>3 DEF gitVars, Locked
  <2> QED BY <1>2, <1>3, <2>1 DEF storeVars
<1>4. ASSUME NEW d \in Caller, PromoteObject(d) \/ SubmitUpdate(d) \/ KillGit(d) \/ TxnEnds(d)
      PROVE t \in transRef' \/ TransName(t) \in Locked'
  BY <1>2, <1>4, LocksKept DEF PromoteObject, SubmitUpdate, KillGit, TxnEnds, storeVars
<1>5. ASSUME NEW d \in Caller, PrepareRefs(d) PROVE t \in transRef' \/ TransName(t) \in Locked'
  BY <1>2, <1>5, LocksTaken DEF PrepareRefs, storeVars
<1>6. ASSUME NEW d \in Caller, RenameRef(d) PROVE t \in transRef' \/ TransName(t) \in Locked'
  <2> DEFINE x == txn[d]
  <2>1. PICK n : Renames(d, n)
    BY <1>6, RenameStep
  <2>2. \A m : m \in Locked' <=> m \in Locked /\ m # n
    BY <2>1, LocksReleased
  <2>3. /\ x.phase = "locked" /\ n \in x.pending
        /\ x.pending \subseteq TxnNames(x.publisher, x.transition, x.old)
    BY <2>1 DEF Renames, TxnInv, Writing
  <2>4. n = TransName(t) => t = x.transition /\ t \in transRef'
    BY <2>1, <2>3, TransNameIs DEF Renames
  <2>5. transRef \subseteq transRef'
    BY <2>1 DEF Renames
  <2>6. CASE t \in Lineage(stateRef[p])
    BY <2>2, <2>4, <2>5, <2>6 DEF LineageRetained
  <2>7. CASE t \notin Lineage(stateRef[p])
    <3>1. stateRef'[p] # stateRef[p]
      BY <1>1, <2>7
    <3>2. stateRef'[p] = x.transition /\ n = StateName(p)
      BY <2>1, <3>1 DEF Renames
    <3>3. x.transition \in Transition /\ Payload[x.transition].parent = stateRef[p]
      BY <3>1, <3>2, <2>3, MoveStep DEF Extends, TxnInv, Writing
    <3>4. t = x.transition
      BY <1>1, <2>7, <3>2, <3>3, LineageOfChild
    <3>5. t \in transRef \/ TransName(t) \in x.pending
      BY <2>3, <3>4 DEF Progress, Won
    <3> QED BY <2>2, <2>3, <2>4, <2>5, <3>5, LockedBy
  <2> QED BY <2>6, <2>7
<1> QED BY <1>3, <1>4, <1>5, <1>6, StoreSteps

(* What commit, a crash and git do to the call a caller is in. *)
LEMMA AwaitingStep ==
    ASSUME HistoryInv, [Next]_vars
    PROVE \A c \in Caller : Awaiting(c)'
<1> USE DEF HistoryInv, CommitInv, TypeInv, TypeOK, Awaiting, Outcomes
<1>1. CASE UNCHANGED vars
  BY <1>1 DEF vars, callerVars, gitVars
<1>2. ASSUME NEW d \in Caller, Begin(d) PROVE \A c \in Caller : Awaiting(c)'
  BY <1>2 DEF Begin, gitVars
<1>3. ASSUME NEW d \in Caller,
             RefuseCall(d) \/ ReadState(d) \/ VerifyTargets(d) \/ PromoteFails(d) \/ RereadState(d)
      PROVE \A c \in Caller : Awaiting(c)'
  BY <1>3 DEF RefuseCall, ReadState, VerifyTargets, PromoteFails, RereadState, Return, Step, gitVars
<1>4. ASSUME NEW d \in Caller, PromoteObject(d) \/ PromoteDone(d)
      PROVE \A c \in Caller : Awaiting(c)'
  BY <1>4 DEF PromoteObject, PromoteDone, Step, callerVars, gitVars
<1>5. ASSUME NEW d \in Caller, SubmitUpdate(d) PROVE \A c \in Caller : Awaiting(c)'
  BY <1>5 DEF SubmitUpdate, Submitted, Step
<1>6. ASSUME NEW d \in Caller, UpdateSucceeded(d) \/ UpdateErred(d)
      PROVE \A c \in Caller : Awaiting(c)'
  BY <1>6 DEF UpdateSucceeded, UpdateErred, Return, Step
<1>7. ASSUME NEW d \in Caller, PrepareRefs(d) \/ PrepareFails(d) \/ KillGit(d)
      PROVE \A c \in Caller : Awaiting(c)'
  BY <1>7 DEF PrepareRefs, PrepareFails, KillGit, InPhase, callerVars
<1>8. ASSUME NEW d \in Caller, RenameRef(d) PROVE \A c \in Caller : Awaiting(c)'
  <2>1. PICK n : Renames(d, n)
    BY <1>8, RenameStep
  <2>2. /\ pc' = pc /\ call' = call /\ outcome' = outcome
        /\ txn' = [txn EXCEPT ![d] =
              InPhase(txn[d], IF txn[d].pending = {n} THEN "committed" ELSE "locked",
                      txn[d].pending \ {n})]
    BY <2>1 DEF Renames, callerVars
  <2>3. txn[d].phase # "none"
    BY <2>1 DEF Renames
  <2> QED BY <2>2, <2>3 DEF InPhase
<1>9. ASSUME NEW d \in Caller, Crash(d) PROVE \A c \in Caller : Awaiting(c)'
  BY <1>9 DEF Crash, Return, InPhase
<1>10. ASSUME NEW d \in Caller, Reap(d) PROVE \A c \in Caller : Awaiting(c)'
  BY <1>10 DEF Reap, callerVars
<1> QED BY <1>1, <1>2, <1>3, <1>4, <1>5, <1>6, <1>7, <1>8, <1>9, <1>10
        DEF Next, CommitStep, GitStep

(* A call says it succeeded only with its transition in the lineage, and   *)
(* lineages only grow.                                                     *)
LEMMA SuccessStep ==
    ASSUME HistoryInv, [Next]_vars
    PROVE SuccessIsAccepted'
<1> USE DEF HistoryInv, CommitInv, TypeInv, TypeOK
<1>1. \A p \in Publisher : Lineage(stateRef[p]) \subseteq Lineage(stateRef'[p])
  BY LineageGrows
<1>2. SUFFICES ASSUME NEW c \in Caller, outcome'[c] \in {"applied", "already"}
               PROVE call'[c].transition \in Lineage(stateRef'[call'[c].selected])
  BY DEF SuccessIsAccepted
<1>3. CASE outcome'[c] = outcome[c] /\ call'[c] = call[c]
  <2>1. call[c] \in Calls
    BY <1>2, <1>3 DEF Awaiting
  <2>2. call[c].transition \in Lineage(stateRef[call[c].selected])
    BY <1>2, <1>3 DEF SuccessIsAccepted
  <2> QED BY <1>1, <1>3, <2>1, <2>2, CallsAssumption
<1>4. CASE ~(outcome'[c] = outcome[c] /\ call'[c] = call[c])
  <2>1. ReadState(c) \/ RereadState(c) \/ UpdateSucceeded(c)
    <3>1. ASSUME NEW d \in Caller, d # c, Begin(d) \/ CommitStep(d) \/ GitStep(d) \/ KillGit(d) \/ Crash(d)
          PROVE FALSE
      BY <1>4, <3>1
      DEF Begin, CommitStep, GitStep, KillGit, Crash, RefuseCall, ReadState, VerifyTargets,
          PromoteObject, PromoteFails, PromoteDone, SubmitUpdate, UpdateSucceeded, UpdateErred,
          RereadState, PrepareRefs, PrepareFails, RenameRef, Reap, Return, Step, callerVars
    <3>2. ~UNCHANGED vars
      BY <1>4 DEF vars, callerVars
    <3>3. ~Begin(c) /\ ~Crash(c)
      BY <1>2 DEF Begin, Crash, Return
    <3>4. ~(RefuseCall(c) \/ VerifyTargets(c) \/ PromoteFails(c))
      BY <1>2, <1>4 DEF RefuseCall, VerifyTargets, PromoteFails, Return, Step
    <3>5. ~(PromoteObject(c) \/ PromoteDone(c) \/ SubmitUpdate(c) \/ UpdateErred(c) \/ KillGit(c) \/ GitStep(c))
      BY <1>4 DEF PromoteObject, PromoteDone, SubmitUpdate, UpdateErred, KillGit, GitStep,
                  PrepareRefs, PrepareFails, RenameRef, Reap, Step, callerVars
    <3> QED BY <3>1, <3>2, <3>3, <3>4, <3>5 DEF Next, CommitStep
  <2>2. call'[c] = call[c] /\ call[c] \in Calls
    BY <2>1 DEF ReadState, RereadState, UpdateSucceeded, Return, Step
  <2> DEFINE t == call[c].transition
             p == call[c].selected
  <2>3. t \in Transition /\ p \in Publisher
    BY <2>2, CallsAssumption
  <2>4. CASE ReadState(c) \/ RereadState(c)
    <3>1. t = stateRef[p]
      BY <1>2, <2>3, <2>4, NoneAssumption DEF ReadState, RereadState, ReadsState, Return, Step, Awaiting
    <3> QED BY <1>1, <2>2, <2>3, <3>1, LineageClosed
  <2>5. CASE UpdateSucceeded(c)
    <3>1. pc[c] = "await" /\ txn[c].phase = "committed"
      BY <2>5 DEF UpdateSucceeded
    <3>2. txn[c].transition = t /\ txn[c].publisher = p
      BY <3>1 DEF Awaiting
    <3>3. t \in Lineage(stateRef[p])
      BY <3>1, <3>2 DEF Progress, Won
    <3> QED BY <1>1, <2>2, <2>3, <3>3
  <2> QED BY <2>1, <2>4, <2>5
<1> QED BY <1>3, <1>4

(* Only a caller whose transaction committed reports it. *)
LEMMA AppliedBy ==
    ASSUME [Next]_vars
    PROVE \/ applied' = applied
          \/ \E c \in Caller : UpdateSucceeded(c)
BY DEF Next, CommitStep, GitStep, vars, Begin, RefuseCall, ReadState, VerifyTargets, PromoteObject,
       PromoteFails, PromoteDone, SubmitUpdate, UpdateErred, RereadState, PrepareRefs, PrepareFails,
       RenameRef, KillGit, Crash, Reap

(* Two transactions of one transition need one lock, and the second finds  *)
(* the transition ref in place.                                            *)
LEMMA WinnerStep ==
    ASSUME HistoryInv, [Next]_vars
    PROVE OneWinner'
<1> USE DEF HistoryInv, CommitInv, TypeInv, TypeOK, OneWinner, Won
<1>1. ASSUME NEW d \in Caller, UpdateSucceeded(d) PROVE OneWinner'
  <2>1. /\ txn[d].phase = "committed" /\ txn[d].transition = call[d].transition
        /\ applied' = applied \cup {txn[d].transition}
        /\ txn' = [txn EXCEPT ![d] = NoTxn]
        /\ transRef' = transRef
    BY <1>1 DEF UpdateSucceeded, Awaiting, storeVars
  <2>2. txn[d].transition \in transRef
    BY <2>1 DEF Progress
  <2> QED BY <2>1, <2>2 DEF NoTxn
<1>2. CASE applied' = applied /\ UNCHANGED <<storeVars, gitVars>>
  BY <1>2 DEF storeVars, gitVars
<1>3. ASSUME NEW d \in Caller, PromoteObject(d) PROVE OneWinner'
  BY <1>3 DEF PromoteObject, gitVars
<1>4. ASSUME NEW d \in Caller, SubmitUpdate(d) PROVE OneWinner'
  BY <1>4 DEF SubmitUpdate, Submitted, storeVars
<1>5. ASSUME NEW d \in Caller, PrepareRefs(d) PROVE OneWinner'
  <2> DEFINE x == txn[d]
  <2>1. /\ x.phase = "submitted"
        /\ x.pending \cap Locked = {}
        /\ x.transition \notin transRef
        /\ txn' = [txn EXCEPT ![d] = InPhase(x, "locked", x.pending)]
        /\ UNCHANGED <<transRef, applied>>
    BY <1>5 DEF PrepareRefs, OldValuesHold, storeVars
  <2>2. TransName(x.transition) \in x.pending
    BY <2>1, TransNameIs DEF TxnInv, Writing
  <2>3. ASSUME NEW c \in Caller, Won(c) PROVE txn[c].transition # x.transition
    <3>1. SUFFICES ASSUME txn[c].transition = x.transition PROVE FALSE
      OBVIOUS
    <3>2. TransName(x.transition) \in txn[c].pending /\ txn[c].phase = "locked"
      BY <2>1, <2>3, <3>1 DEF Progress
    <3>3. TransName(x.transition) \in Locked
      BY <3>2, LockedBy
    <3> QED BY <2>1, <2>2, <3>3
  <2> QED BY <2>1, <2>3 DEF InPhase
<1>6. ASSUME NEW d \in Caller, RenameRef(d) PROVE OneWinner'
  <2>1. PICK n : Renames(d, n)
    BY <1>6, RenameStep
  <2>2. /\ transRef \subseteq transRef' /\ applied' = applied
        /\ txn[d].phase = "locked"
        /\ txn' = [txn EXCEPT ![d] =
              InPhase(txn[d], IF txn[d].pending = {n} THEN "committed" ELSE "locked",
                      txn[d].pending \ {n})]
    BY <2>1 DEF Renames
  <2>3. \A c \in Caller : Won(c)' => Won(c) /\ txn'[c].transition = txn[c].transition
    BY <2>2 DEF InPhase
  <2>4. transRef \subseteq transRef' /\ applied' = applied
    BY <2>2
  <2> QED BY <2>3, <2>4
<1>7. ASSUME NEW d \in Caller, KillGit(d) PROVE OneWinner'
  BY <1>7 DEF KillGit, InPhase, storeVars
<1>8. ASSUME NEW d \in Caller, TxnEnds(d), applied' = applied PROVE OneWinner'
  BY <1>8 DEF TxnEnds, storeVars
<1> QED BY <1>1, <1>2, <1>3, <1>4, <1>5, <1>6, <1>7, <1>8, StoreSteps, AppliedBy

LEMMA HistoryInit == Init => HistoryInv
<1> SUFFICES ASSUME Init PROVE HistoryInv
  OBVIOUS
<1>1. /\ \A p \in Publisher : Lineage(stateRef[p]) = {}
      /\ transRef = {} /\ applied = {}
      /\ \A c \in Caller : pc[c] = "idle" /\ outcome[c] = "none" /\ txn[c].phase = "none"
  BY LineageNothing, NoneAssumption DEF Init, NoTxn
<1> QED BY <1>1, CommitInit
        DEF HistoryInv, LineageOrdered, Progress, Won, Awaiting, Recorded, NoFork,
            LineageRetained, SuccessIsAccepted, OneWinner

LEMMA HistoryStep == HistoryInv /\ [Next]_vars => HistoryInv'
<1> SUFFICES ASSUME HistoryInv, [Next]_vars PROVE HistoryInv'
  OBVIOUS
<1>1. CommitInv'
  BY CommitStepInv DEF HistoryInv
<1>2. \A p \in Publisher : LineageOrdered(p)'
  BY OrderedStep DEF HistoryInv
<1>3. \A c \in Caller : Progress(c)' /\ Awaiting(c)'
  BY ProgressStep, AwaitingStep DEF HistoryInv
<1>4. Recorded' /\ NoFork' /\ LineageRetained' /\ SuccessIsAccepted' /\ OneWinner'
  BY RecordedStep, ForkStep, RetainedStep, SuccessStep, WinnerStep
<1> QED BY <1>1, <1>2, <1>3, <1>4 DEF HistoryInv

LEMMA HistoryInvariant == Spec => []HistoryInv
BY HistoryInit, HistoryStep, PTL DEF Spec

-----------------------------------------------------------------------------
(* At most one child of a parent is ever committed for a publisher.        *)
THEOREM HistoryNeverForks == Spec => []NoFork
<1>1. HistoryInv => NoFork
  BY DEF HistoryInv
<1> QED BY <1>1, HistoryInvariant, PTL

(* Every accepted transition keeps its ref, back to the first, whatever    *)
(* process died while the refs were renamed.                               *)
THEOREM HistoryIsKept == Spec => []LineageRetained
<1>1. HistoryInv => LineageRetained
  BY DEF HistoryInv
<1> QED BY <1>1, HistoryInvariant, PTL

(* A caller that was told Applied or AlreadyPresent was told the truth,    *)
(* and it stays true.                                                      *)
THEOREM SuccessIsTrue == Spec => []SuccessIsAccepted
<1>1. HistoryInv => SuccessIsAccepted
  BY DEF HistoryInv
<1> QED BY <1>1, HistoryInvariant, PTL

(* Of all callers that deliver one transition at most one is told that it  *)
(* applied it.                                                             *)
THEOREM AppliedAtMostOnce == Spec => AppliedOnce
<1>1. ASSUME HistoryInv, [Next]_vars, NEW c \in Caller, outcome'[c] = "applied", outcome[c] # "applied"
      PROVE call[c].transition \notin applied
  <2> USE DEF HistoryInv, CommitInv, TypeInv, TypeOK
  <2>1. UpdateSucceeded(c)
    <3>1. ~UNCHANGED vars
      BY <1>1 DEF vars, callerVars
    <3>2. ASSUME NEW d \in Caller,
                 \/ Begin(d) \/ RefuseCall(d) \/ ReadState(d) \/ VerifyTargets(d) \/ PromoteObject(d)
                 \/ PromoteFails(d) \/ PromoteDone(d) \/ SubmitUpdate(d) \/ UpdateErred(d)
                 \/ RereadState(d) \/ GitStep(d) \/ KillGit(d) \/ Crash(d)
          PROVE FALSE
      BY <1>1, <3>2
      DEF Begin, GitStep, KillGit, Crash, RefuseCall, ReadState, VerifyTargets, PromoteObject,
          PromoteFails, PromoteDone, SubmitUpdate, UpdateErred, RereadState, PrepareRefs,
          PrepareFails, RenameRef, Reap, Return, Step, callerVars
    <3>3. ASSUME NEW d \in Caller, d # c, UpdateSucceeded(d) PROVE FALSE
      BY <1>1, <3>3 DEF UpdateSucceeded, Return
    <3> QED BY <1>1, <3>1, <3>2, <3>3 DEF Next, CommitStep
  <2>2. txn[c].phase = "committed" /\ txn[c].transition = call[c].transition
    BY <1>1, <2>1 DEF UpdateSucceeded, Awaiting
  <2> QED BY <1>1, <2>2 DEF OneWinner, Won
<1>2. HistoryInv /\ [Next]_vars =>
        [\A c \in Caller : outcome'[c] = "applied" /\ outcome[c] # "applied" =>
            call[c].transition \notin applied]_vars
  BY <1>1
<1> QED BY <1>2, HistoryInvariant, PTL DEF Spec, AppliedOnce

-----------------------------------------------------------------------------
(* The store implements AcceptedHistory, with the state refs as the heads  *)
(* and the transitions reported as applied as the reported ones.           *)

(* The operators of the abstract specification are those of the store.     *)
LEMMA SameOperators ==
    /\ \A h : Abstract!Lineage(h) = Lineage(h)
    /\ \A t, s : Abstract!SignedFor(t, s) <=> SignedFor(t, s)
    /\ \A t, h : Abstract!Extends(t, h) <=> Extends(t, h)
    /\ \A t : Abstract!Reach(Abstract!Targets(t)) = Reach(Targets(t))
<1>1. \A h : Abstract!Lineage(h) = Lineage(h)
  BY DEF Abstract!Lineage, Lineage
<1>2. \A t, s : Abstract!SignedFor(t, s) <=> SignedFor(t, s)
  BY DEF Abstract!SignedFor, SignedFor
<1>3. \A t, h : Abstract!Extends(t, h) <=> Extends(t, h)
  BY DEF Abstract!Extends, Extends, Abstract!Exhausted, Exhausted, Abstract!NextSequence, NextSequence
<1>4. \A t : Abstract!Targets(t) = Targets(t)
  BY DEF Abstract!Targets, Targets, Abstract!RefsOf, RefsOf, Abstract!NoRefs, NoRefs
<1>5. \A S : Abstract!Reach(S) = Reach(S)
  BY DEF Abstract!Reach, Reach, Abstract!LinkClosed, LinkClosed
<1> QED BY <1>1, <1>2, <1>3, <1>4, <1>5

(* The rename of a state ref is the abstract commit, a promoted object is  *)
(* received, an Applied outcome is a report; all other steps stutter.      *)
LEMMA StepImplements ==
    HistoryInv /\ [Next]_vars => [Abstract!Next]_<<stateRef, odb, applied>>
<1> SUFFICES ASSUME HistoryInv, [Next]_vars PROVE Abstract!Next \/ UNCHANGED <<stateRef, odb, applied>>
  OBVIOUS
<1> USE DEF HistoryInv, CommitInv, TypeInv, TypeOK
<1>1. ASSUME NEW d \in Caller, UpdateSucceeded(d) PROVE Abstract!Next
  <2> DEFINE t == txn[d].transition
  <2>1. /\ txn[d].phase = "committed" /\ t = call[d].transition
        /\ applied' = applied \cup {t}
        /\ UNCHANGED <<stateRef, odb>>
    BY <1>1 DEF UpdateSucceeded, Awaiting, storeVars
  <2>2. /\ t \in Transition /\ t \in Lineage(stateRef[Payload[t].publisher])
        /\ t \notin applied
    BY <2>1 DEF Progress, Won, OneWinner
  <2>3. Abstract!Report(t)
    BY <2>1, <2>2, SameOperators DEF Abstract!Report
  <2> QED BY <2>2, <2>3 DEF Abstract!Next
<1>2. ASSUME NEW d \in Caller, RenameRef(d), applied' = applied
      PROVE Abstract!Next \/ UNCHANGED <<stateRef, odb, applied>>
  <2> DEFINE x == txn[d]
             p == x.publisher
  <2>1. PICK n : Renames(d, n)
    BY <1>2, RenameStep
  <2>2. stateRef' \in [Publisher -> StateId] /\ odb' = odb
    BY <2>1, TypeStep DEF Renames
  <2>3. CASE n = StateName(p)
    <3>1. /\ p \in Publisher /\ x.transition \in Transition
          /\ SignedFor(x.transition, Selection[p])
          /\ Extends(x.transition, stateRef[p])
          /\ Reach(Targets(x.transition)) \subseteq odb
      BY <2>1, <2>3 DEF Renames, TxnInv, StateHeld, Writing
    <3>2. \A q \in Publisher : stateRef'[q] = IF q = p THEN x.transition ELSE stateRef[q]
      BY <2>1, <2>3, NamesDiffer DEF Renames
    <3>3. stateRef' = [stateRef EXCEPT ![p] = x.transition]
      BY <2>2, <3>2
    <3>4. Abstract!Accept(p, x.transition)
      BY <1>2, <2>2, <3>1, <3>3, SameOperators DEF Abstract!Accept
    <3> QED BY <3>1, <3>4 DEF Abstract!Next
  <2>4. CASE n # StateName(p)
    <3>1. \A q \in Publisher : stateRef'[q] = stateRef[q]
      BY <2>1, <2>4 DEF Renames
    <3> QED BY <1>2, <2>2, <3>1
  <2> QED BY <2>3, <2>4
<1>3. ASSUME NEW d \in Caller, PromoteObject(d) PROVE Abstract!Next
  <2>1. PICK o \in call[d].objects : odb' = odb \cup {o}
    BY <1>3 DEF PromoteObject
  <2>2. {o} \in SUBSET Object
    BY <1>3, CallsAssumption DEF PromoteObject
  <2>3. Abstract!Receive
    BY <1>3, <2>1, <2>2 DEF PromoteObject, Abstract!Receive
  <2> QED BY <2>3 DEF Abstract!Next
<1>4. ASSUME NEW d \in Caller, SubmitUpdate(d) \/ PrepareRefs(d) \/ KillGit(d) \/ TxnEnds(d),
             applied' = applied
      PROVE UNCHANGED <<stateRef, odb, applied>>
  BY <1>4 DEF SubmitUpdate, PrepareRefs, KillGit, TxnEnds, storeVars
<1>5. CASE UNCHANGED <<storeVars, gitVars>> /\ applied' = applied
  BY <1>5 DEF storeVars
<1> QED BY <1>1, <1>2, <1>3, <1>4, <1>5, StoreSteps, AppliedBy

(* Repository::commit, with every interleaving of callers and git          *)
(* processes and every fault, implements atomic commits.                   *)
THEOREM StoreImplementsHistory == Spec => CommitsAtomically
<1>1. Init => Abstract!Init
  BY DEF Init, Abstract!Init
<1> QED BY <1>1, StepImplements, HistoryInvariant, PTL DEF Spec, CommitsAtomically, Abstract!Spec
=============================================================================
