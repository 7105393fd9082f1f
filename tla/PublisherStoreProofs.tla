------------------------ MODULE PublisherStoreProofs -------------------------
(***************************************************************************)
(* Proofs about PublisherStore, for every set of callers, publishers,      *)
(* objects and transitions and with every fault enabled.                   *)
(***************************************************************************)
EXTENDS PublisherStore, SignedHistoryProofs

USE DEF StateId

-----------------------------------------------------------------------------
(* Facts about ref names and locks.                                        *)

(* A transaction names refs of the store only. *)
LEMMA TxnNamesType ==
    ASSUME NEW p \in Publisher, NEW t \in Transition, NEW old
    PROVE TxnNames(p, t, old) \subseteq RefNames
BY DEF TxnNames, RefNames

(* Who holds a lock. *)
LEMMA LockedBy ==
    ASSUME NEW n
    PROVE n \in Locked <=>
            n \in staleLocks \/ \E c \in Caller : txn[c].phase = "locked" /\ n \in txn[c].pending
BY DEF Locked

-----------------------------------------------------------------------------
(* Type correctness.  A caller inside commit has been given arguments.     *)
TypeInv == TypeOK /\ \A c \in Caller : pc[c] # "idle" => call[c] \in Calls

LEMMA TypeInit == Init => TypeInv
<1> SUFFICES ASSUME Init PROVE TypeInv
  OBVIOUS
<1>1. NoRefs \in RefMap
  BY DEF NoRefs, RefMap
<1>2. txn \in [Caller -> [phase : Phases, publisher : Publisher \cup {None},
                       transition : StateId, old : StateId, pending : SUBSET RefNames]]
  BY DEF Init, NoTxn, Phases
<1> QED BY <1>1, <1>2 DEF Init, TypeInv, TypeOK, PcValues, Outcomes

LEMMA TypeStep == TypeInv /\ [Next]_vars => TypeInv'
<1> SUFFICES ASSUME TypeInv, [Next]_vars PROVE TypeInv'
  OBVIOUS
<1> USE DEF TypeInv, TypeOK, PcValues, Outcomes, storeVars, callerVars, gitVars, InPhase
<1>1. CASE UNCHANGED vars
  BY <1>1 DEF vars
<1>2. ASSUME NEW c \in Caller, Begin(c) PROVE TypeInv'
  BY <1>2 DEF Begin
<1>3. ASSUME NEW c \in Caller, RefuseCall(c) PROVE TypeInv'
  BY <1>3 DEF RefuseCall, Return
<1>4. ASSUME NEW c \in Caller, ReadState(c) PROVE TypeInv'
  BY <1>4 DEF ReadState, Return, Step
<1>5. ASSUME NEW c \in Caller, VerifyTargets(c) PROVE TypeInv'
  BY <1>5 DEF VerifyTargets, Return, Step
<1>6. ASSUME NEW c \in Caller, PromoteObject(c) PROVE TypeInv'
  BY <1>6, CallsAssumption DEF PromoteObject
<1>7. ASSUME NEW c \in Caller, PromoteFails(c) PROVE TypeInv'
  BY <1>7 DEF PromoteFails, Return
<1>8. ASSUME NEW c \in Caller, PromoteDone(c) PROVE TypeInv'
  BY <1>8 DEF PromoteDone, Step
<1>9. ASSUME NEW c \in Caller, SubmitUpdate(c) PROVE TypeInv'
  <2>1. call[c].selected \in Publisher /\ call[c].transition \in Transition
    BY <1>9, CallsAssumption DEF SubmitUpdate, Step
  <2>2. TxnNames(call[c].selected, call[c].transition, prev[c]) \subseteq RefNames
    BY <2>1, TxnNamesType
  <2>3. Submitted(call[c].selected, call[c].transition, prev[c])
            \in [phase : Phases, publisher : Publisher \cup {None},
                transition : StateId, old : StateId, pending : SUBSET RefNames]
    BY <2>1, <2>2 DEF Submitted, Phases
  <2> QED BY <1>9, <2>3 DEF SubmitUpdate, Step
<1>10. NoTxn \in [phase : Phases, publisher : Publisher \cup {None},
                  transition : StateId, old : StateId, pending : SUBSET RefNames]
  BY DEF NoTxn, Phases
<1>11. ASSUME NEW c \in Caller, UpdateSucceeded(c) PROVE TypeInv'
  BY <1>10, <1>11, CallsAssumption DEF UpdateSucceeded, Return
<1>12. ASSUME NEW c \in Caller, UpdateErred(c) PROVE TypeInv'
  BY <1>10, <1>12 DEF UpdateErred, Step
<1>13. ASSUME NEW c \in Caller, RereadState(c) PROVE TypeInv'
  BY <1>13 DEF RereadState, Return
<1>14. ASSUME NEW c \in Caller, PrepareRefs(c) PROVE TypeInv'
  BY <1>14 DEF PrepareRefs, Phases
<1>15. ASSUME NEW c \in Caller, PrepareFails(c) PROVE TypeInv'
  BY <1>15 DEF PrepareFails, Phases
<1>16. ASSUME NEW c \in Caller, RenameRef(c) PROVE TypeInv'
  <2> DEFINE x == txn[c]
  <2>1. PICK n \in x.pending :
          /\ txn' = [txn EXCEPT ![c] =
                  InPhase(x, IF x.pending = {n} THEN "committed" ELSE "locked", x.pending \ {n})]
          /\ nsRef' = [p \in Publisher |-> [r \in RefName |->
                          IF n = NsName(p, r) THEN RefsOf(x.transition)[r] ELSE nsRef[p][r]]]
          /\ stateRef' = [p \in Publisher |-> IF n = StateName(p) THEN x.transition ELSE stateRef[p]]
          /\ transRef' = IF n = TransName(x.transition) THEN transRef \cup {x.transition} ELSE transRef
    BY <1>16 DEF RenameRef
  <2>2. txn' \in [Caller -> [phase : Phases, publisher : Publisher \cup {None},
                          transition : StateId, old : StateId, pending : SUBSET RefNames]]
    BY <2>1 DEF Phases
  <2>3. RefsOf(x.transition) \in RefMap
    BY RefsOfType
  <2>4. nsRef' \in [Publisher -> RefMap]
    BY <2>1, <2>3 DEF RefMap
  <2>5. stateRef' \in [Publisher -> StateId]
    BY <2>1
  <2>6. n = TransName(x.transition) => x.transition \in Transition
    BY NoneAssumption DEF RefNames, TransName, StateName, NsName
  <2>7. transRef' \subseteq Transition
    BY <2>1, <2>6
  <2> QED BY <1>16, <2>2, <2>4, <2>5, <2>7 DEF RenameRef
<1>17. ASSUME NEW c \in Caller, KillGit(c) PROVE TypeInv'
  BY <1>17 DEF KillGit, Phases
<1>18. ASSUME NEW c \in Caller, Crash(c) PROVE TypeInv'
  BY <1>18 DEF Crash, Return, Phases
<1>19. ASSUME NEW c \in Caller, Reap(c) PROVE TypeInv'
  BY <1>10, <1>19 DEF Reap
<1> QED
  BY <1>1, <1>2, <1>3, <1>4, <1>5, <1>6, <1>7, <1>8, <1>9, <1>11, <1>12, <1>13, <1>14,
     <1>15, <1>16, <1>17, <1>18, <1>19 DEF Next, CommitStep, GitStep

(* Every variable of the store, of its callers and of the git processes    *)
(* they start keeps its type.                                              *)
THEOREM TypeCorrect == Spec => []TypeOK
<1>1. Spec => []TypeInv
  BY TypeInit, TypeStep, PTL DEF Spec
<1>2. TypeInv => TypeOK
  BY DEF TypeInv
<1> QED BY <1>1, <1>2, PTL
-----------------------------------------------------------------------------
(* The inductive invariant of a commit.                                    *)

(* What commit has established about its arguments at each of its steps.   *)
CallerInv(c) ==
    LET k == call[c] IN
    /\ pc[c] \in {"verify", "promote", "update"} =>
            Verifies(k.transition, k.binding, Selection[k.selected], prev[c])
    /\ pc[c] = "promote" => TargetsPresent(k, odb)
    /\ pc[c] = "update" => Reach(Targets(k.transition)) \subseteq odb

(* What a ref transaction that may still write was checked for.            *)
Writing(x) == x.phase \in {"submitted", "locked"}

TxnInv(c) ==
    LET x == txn[c] IN
    Writing(x) =>
        /\ x.publisher \in Publisher
        /\ x.transition \in Transition
        /\ SignedFor(x.transition, Selection[x.publisher])
        /\ Extends(x.transition, x.old)
        /\ Reach(Targets(x.transition)) \subseteq odb
        /\ x.pending \subseteq TxnNames(x.publisher, x.transition, x.old)
        /\ x.phase = "submitted" => x.pending = TxnNames(x.publisher, x.transition, x.old)

(* A lock has one holder. *)
LocksExclusive ==
    \A c \in Caller : txn[c].phase = "locked" =>
        /\ txn[c].pending \cap staleLocks = {}
        /\ \A d \in Caller : d # c /\ txn[d].phase = "locked" =>
                txn[c].pending \cap txn[d].pending = {}

(* The state a transaction has locked is still the one commit read. *)
StateHeld(c) ==
    txn[c].phase = "locked" /\ StateName(txn[c].publisher) \in txn[c].pending =>
        stateRef[txn[c].publisher] = txn[c].old

CommitInv ==
    /\ TypeInv
    /\ \A c \in Caller : CallerInv(c) /\ TxnInv(c) /\ StateHeld(c)
    /\ LocksExclusive

(* Where a namespace stands while transactions are renaming refs: a locked *)
(* name the transaction still has to write, an unlocked name it has        *)
(* written or leaves alone, a name another transaction has locked, and a   *)
(* name it still has to write although its state is in place.              *)
RefHeld(c, r) ==
    LET x == txn[c]
        name == NsName(x.publisher, r)
        stateOpen == StateName(x.publisher) \in x.pending
    IN
    x.phase = "locked" =>
        /\ name \in x.pending => nsRef[x.publisher][r] = RefsOf(x.old)[r]
        /\ stateOpen /\ name \notin Locked => nsRef[x.publisher][r] = RefsOf(x.transition)[r]
        /\ stateOpen /\ name \in Locked \ x.pending => RefsOf(x.transition)[r] = RefsOf(x.old)[r]
        /\ ~stateOpen /\ name \in x.pending =>
                RefsOf(stateRef[x.publisher])[r] = RefsOf(x.transition)[r]

NamespaceInv ==
    /\ CommitInv
    /\ NamespaceMatchesState
    /\ \A c \in Caller, r \in RefName : RefHeld(c, r)
-----------------------------------------------------------------------------
(* Names of different refs differ. *)
LEMMA NamesDiffer ==
    /\ \A p, q, r, v : NsName(p, r) = NsName(q, v) => p = q /\ r = v
    /\ \A p, q : StateName(p) = StateName(q) => p = q
    /\ \A p, q, r : NsName(p, r) # StateName(q)
    /\ \A p, r, t : NsName(p, r) # TransName(t)
    /\ \A p, t : StateName(p) # TransName(t)
BY DEF NsName, StateName, TransName

(* Which names a transaction has. *)
LEMMA TxnNamesAre ==
    ASSUME NEW p, NEW t, NEW old
    PROVE /\ \A q, r : NsName(q, r) \in TxnNames(p, t, old) =>
                q = p /\ r \in RefName /\ (RefsOf(t)[r] # None \/ RefsOf(old)[r] # None)
          /\ \A r \in RefName : (RefsOf(t)[r] # None \/ RefsOf(old)[r] # None) =>
                NsName(p, r) \in TxnNames(p, t, old)
          /\ \A q : StateName(q) \in TxnNames(p, t, old) => q = p
          /\ StateName(p) \in TxnNames(p, t, old)
BY NamesDiffer DEF TxnNames

(* A step of git or of its caller that ends a transaction which holds no   *)
(* lock: success is collected, failure returned, a dead caller's process   *)
(* reaped.                                                                 *)
TxnEnds(c) ==
    /\ txn[c].phase # "locked"
    /\ txn' = [txn EXCEPT ![c] = txn'[c]] /\ txn'[c].phase \in {"none", "failed"}
    /\ UNCHANGED <<storeVars, staleLocks>>

(* The steps that touch the store or a ref transaction, and the others. *)
LEMMA StoreSteps ==
    ASSUME TypeInv, [Next]_vars
    PROVE \/ UNCHANGED <<storeVars, gitVars>>
          \/ \E c \in Caller : \/ PromoteObject(c) \/ SubmitUpdate(c) \/ PrepareRefs(c)
                              \/ RenameRef(c) \/ KillGit(c) \/ TxnEnds(c)
<1>1. CASE UNCHANGED vars
  BY <1>1 DEF vars
<1>2. ASSUME NEW c \in Caller, UpdateSucceeded(c) \/ UpdateErred(c) \/ Reap(c) PROVE TxnEnds(c)
  <2>1. /\ txn[c].phase # "locked"
        /\ txn' = [txn EXCEPT ![c] = NoTxn]
        /\ UNCHANGED <<storeVars, staleLocks>>
    BY <1>2 DEF UpdateSucceeded, UpdateErred, Reap
  <2>2. txn'[c] = NoTxn /\ txn' = [txn EXCEPT ![c] = txn'[c]]
    BY <2>1 DEF TypeInv, TypeOK
  <2> QED BY <2>1, <2>2 DEF TxnEnds, NoTxn
<1>3. ASSUME NEW c \in Caller, txn[c].phase = "submitted", UNCHANGED <<storeVars, staleLocks>>,
             txn' = [txn EXCEPT ![c] = InPhase(txn[c], "failed", {})]
      PROVE TxnEnds(c)
  <2>1. txn'[c] = InPhase(txn[c], "failed", {}) /\ txn' = [txn EXCEPT ![c] = txn'[c]]
    BY <1>3 DEF TypeInv, TypeOK
  <2> QED BY <1>3, <2>1 DEF TxnEnds, InPhase
<1>4. ASSUME NEW c \in Caller, PrepareFails(c) \/ Crash(c)
      PROVE UNCHANGED <<storeVars, gitVars>> \/ TxnEnds(c)
  BY <1>3, <1>4 DEF PrepareFails, Crash, gitVars
<1>5. ASSUME NEW c \in Caller,
             \/ Begin(c) \/ RefuseCall(c) \/ ReadState(c) \/ VerifyTargets(c)
             \/ PromoteFails(c) \/ PromoteDone(c) \/ RereadState(c)
      PROVE UNCHANGED <<storeVars, gitVars>>
  BY <1>5 DEF Begin, RefuseCall, ReadState, VerifyTargets, PromoteFails, PromoteDone, RereadState
<1> QED BY <1>1, <1>2, <1>4, <1>5 DEF Next, CommitStep, GitStep

(* Objects are only ever added. *)
LEMMA ObjectsGrow == ASSUME TypeInv, [Next]_vars PROVE odb \subseteq odb'
BY StoreSteps DEF PromoteObject, SubmitUpdate, PrepareRefs, RenameRef, KillGit, TxnEnds, storeVars

(* A step changes the place of one caller only. *)
LEMMA CallerStep ==
    ASSUME TypeInv, \A c \in Caller : CallerInv(c), [Next]_vars
    PROVE \A c \in Caller : CallerInv(c)'
<1> USE DEF CallerInv, TypeInv, TypeOK
<1>0. odb \subseteq odb'
  BY ObjectsGrow
<1>1. CASE UNCHANGED vars
  BY <1>0, <1>1 DEF vars, callerVars, storeVars, TargetsPresent
<1>2. ASSUME NEW d \in Caller, Begin(d) PROVE \A c \in Caller : CallerInv(c)'
  BY <1>0, <1>2 DEF Begin, TargetsPresent
<1>3. ASSUME NEW d \in Caller, RefuseCall(d) \/ PromoteFails(d) \/ UpdateSucceeded(d)
                                \/ RereadState(d) \/ Crash(d)
      PROVE \A c \in Caller : CallerInv(c)'
  BY <1>0, <1>3 DEF RefuseCall, PromoteFails, UpdateSucceeded, RereadState, Crash, Return, TargetsPresent
<1>4. ASSUME NEW d \in Caller, ReadState(d) PROVE \A c \in Caller : CallerInv(c)'
  BY <1>0, <1>4 DEF ReadState, Return, Step, TargetsPresent
<1>5. ASSUME NEW d \in Caller, VerifyTargets(d) PROVE \A c \in Caller : CallerInv(c)'
  BY <1>0, <1>5 DEF VerifyTargets, Return, Step, TargetsPresent
<1>6. ASSUME NEW d \in Caller, PromoteDone(d) PROVE \A c \in Caller : CallerInv(c)'
  BY <1>0, <1>6 DEF PromoteDone, Step, TargetsPresent
<1>7. ASSUME NEW d \in Caller, SubmitUpdate(d) \/ UpdateErred(d)
      PROVE \A c \in Caller : CallerInv(c)'
  BY <1>0, <1>7 DEF SubmitUpdate, UpdateErred, Step, TargetsPresent
<1>8. ASSUME NEW d \in Caller, PromoteObject(d) \/ PrepareRefs(d) \/ PrepareFails(d)
                                \/ RenameRef(d) \/ KillGit(d) \/ Reap(d)
      PROVE \A c \in Caller : CallerInv(c)'
  BY <1>0, <1>8 DEF PromoteObject, PrepareRefs, PrepareFails, RenameRef, KillGit, Reap, callerVars, TargetsPresent
<1> QED BY <1>1, <1>2, <1>3, <1>4, <1>5, <1>6, <1>7, <1>8 DEF Next, CommitStep, GitStep
(* A transaction keeps what commit checked before it was submitted. *)
LEMMA TxnStep ==
    ASSUME CommitInv, [Next]_vars
    PROVE \A c \in Caller : TxnInv(c)'
<1> USE DEF CommitInv, TypeInv, TypeOK, TxnInv, Writing
<1>0. odb \subseteq odb'
  BY ObjectsGrow
<1>1. CASE UNCHANGED <<storeVars, gitVars>>
  BY <1>1 DEF storeVars, gitVars
<1>2. ASSUME NEW d \in Caller, PromoteObject(d) PROVE \A c \in Caller : TxnInv(c)'
  BY <1>0, <1>2 DEF PromoteObject, gitVars
<1>3. ASSUME NEW d \in Caller, SubmitUpdate(d) PROVE \A c \in Caller : TxnInv(c)'
  <2> DEFINE k == call[d]
  <2>1. k.transition \in Transition /\ k.selected \in Publisher
    BY <1>3, CallsAssumption DEF SubmitUpdate, Step
  <2>2. /\ SignedFor(k.transition, Selection[k.selected])
        /\ Extends(k.transition, prev[d])
        /\ Reach(Targets(k.transition)) \subseteq odb
    BY <1>3 DEF SubmitUpdate, Step, CallerInv, Verifies
  <2>3. txn' = [txn EXCEPT ![d] = Submitted(k.selected, k.transition, prev[d])] /\ odb' = odb
    BY <1>3 DEF SubmitUpdate, storeVars
  <2> QED BY <2>1, <2>2, <2>3 DEF Submitted
<1>4. ASSUME NEW d \in Caller, PrepareRefs(d) PROVE \A c \in Caller : TxnInv(c)'
  BY <1>4 DEF PrepareRefs, InPhase, storeVars
<1>5. ASSUME NEW d \in Caller, RenameRef(d) PROVE \A c \in Caller : TxnInv(c)'
  <2>1. PICK n \in txn[d].pending :
          txn' = [txn EXCEPT ![d] =
              InPhase(txn[d], IF txn[d].pending = {n} THEN "committed" ELSE "locked", txn[d].pending \ {n})]
    BY <1>5 DEF RenameRef
  <2> QED BY <1>5, <2>1 DEF RenameRef, InPhase
<1>6. ASSUME NEW d \in Caller, KillGit(d) PROVE \A c \in Caller : TxnInv(c)'
  BY <1>6 DEF KillGit, InPhase, storeVars
<1>7. ASSUME NEW d \in Caller, TxnEnds(d) PROVE \A c \in Caller : TxnInv(c)'
  BY <1>7 DEF TxnEnds, storeVars
<1> QED BY <1>1, <1>2, <1>3, <1>4, <1>5, <1>6, <1>7, StoreSteps

(* The steps that take, release and leave locks. *)
LEMMA LocksStep ==
    ASSUME CommitInv, [Next]_vars
    PROVE LocksExclusive'
<1> USE DEF CommitInv, TypeInv, TypeOK, LocksExclusive
<1>1. CASE UNCHANGED <<storeVars, gitVars>>
  BY <1>1 DEF gitVars
<1>2. ASSUME NEW d \in Caller, PromoteObject(d) PROVE LocksExclusive'
  BY <1>2 DEF PromoteObject, gitVars
<1>3. ASSUME NEW d \in Caller, SubmitUpdate(d) PROVE LocksExclusive'
  BY <1>3 DEF SubmitUpdate, Submitted
<1>4. ASSUME NEW d \in Caller, PrepareRefs(d) PROVE LocksExclusive'
  <2>1. txn[d].pending \cap Locked = {}
    BY <1>4 DEF PrepareRefs
  <2>2. txn' = [txn EXCEPT ![d] = InPhase(txn[d], "locked", txn[d].pending)] /\ staleLocks' = staleLocks
    BY <1>4 DEF PrepareRefs
  <2> QED BY <2>1, <2>2, LockedBy DEF InPhase
<1>5. ASSUME NEW d \in Caller, RenameRef(d) PROVE LocksExclusive'
  <2>1. PICK n \in txn[d].pending :
          txn' = [txn EXCEPT ![d] =
              InPhase(txn[d], IF txn[d].pending = {n} THEN "committed" ELSE "locked", txn[d].pending \ {n})]
    BY <1>5 DEF RenameRef
  <2>2. txn[d].phase = "locked" /\ staleLocks' = staleLocks
    BY <1>5 DEF RenameRef
  <2> QED BY <2>1, <2>2 DEF InPhase
<1>6. ASSUME NEW d \in Caller, KillGit(d) PROVE LocksExclusive'
  BY <1>6 DEF KillGit, InPhase
<1>7. ASSUME NEW d \in Caller, TxnEnds(d) PROVE LocksExclusive'
  BY <1>7 DEF TxnEnds, Writing
<1> QED BY <1>1, <1>2, <1>3, <1>4, <1>5, <1>6, <1>7, StoreSteps

(* What the rename of n by transaction d does. *)
Renames(d, n) ==
    LET x == txn[d] IN
    /\ n \in x.pending
    /\ x.phase = "locked"
    /\ txn' = [txn EXCEPT ![d] =
          InPhase(x, IF x.pending = {n} THEN "committed" ELSE "locked", x.pending \ {n})]
    /\ UNCHANGED <<odb, callerVars, staleLocks, applied>>
    /\ transRef' = IF n = TransName(x.transition) THEN transRef \cup {x.transition} ELSE transRef
    /\ \A p \in Publisher :
          /\ stateRef'[p] = IF n = StateName(p) THEN x.transition ELSE stateRef[p]
          /\ n = StateName(p) => p = x.publisher
    /\ \A p \in Publisher, r \in RefName :
          /\ nsRef'[p][r] = IF n = NsName(p, r) THEN RefsOf(x.transition)[r] ELSE nsRef[p][r]
          /\ n = NsName(p, r) => p = x.publisher

LEMMA RenameStep ==
    ASSUME CommitInv, NEW d \in Caller, RenameRef(d)
    PROVE \E n : Renames(d, n)
<1>1. txn[d].pending \subseteq TxnNames(txn[d].publisher, txn[d].transition, txn[d].old)
  BY DEF CommitInv, TxnInv, Writing, RenameRef
<1>2. PICK n \in txn[d].pending :
        /\ txn' = [txn EXCEPT ![d] =
              InPhase(txn[d], IF txn[d].pending = {n} THEN "committed" ELSE "locked",
                      txn[d].pending \ {n})]
        /\ nsRef' = [p \in Publisher |-> [r \in RefName |->
              IF n = NsName(p, r) THEN RefsOf(txn[d].transition)[r] ELSE nsRef[p][r]]]
        /\ stateRef' = [p \in Publisher |->
              IF n = StateName(p) THEN txn[d].transition ELSE stateRef[p]]
        /\ transRef' = IF n = TransName(txn[d].transition)
                        THEN transRef \cup {txn[d].transition} ELSE transRef
  BY DEF RenameRef
<1>3. \A p \in Publisher, r \in RefName : n = NsName(p, r) => p = txn[d].publisher
  BY <1>1, <1>2, TxnNamesAre
<1>4. \A p \in Publisher : n = StateName(p) => p = txn[d].publisher
  BY <1>1, <1>2, TxnNamesAre
<1>5. Renames(d, n)
  BY <1>2, <1>3, <1>4 DEF RenameRef, Renames
<1> QED BY <1>5

LEMMA HeldStep ==
    ASSUME CommitInv, [Next]_vars
    PROVE \A c \in Caller : StateHeld(c)'
<1> USE DEF CommitInv, TypeInv, TypeOK, StateHeld
<1>1. CASE UNCHANGED <<storeVars, gitVars>>
  BY <1>1 DEF storeVars, gitVars
<1>2. ASSUME NEW d \in Caller, PromoteObject(d) PROVE \A c \in Caller : StateHeld(c)'
  BY <1>2 DEF PromoteObject, gitVars
<1>3. ASSUME NEW d \in Caller, SubmitUpdate(d) PROVE \A c \in Caller : StateHeld(c)'
  BY <1>3 DEF SubmitUpdate, Submitted, storeVars
<1>4. ASSUME NEW d \in Caller, PrepareRefs(d) PROVE \A c \in Caller : StateHeld(c)'
  BY <1>4 DEF PrepareRefs, OldValuesHold, InPhase, storeVars
<1>5. ASSUME NEW d \in Caller, RenameRef(d), NEW c \in Caller PROVE StateHeld(c)'
  <2>1. PICK n : Renames(d, n)
    BY <1>5, RenameStep
  <2> QED BY <2>1, NamesDiffer DEF Renames, InPhase, LocksExclusive, TxnInv, Writing
<1>6. ASSUME NEW d \in Caller, KillGit(d) PROVE \A c \in Caller : StateHeld(c)'
  BY <1>6 DEF KillGit, InPhase, storeVars
<1>7. ASSUME NEW d \in Caller, TxnEnds(d) PROVE \A c \in Caller : StateHeld(c)'
  BY <1>7 DEF TxnEnds, Writing, storeVars
<1> QED BY <1>1, <1>2, <1>3, <1>4, <1>5, <1>6, <1>7, StoreSteps
LEMMA CommitInit == Init => CommitInv
<1> SUFFICES ASSUME Init PROVE CommitInv
  OBVIOUS
<1>1. TypeInv
  BY TypeInit
<1>2. \A c \in Caller : pc[c] = "idle" /\ txn[c].phase = "none"
  BY DEF Init, NoTxn
<1> QED BY <1>1, <1>2 DEF CommitInv, CallerInv, TxnInv, Writing, StateHeld, LocksExclusive

LEMMA CommitStepInv == CommitInv /\ [Next]_vars => CommitInv'
<1> SUFFICES ASSUME CommitInv, [Next]_vars PROVE CommitInv'
  OBVIOUS
<1>1. TypeInv'
  BY TypeStep DEF CommitInv
<1>2. \A c \in Caller : CallerInv(c)'
  BY CallerStep DEF CommitInv
<1>3. (\A c \in Caller : TxnInv(c)') /\ LocksExclusive' /\ (\A c \in Caller : StateHeld(c)')
  BY TxnStep, LocksStep, HeldStep
<1> QED BY <1>1, <1>2, <1>3 DEF CommitInv

LEMMA CommitInvariant == Spec => []CommitInv
BY CommitInit, CommitStepInv, PTL DEF Spec

-----------------------------------------------------------------------------
(* The accepted state of a publisher moves to a verified child of itself   *)
(* and nowhere else, for any number of concurrent callers and any fault.   *)
LEMMA MoveStep ==
    CommitInv /\ [Next]_vars =>
        \A p \in Publisher : stateRef'[p] # stateRef[p] =>
            /\ stateRef'[p] # None
            /\ SignedFor(stateRef'[p], Selection[p])
            /\ Extends(stateRef'[p], stateRef[p])
<1> SUFFICES ASSUME CommitInv, [Next]_vars, NEW p \in Publisher, stateRef'[p] # stateRef[p]
             PROVE /\ stateRef'[p] # None
                   /\ SignedFor(stateRef'[p], Selection[p])
                   /\ Extends(stateRef'[p], stateRef[p])
  OBVIOUS
<1>1. PICK d \in Caller : RenameRef(d)
  BY StoreSteps DEF CommitInv, PromoteObject, SubmitUpdate, PrepareRefs, KillGit, TxnEnds, storeVars
<1>2. PICK n : Renames(d, n)
  BY <1>1, RenameStep
<1>3. /\ n = StateName(p)
      /\ p = txn[d].publisher
      /\ stateRef'[p] = txn[d].transition
  BY <1>2 DEF Renames
<1>4. stateRef[p] = txn[d].old
  BY <1>2, <1>3 DEF Renames, CommitInv, StateHeld
<1>5. /\ txn[d].transition \in Transition
      /\ SignedFor(txn[d].transition, Selection[p])
      /\ Extends(txn[d].transition, txn[d].old)
  BY <1>2, <1>3 DEF Renames, CommitInv, TxnInv, Writing
<1> QED BY <1>3, <1>4, <1>5, NoneAssumption

(* In particular sequences grow by one, and do not wrap. *)
THEOREM StateOnlyMovesToChild == Spec => StateMovesToChild
<1>1. CommitInv /\ [Next]_vars =>
        [\A p \in Publisher : stateRef'[p] # stateRef[p] =>
            /\ stateRef'[p] # None
            /\ SignedFor(stateRef'[p], Selection[p])
            /\ Payload[stateRef'[p]].parent = stateRef[p]
            /\ stateRef[p] # None =>
                    Payload[stateRef'[p]].sequence = Payload[stateRef[p]].sequence + 1]_vars
  BY MoveStep DEF Extends, NextSequence
<1> QED BY <1>1, CommitInvariant, PTL DEF Spec, StateMovesToChild

-----------------------------------------------------------------------------
(* No accepted reference and no renamed one dangles.                       *)
LEMMA ClosureInit == Init => AcceptedClosure
<1> SUFFICES ASSUME Init PROVE AcceptedClosure
  OBVIOUS
<1>1. \A p \in Publisher : stateRef[p] = None /\ nsRef[p] = NoRefs
  BY DEF Init
<1> QED BY <1>1, ReachNothing DEF AcceptedClosure, NoRefs

LEMMA ClosureStep == CommitInv /\ AcceptedClosure /\ [Next]_vars => AcceptedClosure'
<1> SUFFICES ASSUME CommitInv, AcceptedClosure, [Next]_vars PROVE AcceptedClosure'
  OBVIOUS
<1>1. odb \subseteq odb'
  BY ObjectsGrow DEF CommitInv
<1>2. CASE UNCHANGED <<stateRef, nsRef>>
  BY <1>1, <1>2 DEF AcceptedClosure
<1>3. ASSUME NEW d \in Caller, RenameRef(d) PROVE AcceptedClosure'
  <2> DEFINE t == txn[d].transition
  <2>1. PICK n : Renames(d, n)
    BY <1>3, RenameStep
  <2>2. Reach(Targets(t)) \subseteq odb
    BY <2>1 DEF Renames, CommitInv, TxnInv, Writing
  <2>3. ASSUME NEW p \in Publisher PROVE Reach(Targets(stateRef'[p])) \subseteq odb'
    BY <1>1, <2>1, <2>2 DEF Renames, AcceptedClosure
  <2>4. ASSUME NEW p \in Publisher, NEW r \in RefName, nsRef'[p][r] # None
        PROVE Reach({nsRef'[p][r]}) \subseteq odb'
    <3>1. CASE n = NsName(p, r)
      <4>1. nsRef'[p][r] = RefsOf(t)[r]
        BY <2>1, <3>1 DEF Renames
      <4> QED BY <1>1, <2>2, <2>4, <4>1, ReachTarget
    <3>2. CASE n # NsName(p, r)
      BY <1>1, <2>1, <2>4, <3>2 DEF Renames, AcceptedClosure
    <3> QED BY <3>1, <3>2
  <2> QED BY <2>3, <2>4 DEF AcceptedClosure
<1> QED BY <1>2, <1>3, StoreSteps
        DEF CommitInv, PromoteObject, SubmitUpdate, PrepareRefs, KillGit, TxnEnds, storeVars

(* Everything an accepted state or a namespace ref reaches is stored, at   *)
(* every step of every commit.                                             *)
THEOREM NothingDangles == Spec => []AcceptedClosure
<1>1. Init => AcceptedClosure
  BY ClosureInit
<1>2. CommitInv /\ AcceptedClosure /\ [Next]_vars => AcceptedClosure'
  BY ClosureStep
<1> QED BY <1>1, <1>2, CommitInvariant, PTL DEF Spec

-----------------------------------------------------------------------------
(* A namespace holds only what its owner's selected key signed into it.    *)
LEMMA SignedStep == CommitInv /\ NamespaceSigned /\ [Next]_vars => NamespaceSigned'
<1> SUFFICES ASSUME CommitInv, NamespaceSigned, [Next]_vars,
                    NEW p \in Publisher, NEW r \in RefName, nsRef'[p][r] # None
             PROVE \E t \in Transition :
                        SignedFor(t, Selection[p]) /\ Payload[t].refs[r] = nsRef'[p][r]
  BY DEF NamespaceSigned
<1>1. CASE nsRef'[p][r] = nsRef[p][r]
  BY <1>1 DEF NamespaceSigned
<1>2. CASE nsRef'[p][r] # nsRef[p][r]
  <2>1. PICK d \in Caller : RenameRef(d)
    BY <1>2, StoreSteps
    DEF CommitInv, PromoteObject, SubmitUpdate, PrepareRefs, KillGit, TxnEnds, storeVars
  <2>2. PICK n : Renames(d, n)
    BY <2>1, RenameStep
  <2>3. p = txn[d].publisher /\ nsRef'[p][r] = RefsOf(txn[d].transition)[r]
    BY <1>2, <2>2 DEF Renames
  <2>4. txn[d].transition \in Transition /\ SignedFor(txn[d].transition, Selection[p])
    BY <2>2, <2>3 DEF Renames, CommitInv, TxnInv, Writing
  <2> QED BY <2>3, <2>4, NoneAssumption DEF RefsOf
<1> QED BY <1>1, <1>2

THEOREM OwnerSignedNamespace == Spec => []NamespaceSigned
<1>1. Init => NamespaceSigned
  BY DEF Init, NamespaceSigned, NoRefs
<1> QED BY <1>1, SignedStep, CommitInvariant, PTL DEF Spec
-----------------------------------------------------------------------------
(* Namespaces and states agree outside the locks.                          *)
LEMMA NamespaceInit == Init => NamespaceInv
<1> SUFFICES ASSUME Init PROVE NamespaceInv
  OBVIOUS
<1>1. \A p \in Publisher, r \in RefName : nsRef[p][r] = RefsOf(stateRef[p])[r]
  BY DEF Init, RefsOf
<1>2. \A c \in Caller : txn[c].phase = "none"
  BY DEF Init, NoTxn
<1> QED BY <1>1, <1>2, CommitInit DEF NamespaceInv, NamespaceMatchesState, RefHeld

(* How the locks change: taken together, released one by one, and kept by  *)
(* every other step (those of a killed process stay behind as files).      *)
LEMMA LocksTaken ==
    ASSUME TypeInv, NEW d \in Caller, PrepareRefs(d)
    PROVE \A n : n \in Locked' <=> n \in Locked \/ n \in txn[d].pending
<1>1. txn' = [txn EXCEPT ![d] = InPhase(txn[d], "locked", txn[d].pending)] /\ staleLocks' = staleLocks
  BY DEF PrepareRefs
<1>2. txn[d].phase = "submitted"
  BY DEF PrepareRefs
<1> QED BY <1>1, <1>2, LockedBy DEF TypeInv, TypeOK, InPhase, Locked

LEMMA LocksReleased ==
    ASSUME CommitInv, NEW d \in Caller, NEW n, Renames(d, n)
    PROVE /\ n \in Locked
          /\ \A m : m \in Locked' <=> m \in Locked /\ m # n
<1> DEFINE x == txn[d]
<1>1. /\ n \in x.pending /\ x.phase = "locked"
      /\ txn' = [txn EXCEPT ![d] =
            InPhase(x, IF x.pending = {n} THEN "committed" ELSE "locked", x.pending \ {n})]
      /\ staleLocks' = staleLocks
  BY DEF Renames
<1>2. n \in Locked
  BY <1>1, LockedBy
<1>3. n \notin staleLocks /\ \A c \in Caller : c # d /\ txn[c].phase = "locked" => n \notin txn[c].pending
  BY <1>1 DEF CommitInv, LocksExclusive
<1>4. \A m : m \in Locked' <=> m \in Locked /\ m # n
  <2> USE DEF CommitInv, TypeInv, TypeOK
  <2>1. \A m : m \in Locked' <=> m \in staleLocks' \/
            \E c \in Caller : txn'[c].phase = "locked" /\ m \in txn'[c].pending
    BY DEF Locked
  <2>2. \A c \in Caller : c # d => txn'[c] = txn[c]
    BY <1>1
  <2>3. \A m : (txn'[d].phase = "locked" /\ m \in txn'[d].pending) <=> m \in x.pending \ {n}
    BY <1>1 DEF InPhase
  <2> QED BY <1>1, <1>3, <2>1, <2>2, <2>3, LockedBy
<1> QED BY <1>2, <1>4

LEMMA LocksKept ==
    ASSUME TypeInv, NEW d \in Caller,
           PromoteObject(d) \/ SubmitUpdate(d) \/ KillGit(d) \/ TxnEnds(d)
    PROVE \A n : n \in Locked' <=> n \in Locked
<1> USE DEF TypeInv, TypeOK
<1>1. \A n : n \in Locked' <=> n \in staleLocks' \/
          \E c \in Caller : txn'[c].phase = "locked" /\ n \in txn'[c].pending
  BY DEF Locked
<1>2. CASE KillGit(d)
  BY <1>1, <1>2, LockedBy DEF KillGit, InPhase
<1>3. CASE PromoteObject(d)
  BY <1>1, <1>3, LockedBy DEF PromoteObject, gitVars
<1>4. CASE SubmitUpdate(d)
  BY <1>1, <1>4, LockedBy DEF SubmitUpdate, Submitted
<1>5. CASE TxnEnds(d)
  BY <1>1, <1>5, LockedBy DEF TxnEnds
<1> QED BY <1>2, <1>3, <1>4, <1>5

(* A transaction takes its locks: everything it names still has the old    *)
(* value, and what it does not name is nobody's business but its own.      *)
LEMMA PrepareKeeps ==
    ASSUME NamespaceInv, NEW d \in Caller, PrepareRefs(d)
    PROVE NamespaceMatchesState' /\ \A c \in Caller, r \in RefName : RefHeld(c, r)'
<1> USE DEF NamespaceInv, CommitInv, TypeInv, TypeOK
<1> DEFINE x == txn[d]
<1>1. /\ x.phase = "submitted"
      /\ x.pending \cap Locked = {}
      /\ txn' = [txn EXCEPT ![d] = InPhase(x, "locked", x.pending)]
      /\ UNCHANGED <<stateRef, nsRef, staleLocks>>
  BY DEF PrepareRefs, storeVars
<1>2. x.pending = TxnNames(x.publisher, x.transition, x.old) /\ x.publisher \in Publisher
  BY <1>1 DEF TxnInv, Writing
<1>3. \A n : n \in Locked' <=> n \in Locked \/ n \in x.pending
  BY LocksTaken
<1>4. NamespaceMatchesState'
  BY <1>1, <1>3 DEF NamespaceMatchesState
<1>5. \A r \in RefName : NsName(x.publisher, r) \in x.pending =>
            nsRef[x.publisher][r] = RefsOf(x.old)[r]
  BY <1>2 DEF PrepareRefs, OldValuesHold
<1>6. stateRef[x.publisher] = x.old /\ StateName(x.publisher) \in x.pending
  BY <1>2, TxnNamesAre DEF PrepareRefs, OldValuesHold
<1>7. \A r \in RefName : NsName(x.publisher, r) \notin x.pending =>
            RefsOf(x.transition)[r] = None /\ RefsOf(x.old)[r] = None
  BY <1>2, TxnNamesAre
<1>8. ASSUME NEW r \in RefName PROVE RefHeld(d, r)'
  <2>1. NsName(x.publisher, r) \notin Locked' => nsRef[x.publisher][r] = RefsOf(x.transition)[r]
    BY <1>1, <1>2, <1>3, <1>6, <1>7 DEF NamespaceMatchesState
  <2> QED BY <1>1, <1>5, <1>6, <1>7, <2>1 DEF RefHeld, InPhase
<1>9. ASSUME NEW c \in Caller, c # d, NEW r \in RefName PROVE RefHeld(c, r)'
  <2>1. txn'[c] = txn[c]
    BY <1>1, <1>9
  <2>2. SUFFICES ASSUME txn[c].phase = "locked" PROVE RefHeld(c, r)'
    BY <2>1 DEF RefHeld
  <2>3. \A n \in txn[c].pending : n \in Locked
    BY <2>2, LockedBy
  <2>4. StateName(txn[c].publisher) \in txn[c].pending => txn[c].publisher # x.publisher
    BY <1>1, <1>6, <2>3
  <2>5. NsName(txn[c].publisher, r) \in x.pending => txn[c].publisher = x.publisher
    BY <1>2, TxnNamesAre
  <2>6. RefHeld(c, r)
    OBVIOUS
  <2> QED BY <1>1, <1>3, <2>1, <2>2, <2>4, <2>5, <2>6 DEF RefHeld
<1> QED BY <1>4, <1>8, <1>9

(* One ref is renamed: a namespace ref falls in line with the state, or    *)
(* the state falls in line with what the transaction already wrote.        *)
LEMMA RenameKeeps ==
    ASSUME NamespaceInv, NEW d \in Caller, RenameRef(d)
    PROVE NamespaceMatchesState' /\ \A c \in Caller, r \in RefName : RefHeld(c, r)'
<1> USE DEF NamespaceInv, CommitInv, TypeInv, TypeOK
<1> DEFINE x == txn[d]
<1>1. PICK n : Renames(d, n)
  BY RenameStep
<1>2. /\ n \in x.pending /\ x.phase = "locked"
      /\ txn' = [txn EXCEPT ![d] =
            InPhase(x, IF x.pending = {n} THEN "committed" ELSE "locked", x.pending \ {n})]
      /\ staleLocks' = staleLocks
      /\ x.publisher \in Publisher
  BY <1>1 DEF Renames, TxnInv, Writing
<1>3. n \notin staleLocks /\ \A c \in Caller : c # d /\ txn[c].phase = "locked" => n \notin txn[c].pending
  BY <1>2 DEF LocksExclusive
<1>4. \A m : m \in Locked' <=> m \in Locked /\ m # n
  BY <1>1, LocksReleased
<1>5. n \in Locked
  BY <1>1, LocksReleased
<1>6. \A c \in Caller : txn[c].phase = "locked" => txn[c].publisher \in Publisher
  BY DEF TxnInv, Writing
<1>7. CASE \E p \in Publisher, v \in RefName : n = NsName(p, v)
  <2>1. PICK p \in Publisher, v \in RefName : n = NsName(p, v)
    BY <1>7
  <2>2. p = x.publisher /\ nsRef'[p][v] = RefsOf(x.transition)[v]
    BY <1>1, <2>1 DEF Renames
  <2>3. \A q \in Publisher : stateRef'[q] = stateRef[q]
    BY <1>1, <2>1, NamesDiffer DEF Renames
  <2>4. \A q \in Publisher, r \in RefName : ~(q = p /\ r = v) => nsRef'[q][r] = nsRef[q][r]
    BY <1>1, <2>1, NamesDiffer DEF Renames
  <2>5. StateName(p) \notin x.pending => RefsOf(stateRef[p])[v] = RefsOf(x.transition)[v]
    BY <1>2, <2>1, <2>2 DEF RefHeld
  <2>6. NamespaceMatchesState'
    <3>1. ASSUME NEW q \in Publisher, NEW r \in RefName,
                 NsName(q, r) \notin Locked', StateName(q) \notin Locked'
          PROVE nsRef'[q][r] = RefsOf(stateRef'[q])[r]
      <4>1. StateName(q) \notin Locked
        BY <1>4, <2>1, <3>1, NamesDiffer
      <4>2. CASE q = p /\ r = v
        BY <1>2, <2>2, <2>3, <2>5, <4>1, <4>2, LockedBy
      <4>3. CASE ~(q = p /\ r = v)
        <5>1. NsName(q, r) \notin Locked
          BY <1>4, <2>1, <3>1, <4>3, NamesDiffer
        <5> QED BY <2>3, <2>4, <4>1, <4>3, <5>1 DEF NamespaceMatchesState
      <4> QED BY <4>2, <4>3
    <3> QED BY <3>1 DEF NamespaceMatchesState
  <2>7. ASSUME NEW r \in RefName PROVE RefHeld(d, r)'
    <3>1. RefHeld(d, r)
      OBVIOUS
    <3>2. NsName(p, r) \in Locked' => NsName(p, r) \in Locked /\ r # v
      BY <1>4, <2>1
    <3>3. r # v => NsName(p, r) # n
      BY <2>1, NamesDiffer
    <3>4. StateName(p) # n
      BY <2>1, NamesDiffer
    <3> QED BY <1>2, <1>4, <2>1, <2>2, <2>3, <2>4, <3>1, <3>2, <3>3, <3>4 DEF RefHeld, InPhase
  <2>8. ASSUME NEW c \in Caller, c # d, NEW r \in RefName PROVE RefHeld(c, r)'
    <3> DEFINE y == txn[c]
    <3>1. SUFFICES ASSUME y.phase = "locked" PROVE RefHeld(c, r)'
      BY <1>2 DEF RefHeld
    <3>2. txn'[c] = y /\ RefHeld(c, r) /\ y.publisher \in Publisher
      BY <1>2, <1>6, <2>8, <3>1
    <3>3. CASE y.publisher = p /\ r = v
      <4>1. n \notin y.pending
        BY <1>3, <2>8, <3>1
      <4>2. StateName(p) \in y.pending => nsRef'[p][v] = RefsOf(y.transition)[v]
        <5>1. SUFFICES ASSUME StateName(p) \in y.pending
                       PROVE RefsOf(x.transition)[v] = RefsOf(y.transition)[v]
          BY <2>2
        <5>2. StateName(p) \notin x.pending
          BY <1>2, <2>8, <3>1, <5>1 DEF LocksExclusive
        <5>3. RefsOf(y.transition)[v] = RefsOf(y.old)[v]
          BY <1>5, <2>1, <3>1, <3>2, <3>3, <4>1, <5>1 DEF RefHeld
        <5>4. stateRef[p] = y.old
          BY <3>1, <3>3, <5>1 DEF StateHeld
        <5> QED BY <2>5, <5>2, <5>3, <5>4
      <4> QED BY <1>4, <2>1, <3>2, <3>3, <4>1, <4>2 DEF RefHeld
    <3>4. CASE ~(y.publisher = p /\ r = v)
      <4>1. NsName(y.publisher, r) # n
        BY <2>1, <3>4, NamesDiffer
      <4> QED BY <1>4, <2>3, <2>4, <3>1, <3>2, <3>4, <4>1 DEF RefHeld
    <3> QED BY <3>3, <3>4
  <2> QED BY <2>6, <2>7, <2>8
<1>8. CASE \E p \in Publisher : n = StateName(p)
  <2>1. PICK p \in Publisher : n = StateName(p)
    BY <1>8
  <2>2. p = x.publisher /\ stateRef'[p] = x.transition /\ stateRef[p] = x.old
    BY <1>1, <1>2, <2>1 DEF Renames, StateHeld
  <2>3. \A q \in Publisher : q # p => stateRef'[q] = stateRef[q]
    BY <1>1, <2>1, NamesDiffer DEF Renames
  <2>4. \A q \in Publisher, r \in RefName : nsRef'[q][r] = nsRef[q][r]
    BY <1>1, <2>1, NamesDiffer DEF Renames
  <2>5. \A q \in Publisher, r \in RefName : NsName(q, r) \in Locked' <=> NsName(q, r) \in Locked
    BY <1>4, <2>1, NamesDiffer
  <2>6. NamespaceMatchesState'
    <3>1. ASSUME NEW q \in Publisher, NEW r \in RefName,
                 NsName(q, r) \notin Locked', StateName(q) \notin Locked'
          PROVE nsRef'[q][r] = RefsOf(stateRef'[q])[r]
      <4>1. CASE q = p
        BY <1>2, <2>1, <2>2, <2>4, <2>5, <3>1, <4>1 DEF RefHeld
      <4>2. CASE q # p
        <5>1. StateName(q) \notin Locked
          BY <1>4, <2>1, <3>1, <4>2, NamesDiffer
        <5> QED BY <2>3, <2>4, <2>5, <3>1, <4>2, <5>1 DEF NamespaceMatchesState
      <4> QED BY <4>1, <4>2
    <3> QED BY <3>1 DEF NamespaceMatchesState
  <2>7. ASSUME NEW r \in RefName PROVE RefHeld(d, r)'
    <3>1. NsName(p, r) # n
      BY <2>1, NamesDiffer
    <3>2. RefHeld(d, r)
      OBVIOUS
    <3> QED BY <1>2, <2>1, <2>2, <2>4, <3>1, <3>2 DEF RefHeld, InPhase
  <2>8. ASSUME NEW c \in Caller, c # d, NEW r \in RefName PROVE RefHeld(c, r)'
    <3> DEFINE y == txn[c]
    <3>1. SUFFICES ASSUME y.phase = "locked" PROVE RefHeld(c, r)'
      BY <1>2 DEF RefHeld
    <3>2. txn'[c] = y /\ RefHeld(c, r) /\ y.publisher \in Publisher
      BY <1>2, <1>6, <2>8, <3>1
    <3>3. n \notin y.pending
      BY <1>3, <2>8, <3>1
    <3>4. CASE y.publisher = p
      <4>1. NsName(p, r) \in y.pending => RefsOf(x.transition)[r] = RefsOf(y.transition)[r]
        <5>1. SUFFICES ASSUME NsName(p, r) \in y.pending
                       PROVE RefsOf(x.transition)[r] = RefsOf(y.transition)[r]
          OBVIOUS
        <5>2. NsName(p, r) \in Locked /\ NsName(p, r) \notin x.pending
          BY <1>2, <2>8, <3>1, <5>1, LockedBy DEF LocksExclusive
        <5>3. RefsOf(x.transition)[r] = RefsOf(x.old)[r]
          BY <1>2, <2>1, <2>2, <5>2 DEF RefHeld
        <5>4. RefsOf(stateRef[p])[r] = RefsOf(y.transition)[r]
          BY <2>1, <3>1, <3>2, <3>3, <3>4, <5>1 DEF RefHeld
        <5> QED BY <2>2, <5>3, <5>4
      <4> QED BY <2>1, <2>2, <2>4, <2>5, <3>1, <3>2, <3>3, <3>4, <4>1 DEF RefHeld
    <3>5. CASE y.publisher # p
      BY <2>3, <2>4, <2>5, <3>1, <3>2, <3>5 DEF RefHeld
    <3> QED BY <3>4, <3>5
  <2> QED BY <2>6, <2>7, <2>8
<1>9. CASE /\ \A p \in Publisher, r \in RefName : n # NsName(p, r)
           /\ \A p \in Publisher : n # StateName(p)
  <2>1. \A q \in Publisher : stateRef'[q] = stateRef[q] /\ \A r \in RefName : nsRef'[q][r] = nsRef[q][r]
    BY <1>1, <1>9 DEF Renames
  <2>2. \A q \in Publisher, r \in RefName :
            /\ NsName(q, r) \in Locked' <=> NsName(q, r) \in Locked
            /\ StateName(q) \in Locked' <=> StateName(q) \in Locked
    BY <1>4, <1>9
  <2>3. NamespaceMatchesState'
    BY <2>1, <2>2 DEF NamespaceMatchesState
  <2>4. ASSUME NEW c \in Caller, NEW r \in RefName PROVE RefHeld(c, r)'
    <3>1. CASE c = d
      BY <1>2, <1>9, <2>1, <2>2, <3>1 DEF RefHeld, InPhase
    <3>2. CASE c # d
      BY <1>2, <1>6, <2>1, <2>2, <3>2 DEF RefHeld
    <3> QED BY <3>1, <3>2
  <2> QED BY <2>3, <2>4
<1> QED BY <1>7, <1>8, <1>9

(* A killed process leaves its locks: the locked names stay the same.      *)
LEMMA OthersKeep ==
    ASSUME NamespaceInv, NEW d \in Caller,
           PromoteObject(d) \/ SubmitUpdate(d) \/ KillGit(d) \/ TxnEnds(d)
    PROVE NamespaceMatchesState' /\ \A c \in Caller, r \in RefName : RefHeld(c, r)'
<1> USE DEF NamespaceInv, CommitInv, TypeInv, TypeOK
<1>1. UNCHANGED <<stateRef, nsRef>>
  BY DEF PromoteObject, SubmitUpdate, KillGit, TxnEnds, storeVars
<1>2. \A c \in Caller : txn'[c].phase = "locked" => txn'[c] = txn[c]
  BY DEF PromoteObject, SubmitUpdate, KillGit, TxnEnds, gitVars, Submitted, InPhase, Writing
<1>3. \A n : n \in Locked' <=> n \in Locked
  BY LocksKept
<1>4. NamespaceMatchesState'
  BY <1>1, <1>3 DEF NamespaceMatchesState
<1> QED BY <1>1, <1>2, <1>3, <1>4 DEF RefHeld

LEMMA NamespaceStep == NamespaceInv /\ [Next]_vars => NamespaceInv'
<1> SUFFICES ASSUME NamespaceInv, [Next]_vars PROVE NamespaceInv'
  OBVIOUS
<1>1. CommitInv'
  BY CommitStepInv DEF NamespaceInv
<1>2. CASE UNCHANGED <<storeVars, gitVars>>
  <2>1. Locked' = Locked
    BY <1>2 DEF gitVars, Locked
  <2> QED BY <1>1, <1>2, <2>1 DEF NamespaceInv, NamespaceMatchesState, RefHeld, storeVars, gitVars
<1>3. ASSUME NEW d \in Caller, PrepareRefs(d) PROVE NamespaceInv'
  BY <1>1, <1>3, PrepareKeeps DEF NamespaceInv
<1>4. ASSUME NEW d \in Caller, RenameRef(d) PROVE NamespaceInv'
  BY <1>1, <1>4, RenameKeeps DEF NamespaceInv
<1>5. ASSUME NEW d \in Caller, PromoteObject(d) \/ SubmitUpdate(d) \/ KillGit(d) \/ TxnEnds(d)
      PROVE NamespaceInv'
  BY <1>1, <1>5, OthersKeep DEF NamespaceInv
<1> QED BY <1>2, <1>3, <1>4, <1>5, StoreSteps DEF NamespaceInv, CommitInv

(* Whatever transactions race, abort or are killed halfway, a namespace    *)
(* ref without a lock agrees with the accepted state.                      *)
THEOREM NamespaceAgrees == Spec => []NamespaceMatchesState
<1>1. NamespaceInv => NamespaceMatchesState
  BY DEF NamespaceInv
<1> QED BY <1>1, NamespaceInit, NamespaceStep, PTL DEF Spec
=============================================================================
