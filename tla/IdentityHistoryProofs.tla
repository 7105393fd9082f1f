------------------------ MODULE IdentityHistoryProofs ------------------------
(***************************************************************************)
(* Proofs about IdentityHistory, for every set of identities, documents,   *)
(* verifiers and copies, any number of keys and any length of histories.   *)
(* Only what is said of signers needs that identities have keys of their   *)
(* own.                                                                    *)
(***************************************************************************)
EXTENDS IdentityHistory, FiniteSetTheorems, TLAPS

-----------------------------------------------------------------------------
(* What the documents, the copies and the histories look like.             *)

Policy(d) == d.delegates \subseteq Identity /\ d.threshold \in Nat

Drafted(t) ==
    /\ t = [payload |-> t.payload, approvals |-> t.approvals]
    /\ t.payload.document \in Document

Domains ==
    /\ DOMAIN state = Verifier
    /\ DOMAIN draft = Draft
    /\ DOMAIN current = Identity
    /\ DOMAIN selection = Verifier
    /\ \A v \in Verifier : DOMAIN selection[v] = Identity
    /\ DOMAIN accepted = Verifier

Documents ==
    /\ \A c \in Draft : draft[c] # None => Drafted(draft[c])
    /\ \A v \in Verifier : Policy(state[v].document)
    /\ \A v \in Verifier : \A t \in accepted[v] : Policy(PolicyOver(t))

IInv == TypeOK /\ Domains /\ Documents /\ OneLine

(* Each approval in circulation was made with a key of somebody who        *)
(* approved the payload it is over, however it is labelled.                *)
Made(a) ==
    \E i \in Identity : \E e \in 0 .. LastEpoch[i] :
        a.key = KeyOf[i][e] /\ <<i, a.over>> \in signed

ApprovalsMade ==
    \A c \in Draft : draft[c] # None => \A a \in draft[c].approvals : Made(a)

LEMMA DocumentPolicy == \A d \in Document : Policy(d)
BY DocumentAssumption DEF Policy

(* Signers are among the delegates of the policy, which are finitely many. *)
LEMMA SignersFinite ==
    ASSUME NEW t, Policy(PolicyOver(t))
    PROVE  /\ Signers(t) \subseteq PolicyOver(t).delegates
           /\ IsFiniteSet(PolicyOver(t).delegates)
           /\ IsFiniteSet(Signers(t))
<1>1. Signers(t) \subseteq PolicyOver(t).delegates
  BY DEF Signers
<1>2. IsFiniteSet(PolicyOver(t).delegates)
  BY DocumentAssumption, FS_Subset DEF Policy
<1> QED BY <1>1, <1>2, FS_Subset

(* What arrives has the payload of the copy, whatever became of its        *)
(* approvals.                                                              *)
LEMMA ArrivingPayload ==
    ASSUME NEW c \in Draft, Drafted(draft[c]), NEW t \in Arriving(c)
    PROVE  Drafted(t)
<1> QED BY DEF Arriving, Drafted

-----------------------------------------------------------------------------
(* What arrives has approvals that are made.                               *)
LEMMA ArrivingMade ==
    ASSUME ApprovalsMade, \A b \in Draft : draft[b] # None => Drafted(draft[b]),
           NEW c \in Draft, draft[c] # None, NEW t \in Arriving(c), NEW a \in t.approvals
    PROVE  Made(a)
<1> DEFINE own == draft[c].approvals
<1>1. \A x \in own : Made(x)
  BY DEF ApprovalsMade
<1>2. PICK approvals : /\ t = [payload |-> draft[c].payload, approvals |-> approvals]
                       /\ \/ approvals = own
                          \/ \E b \in Draft : draft[b] # None /\ approvals = own \cup draft[b].approvals
                          \/ \E x \in own : approvals = own \cup {Again(x)}
                          \/ \E x \in own, l \in Labels :
                                \/ approvals = (own \ {x}) \cup {Relabelled(x, l)}
                                \/ approvals = own \cup {Relabelled(x, l)}
  BY DEF Arriving
<1>3. t.approvals = approvals
  BY <1>2
<1>4. ASSUME NEW x, NEW l PROVE Made(x) => Made(Again(x)) /\ Made(Relabelled(x, l))
  BY DEF Made, Again, Relabelled, Approval
<1>5. CASE approvals = own
  BY <1>1, <1>3, <1>5
<1>6. CASE \E b \in Draft : draft[b] # None /\ approvals = own \cup draft[b].approvals
  BY <1>1, <1>3, <1>6 DEF ApprovalsMade
<1>7. CASE \E x \in own : approvals = own \cup {Again(x)}
  BY <1>1, <1>3, <1>4, <1>7
<1>8. CASE \E x \in own, l \in Labels : \/ approvals = (own \ {x}) \cup {Relabelled(x, l)}
                                          \/ approvals = own \cup {Relabelled(x, l)}
  BY <1>1, <1>3, <1>4, <1>8
<1> QED BY <1>2, <1>5, <1>6, <1>7, <1>8

-----------------------------------------------------------------------------
(* One transition that verifies.  Approvals that are counted come from     *)
(* different signers, so that there are no more of them than signers.      *)
LEMMA VerifiedIsSigned ==
    ASSUME KeysOwn, NEW s, NEW t, NEW v \in Verifier,
           TypeOK, Policy(s.document), PolicyOver(t) = s.document,
           Verifies(t, s, selection[v]), \A a \in t.approvals : Made(a)
    PROVE  Cardinality(Signers(t)) >= PolicyOver(t).threshold
<1> DEFINE C == Counted(t, s)
           name == [a \in C |-> a.identity]
<1>1. \A a \in C : Genuine(a, t.payload, selection[v]) /\ a.identity \in s.document.delegates
             /\ a \in t.approvals
  BY DEF Verifies, Counted
<1>2. \A a \in C : a.identity \in Signers(t)
  <2> SUFFICES ASSUME NEW a \in C PROVE a.identity \in Signers(t)
    OBVIOUS
  <2>1. a.identity \in Identity /\ a.identity \in PolicyOver(t).delegates
    BY <1>1 DEF Policy
  <2>2. selection[v][a.identity] \in 0 .. LastEpoch[a.identity]
    BY <1>1, <2>1 DEF Genuine, TypeOK
  <2>3. a.key = KeyOf[a.identity][selection[v][a.identity]] /\ a.over = t.payload
    BY <1>1 DEF Genuine
  <2>4. PICK i \in Identity : \E e \in 0 .. LastEpoch[i] :
            a.key = KeyOf[i][e] /\ <<i, a.over>> \in signed
    BY <1>1 DEF Made
  <2>5. i = a.identity
    BY <2>1, <2>2, <2>3, <2>4 DEF KeysOwn
  <2> QED BY <2>1, <2>3, <2>4, <2>5 DEF Signers
<1>3. \A a, b \in C : a.identity = b.identity => a = b
  BY <1>1 DEF Verifies, Distinct
<1>4. name \in Injection(C, Signers(t))
  BY <1>2, <1>3 DEF Injection, IsInjective
<1>5. IsFiniteSet(Signers(t))
  BY SignersFinite
<1>6. IsFiniteSet(C) /\ Cardinality(C) <= Cardinality(Signers(t))
  BY <1>4, <1>5, FS_Injection
<1>7. Cardinality(C) \in Nat /\ Cardinality(Signers(t)) \in Nat
  BY <1>5, <1>6, FS_CardinalityType
<1>8. Cardinality(C) >= s.document.threshold
  BY DEF Verifies
<1> QED BY <1>6, <1>7, <1>8 DEF Policy

(* The policy over a transition is the one of the state it verified after. *)
LEMMA PolicyOfPrior ==
    ASSUME NEW t, NEW v \in Verifier, TypeOK, Verifies(t, state[v], selection[v])
    PROVE  PolicyOver(t) = state[v].document
<1>1. t.payload.parent = state[v].transition /\ t.payload.sequence = state[v].sequence + 1
  BY DEF Verifies
<1>2. CASE state[v] = Initial
  BY <1>1, <1>2 DEF Initial, PolicyOver
<1>3. CASE state[v].sequence > 0 /\ state[v] = After(state[v].transition)
  <2>1. t.payload.sequence # 1
    BY <1>1, <1>3 DEF TypeOK
  <2>2. state[v].document = state[v].transition.payload.document
    BY <1>3 DEF After
  <2> QED BY <1>1, <2>1, <2>2 DEF PolicyOver
<1> QED BY <1>2, <1>3 DEF TypeOK

-----------------------------------------------------------------------------
LEMMA InvInit == Init => IInv
<1> SUFFICES ASSUME Init PROVE IInv
  OBVIOUS
<1>1. TypeOK
  BY FoundingAssumption, EpochAssumption, IdentitySequenceAssumption DEF Init, TypeOK, Initial
<1>2. Domains
  BY DEF Init, Domains
<1>3. Documents
  BY DocumentAssumption DEF Init, Documents, Policy, Initial
<1>4. OneLine
  BY DEF Init, OneLine
<1> QED BY <1>1, <1>2, <1>3, <1>4 DEF IInv

(* Everything but Accept leaves the states and the histories alone.        *)
LEMMA InvBystander ==
    ASSUME IInv, UNCHANGED <<state, accepted>>,
           DOMAIN draft' = Draft, DOMAIN current' = Identity, DOMAIN selection' = Verifier,
           \A v \in Verifier : DOMAIN selection'[v] = Identity,
           \A c \in Draft : draft'[c] # None => Drafted(draft'[c]),
           \A i \in Identity : current'[i] \in 0 .. LastEpoch[i],
           \A v \in Verifier, i \in Identity : selection'[v][i] \in (0 .. LastEpoch[i]) \cup {None}
    PROVE  IInv'
<1>1. TypeOK'
  BY DEF IInv, TypeOK
<1>2. Domains'
  BY DEF IInv, Domains
<1>3. Documents'
  BY DEF IInv, Documents
<1>4. OneLine'
  BY DEF IInv, OneLine
<1> QED BY <1>1, <1>2, <1>3, <1>4 DEF IInv

LEMMA InvPropose ==
    ASSUME IInv, NEW v \in Verifier, NEW c \in Draft, NEW d \in Document, Propose(v, c, d)
    PROVE  IInv'
<1>1. Drafted(Proposal(state[v], d))
  BY DEF Drafted, Proposal
<1>2. /\ DOMAIN draft' = Draft
      /\ \A b \in Draft : draft'[b] # None => Drafted(draft'[b])
  BY <1>1 DEF Propose, IInv, Domains, Documents
<1> QED BY <1>2, InvBystander DEF Propose, IInv, Domains, TypeOK

LEMMA InvApprove ==
    ASSUME IInv, NEW i \in Identity, NEW c \in Draft, Approve(i, c)
    PROVE  IInv'
<1>1. Drafted(draft[c])
  BY DEF Approve, IInv, Documents
<1>2. Drafted(Approved(draft[c], i, current[i]))
  <2> DEFINE approvals == {a \in draft[c].approvals : a.identity # i}
                              \cup {Approval(i, current[i], KeyOf[i][current[i]], draft[c].payload, FALSE)}
  <2>1. Approved(draft[c], i, current[i]) = [draft[c] EXCEPT !.approvals = approvals]
    BY DEF Approved
  <2> HIDE DEF approvals
  <2>2. [draft[c] EXCEPT !.approvals = approvals]
            = [payload |-> draft[c].payload, approvals |-> approvals]
    BY <1>1 DEF Drafted
  <2> QED BY <1>1, <2>1, <2>2 DEF Drafted
<1>3. /\ DOMAIN draft' = Draft
      /\ \A b \in Draft : draft'[b] # None => Drafted(draft'[b])
  BY <1>2 DEF Approve, IInv, Domains, Documents
<1> QED BY <1>3, InvBystander DEF Approve, IInv, Domains, TypeOK

LEMMA InvRekey ==
    ASSUME IInv, NEW i \in Identity, Rekey(i)
    PROVE  IInv'
<1>1. current' = [current EXCEPT ![i] = @ + 1] /\ DOMAIN current = Identity
  BY DEF Rekey, IInv, Domains
<1>2. LastEpoch[i] \in Nat /\ current[i] \in 0 .. LastEpoch[i] /\ current[i] < LastEpoch[i]
  BY EpochAssumption DEF Rekey, IInv, TypeOK
<1>3. \A j \in Identity : current'[j] = IF j = i THEN current[i] + 1 ELSE current[j]
  BY <1>1
<1>4. \A j \in Identity : current'[j] \in 0 .. LastEpoch[j]
  BY <1>2, <1>3 DEF IInv, TypeOK
<1>5. DOMAIN current' = Identity
  BY <1>1
<1> QED BY <1>4, <1>5, InvBystander DEF Rekey, IInv, Domains, TypeOK, Documents

LEMMA InvSelect ==
    ASSUME IInv, NEW v \in Verifier, NEW i \in Identity, Select(v, i)
    PROVE  IInv'
<1>1. /\ DOMAIN selection' = Verifier
      /\ \A w \in Verifier : DOMAIN selection'[w] = Identity
      /\ \A w \in Verifier, j \in Identity : selection'[w][j] \in (0 .. LastEpoch[j]) \cup {None}
  BY DEF Select, IInv, Domains, TypeOK
<1> QED BY <1>1, InvBystander DEF Select, IInv, Domains, TypeOK, Documents

LEMMA InvAccept ==
    ASSUME IInv, NEW v \in Verifier, NEW c \in Draft, Accept(v, c)
    PROVE  IInv'
<1>1. PICK t \in Arriving(c) :
        /\ Verifies(t, state[v], selection[v])
        /\ state' = [state EXCEPT ![v] = After(t)]
        /\ accepted' = [accepted EXCEPT ![v] = @ \cup {t}]
  BY DEF Accept
<1>2. UNCHANGED <<draft, current, selection>> /\ Drafted(draft[c])
  BY DEF Accept, IInv, Documents
<1>3. Drafted(t)
  BY <1>2, ArrivingPayload
<1>4. PolicyOver(t) = state[v].document
  BY <1>1, PolicyOfPrior DEF IInv
<1>5. /\ state'[v] = After(t) /\ accepted'[v] = accepted[v] \cup {t}
      /\ \A w \in Verifier \ {v} : state'[w] = state[w] /\ accepted'[w] = accepted[w]
      /\ DOMAIN state' = Verifier /\ DOMAIN accepted' = Verifier
  BY <1>1 DEF IInv, Domains
<1>6. /\ t.payload.parent = state[v].transition
      /\ t.payload.sequence = state[v].sequence + 1
      /\ state[v].sequence \in 0 .. MaxSequence /\ state[v].sequence # MaxSequence
      /\ Valid(t.payload.document)
  BY <1>1 DEF Verifies, Exhausted, IInv, TypeOK
<1>7. /\ After(t).sequence = state[v].sequence + 1
      /\ After(t).transition = t /\ After(t).document = t.payload.document
  BY <1>6 DEF After
<1>8. /\ After(t).sequence \in 0 .. MaxSequence /\ After(t).sequence > 0
      /\ Valid(After(t).document) /\ After(t) = After(After(t).transition)
  BY <1>6, <1>7, IdentitySequenceAssumption
<1>9. TypeOK'
  BY <1>2, <1>5, <1>8 DEF IInv, TypeOK
<1>10. Domains'
  BY <1>2, <1>5 DEF IInv, Domains
<1>11. Documents'
  <2>1. Policy(After(t).document)
    BY <1>3, <1>7, DocumentPolicy DEF Drafted
  <2>2. Policy(PolicyOver(t))
    BY <1>4 DEF IInv, Documents
  <2> QED BY <1>2, <1>5, <2>1, <2>2 DEF IInv, Documents
<1>12. OneLine'
  <2>1. \A u \in accepted[v] : u.payload.sequence \in 1 .. state[v].sequence
    BY DEF IInv, OneLine
  <2>2. \A u \in accepted[v] : u.payload.sequence # t.payload.sequence
    BY <1>6, <2>1
  <2>3. IF t.payload.sequence = 1 THEN t.payload.parent = Root
        ELSE /\ t.payload.parent \in accepted[v]
             /\ t.payload.sequence = t.payload.parent.payload.sequence + 1
    <3>1. CASE state[v] = Initial
      BY <1>6, <3>1 DEF Initial
    <3>2. CASE state[v].sequence > 0 /\ state[v] = After(state[v].transition)
      <4>1. state[v] # Initial
        BY <3>2 DEF Initial
      <4>2. state[v].transition \in accepted[v]
        BY <4>1 DEF IInv, OneLine
      <4>3. state[v].sequence = state[v].transition.payload.sequence
        BY <3>2 DEF After
      <4> QED BY <1>6, <3>2, <4>2, <4>3
    <3> QED BY <3>1, <3>2 DEF IInv, TypeOK
  <2>4. \A u \in accepted'[v] :
          /\ u.payload.sequence \in 1 .. state'[v].sequence
          /\ IF u.payload.sequence = 1 THEN u.payload.parent = Root
             ELSE /\ u.payload.parent \in accepted'[v]
                  /\ u.payload.sequence = u.payload.parent.payload.sequence + 1
    <3> SUFFICES ASSUME NEW u \in accepted'[v]
                 PROVE  /\ u.payload.sequence \in 1 .. state'[v].sequence
                        /\ IF u.payload.sequence = 1 THEN u.payload.parent = Root
                           ELSE /\ u.payload.parent \in accepted'[v]
                                /\ u.payload.sequence = u.payload.parent.payload.sequence + 1
      OBVIOUS
    <3>1. CASE u = t
      BY <1>5, <1>6, <1>7, <2>3, <3>1
    <3>2. CASE u \in accepted[v]
      BY <1>5, <1>6, <1>7, <2>1, <3>2 DEF IInv, OneLine
    <3> QED BY <1>5, <3>1, <3>2
  <2>5. \A u, w \in accepted'[v] : u.payload.sequence = w.payload.sequence => u = w
    BY <1>5, <2>2 DEF IInv, OneLine
  <2>6. state'[v].transition \in accepted'[v]
    BY <1>5, <1>7
  <2> QED BY <1>5, <2>4, <2>5, <2>6 DEF IInv, OneLine
<1> QED BY <1>9, <1>10, <1>11, <1>12 DEF IInv

LEMMA InvStep == IInv /\ [Next]_vars => IInv'
<1> SUFFICES ASSUME IInv, [Next]_vars PROVE IInv'
  OBVIOUS
<1>1. ASSUME NEW v \in Verifier, NEW c \in Draft, Accept(v, c) PROVE IInv'
  BY <1>1, InvAccept
<1>2. ASSUME NEW v \in Verifier, NEW c \in Draft, NEW d \in Document, Propose(v, c, d) PROVE IInv'
  BY <1>2, InvPropose
<1>3. ASSUME NEW i \in Identity, NEW c \in Draft, Approve(i, c) PROVE IInv'
  BY <1>3, InvApprove
<1>4. ASSUME NEW i \in Identity, Rekey(i) PROVE IInv'
  BY <1>4, InvRekey
<1>5. ASSUME NEW v \in Verifier, NEW i \in Identity, Select(v, i) PROVE IInv'
  BY <1>5, InvSelect
<1>6. CASE UNCHANGED vars
  BY <1>6, InvBystander DEF vars, IInv, Domains, Documents, TypeOK
<1> QED BY <1>1, <1>2, <1>3, <1>4, <1>5, <1>6 DEF Next

LEMMA Inductive == Spec => []IInv
BY InvInit, InvStep, PTL DEF Spec

-----------------------------------------------------------------------------
(* Every accepted state has a document that validates, and its sequence    *)
(* stays within its width: at the maximum nothing verifies any more.       *)
THEOREM IdentityTypeCorrect == Spec => []TypeOK
<1>1. IInv => TypeOK
  BY DEF IInv
<1> QED BY Inductive, <1>1, PTL

(* A verifier's accepted transitions form one chain from the root.         *)
THEOREM HistoryIsOneLine == Spec => []OneLine
<1>1. IInv => OneLine
  BY DEF IInv
<1> QED BY Inductive, <1>1, PTL

-----------------------------------------------------------------------------
(* Who has signed what was accepted.                                       *)

(* Approving adds to the payloads an identity has approved.                *)
LEMMA MadeGrows ==
    ASSUME signed \subseteq signed'
    PROVE  /\ \A a : Made(a) => Made(a)'
           /\ \A t : Signers(t) \subseteq Signers(t)'
<1>1. \A a : Made(a) => Made(a)'
  BY DEF Made
<1>2. \A t : Signers(t) \subseteq Signers(t)'
  BY DEF Signers, PolicyOver
<1> QED BY <1>1, <1>2

LEMMA ApprovalsMadeStep ==
    ASSUME IInv, ApprovalsMade, [Next]_vars
    PROVE  ApprovalsMade' /\ signed \subseteq signed'
<1>1. CASE UNCHANGED <<draft, signed>>
  BY <1>1 DEF ApprovalsMade, Made
<1>2. ASSUME NEW v \in Verifier, NEW c \in Draft, NEW d \in Document, Propose(v, c, d)
      PROVE  ApprovalsMade' /\ signed \subseteq signed'
  <2>1. draft' = [draft EXCEPT ![c] = Proposal(state[v], d)] /\ signed' = signed
    BY <1>2 DEF Propose
  <2>2. Proposal(state[v], d).approvals = {}
    BY DEF Proposal
  <2> QED BY <2>1, <2>2 DEF ApprovalsMade, Made, IInv, Domains
<1>3. ASSUME NEW i \in Identity, NEW c \in Draft, Approve(i, c)
      PROVE  ApprovalsMade' /\ signed \subseteq signed'
  <2>1. /\ draft' = [draft EXCEPT ![c] = Approved(draft[c], i, current[i])] /\ draft[c] # None
        /\ signed' = signed \cup {<<i, draft[c].payload>>}
    BY <1>3 DEF Approve
  <2>2. Drafted(draft[c])
    BY <2>1 DEF IInv, Documents
  <2>3. Approved(draft[c], i, current[i]).approvals =
          {a \in draft[c].approvals : a.identity # i}
            \cup {Approval(i, current[i], KeyOf[i][current[i]], draft[c].payload, FALSE)}
    BY <2>2 DEF Approved, Drafted
  <2>4. current[i] \in 0 .. LastEpoch[i]
    BY DEF IInv, TypeOK
  <2>5. \A a : a = Approval(i, current[i], KeyOf[i][current[i]], draft[c].payload, FALSE) => Made(a)'
    BY <2>1, <2>4 DEF Made, Approval
  <2>6. \A a : Made(a) => Made(a)'
    BY <2>1, MadeGrows
  <2>7. \A a \in (draft'[c]).approvals : Made(a)'
    BY <2>1, <2>3, <2>5, <2>6 DEF ApprovalsMade, IInv, Domains
  <2>8. \A b \in Draft \ {c} : draft'[b] = draft[b]
    BY <2>1 DEF IInv, Domains
  <2>9. ApprovalsMade'
    BY <2>6, <2>7, <2>8 DEF ApprovalsMade
  <2> QED BY <2>1, <2>9
<1>4. ASSUME NEW v \in Verifier, NEW c \in Draft, Accept(v, c) PROVE UNCHANGED <<draft, signed>>
  BY <1>4 DEF Accept
<1>5. ASSUME NEW i \in Identity, Rekey(i) \/ \E v \in Verifier : Select(v, i)
      PROVE  UNCHANGED <<draft, signed>>
  BY <1>5 DEF Rekey, Select
<1>6. CASE UNCHANGED vars
  BY <1>6, <1>1 DEF vars
<1> QED BY <1>1, <1>2, <1>3, <1>4, <1>5, <1>6 DEF Next

(* Signers are never fewer than they were.                                 *)
LEMMA GovernedGrows ==
    ASSUME NEW t, Policy(PolicyOver(t)), Cardinality(Signers(t)) >= PolicyOver(t).threshold,
           signed \subseteq signed'
    PROVE  Cardinality(Signers(t)') >= PolicyOver(t).threshold
<1>1. Signers(t) \subseteq Signers(t)' /\ Signers(t)' \subseteq PolicyOver(t).delegates
  BY MadeGrows DEF Signers, PolicyOver
<1>2. IsFiniteSet(Signers(t)')
  BY <1>1, SignersFinite, FS_Subset
<1>3. Cardinality(Signers(t)) <= Cardinality(Signers(t)')
  BY <1>1, <1>2, FS_Subset
<1>4. Cardinality(Signers(t)) \in Nat /\ Cardinality(Signers(t)') \in Nat
  BY <1>2, SignersFinite, FS_CardinalityType
<1> QED BY <1>3, <1>4 DEF Policy

LEMMA GovernedStep ==
    ASSUME KeysOwn, IInv, ApprovalsMade, GovernedByPrior, [Next]_vars
    PROVE  GovernedByPrior'
<1>1. signed \subseteq signed'
  BY ApprovalsMadeStep
<1>2. ASSUME NEW v \in Verifier, NEW t \in accepted[v]
      PROVE  Cardinality(Signers(t)') >= PolicyOver(t).threshold
  BY <1>1, <1>2, GovernedGrows DEF IInv, Documents, GovernedByPrior
<1>3. ASSUME NEW v \in Verifier, NEW c \in Draft, Accept(v, c) PROVE GovernedByPrior'
  <2>1. PICK t \in Arriving(c) :
          /\ Verifies(t, state[v], selection[v])
          /\ accepted' = [accepted EXCEPT ![v] = @ \cup {t}]
    BY <1>3 DEF Accept
  <2>2. \A a \in t.approvals : Made(a)
    BY <1>3, ArrivingMade DEF Accept, IInv, Documents
  <2>3. PolicyOver(t) = state[v].document
    BY <2>1, PolicyOfPrior DEF IInv
  <2>4. Policy(PolicyOver(t)) /\ Cardinality(Signers(t)) >= PolicyOver(t).threshold
    BY <2>1, <2>2, <2>3, VerifiedIsSigned DEF IInv, Documents
  <2>5. Cardinality(Signers(t)') >= PolicyOver(t).threshold
    BY <1>1, <2>4, GovernedGrows
  <2>6. \A w \in Verifier : \A u \in accepted'[w] : u = t \/ u \in accepted[w]
    BY <2>1 DEF IInv, Domains
  <2>7. \A w \in Verifier : \A u \in accepted'[w] : Cardinality(Signers(u)') >= PolicyOver(u).threshold
    BY <1>2, <2>5, <2>6
  <2> QED BY <2>7 DEF GovernedByPrior, PolicyOver
<1>4. CASE UNCHANGED accepted
  <2>1. \A v \in Verifier : \A t \in accepted'[v] : Cardinality(Signers(t)') >= PolicyOver(t).threshold
    BY <1>2, <1>4
  <2> QED BY <2>1 DEF GovernedByPrior, PolicyOver
<1>5. ASSUME NEW v \in Verifier, NEW c \in Draft, NEW d \in Document, Propose(v, c, d)
      PROVE  UNCHANGED accepted
  BY <1>5 DEF Propose
<1>6. ASSUME NEW i \in Identity, NEW c \in Draft, Approve(i, c) PROVE UNCHANGED accepted
  BY <1>6 DEF Approve
<1>7. ASSUME NEW i \in Identity, Rekey(i) \/ \E v \in Verifier : Select(v, i)
      PROVE  UNCHANGED accepted
  BY <1>7 DEF Rekey, Select
<1>8. CASE UNCHANGED vars
  BY <1>8, <1>4 DEF vars
<1> QED BY <1>3, <1>4, <1>5, <1>6, <1>7, <1>8 DEF Next

LEMMA Governance == ASSUME KeysOwn PROVE Spec => [](IInv /\ ApprovalsMade /\ GovernedByPrior)
<1>1. Init => IInv /\ ApprovalsMade /\ GovernedByPrior
  BY InvInit DEF Init, ApprovalsMade, GovernedByPrior
<1>2. IInv /\ ApprovalsMade /\ GovernedByPrior /\ [Next]_vars
        => (IInv /\ ApprovalsMade /\ GovernedByPrior)'
  BY InvStep, ApprovalsMadeStep, GovernedStep
<1> QED BY <1>1, <1>2, PTL DEF Spec

(* However copies travel and are tampered with, a threshold of the         *)
(* delegates of the state before approved what was accepted, as long as    *)
(* identities have keys of their own.                                      *)
THEOREM PriorPolicyGoverns == ASSUME KeysOwn PROVE Spec => []GovernedByPrior
BY Governance, PTL

(* Two thresholds of one set of delegates have at least as many members in *)
(* common as they exceed the set by.                                       *)
LEMMA ThresholdsOverlap ==
    ASSUME NEW D, IsFiniteSet(D), NEW A \in SUBSET D, NEW B \in SUBSET D, NEW n \in Nat,
           Cardinality(A) >= n, Cardinality(B) >= n
    PROVE  Cardinality(A \cap B) + Cardinality(D) >= 2 * n
<1>1. IsFiniteSet(A) /\ IsFiniteSet(B) /\ IsFiniteSet(A \cap B) /\ IsFiniteSet(A \cup B)
  BY FS_Subset, FS_Union
<1>2. Cardinality(A \cup B) = Cardinality(A) + Cardinality(B) - Cardinality(A \cap B)
  BY <1>1, FS_Union
<1>3. Cardinality(A \cup B) <= Cardinality(D)
  <2>1. (A \cup B) \in SUBSET D
    OBVIOUS
  <2> QED BY <2>1, FS_Subset
<1>4. /\ Cardinality(A) \in Nat /\ Cardinality(B) \in Nat /\ Cardinality(D) \in Nat
      /\ Cardinality(A \cap B) \in Nat /\ Cardinality(A \cup B) \in Nat
  BY <1>1, FS_CardinalityType
<1> QED BY <1>2, <1>3, <1>4

(* A fork of the governance can be laid at the door of delegates that      *)
(* approved both sides, as long as two thresholds cannot be disjoint and   *)
(* identities have keys of their own.                                      *)
THEOREM ForkIsAttributable == ASSUME KeysOwn PROVE Spec => []RivalsShareSigners
<1>1. IInv /\ GovernedByPrior => RivalsShareSigners
  <2> SUFFICES ASSUME IInv, GovernedByPrior, NEW v \in Verifier, NEW w \in Verifier,
                      NEW t \in accepted[v], NEW u \in accepted[w],
                      t.payload.sequence = u.payload.sequence,
                      t.payload.parent = u.payload.parent
               PROVE  Cardinality(Signers(t) \cap Signers(u)) + Cardinality(PolicyOver(t).delegates)
                          >= 2 * PolicyOver(t).threshold
    BY DEF RivalsShareSigners
  <2>1. PolicyOver(u) = PolicyOver(t)
    BY DEF PolicyOver
  <2>2. Policy(PolicyOver(t)) /\ Policy(PolicyOver(u))
    BY DEF IInv, Documents
  <2>3. /\ Signers(t) \in SUBSET PolicyOver(t).delegates
        /\ Signers(u) \in SUBSET PolicyOver(t).delegates
        /\ IsFiniteSet(PolicyOver(t).delegates)
    BY <2>1, <2>2, SignersFinite
  <2>4. /\ Cardinality(Signers(t)) >= PolicyOver(t).threshold
        /\ Cardinality(Signers(u)) >= PolicyOver(t).threshold
    BY <2>1 DEF GovernedByPrior
  <2>5. PolicyOver(t).threshold \in Nat
    BY <2>2 DEF Policy
  <2> QED BY <2>3, <2>4, <2>5, ThresholdsOverlap
<1> QED BY Governance, <1>1, PTL
=============================================================================
