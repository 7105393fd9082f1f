------------------------- MODULE RemoteHelperProofs -------------------------
(***************************************************************************)
(* Proofs about RemoteHelper, for every set of working copies, references, *)
(* commits and batches, and any number of invocations.                     *)
(***************************************************************************)
EXTENDS RemoteHelper, FiniteSetTheorems, TLAPS

PushCommand == [deletes : BOOLEAN, destination : Names, force : BOOLEAN]
Listing == [Names -> Commit \cup {None}]
Update == [name : Names, expected : Commit \cup {None}, new : Commit \cup {None}, force : BOOLEAN]

Job == [id : Nat, batch : Batches \cup {{}}, listing : Listing, updates : SUBSET Update,
        pack : SUBSET Commit, wants : SUBSET Commit, report : {"none", "ok", "error"}]
Push == [id : Nat, batch : Batches \cup {{}}, updates : SUBSET Update, pack : SUBSET Commit]
Answer == [id : Nat, accepted : BOOLEAN]
Entry == [id : Nat, batch : Batches \cup {{}}, updates : SUBSET Update, replaced : Listing]

-----------------------------------------------------------------------------
(* The inductive invariant, in parts that each need the types only.        *)

Types ==
    /\ work \in [Helpers -> Commit]
    /\ tracked \in [Helpers -> SUBSET Commit] /\ objects \in [Helpers -> SUBSET Commit]
    /\ begun \in 0..MaxRuns
    /\ pc \in [Helpers -> {"idle", "list", "resolve", "send", "wait", "fetch", "install"}]
    /\ job \in [Helpers -> Job]
    /\ transit \subseteq Push /\ answered \subseteq Answer
    /\ theirs \in Listing /\ stored \subseteq Commit
    /\ log \in Seq(Entry)

(* u is what one command asks for. *)
Asks(c, u) == u.name = c.destination /\ u.force = c.force /\ (u.new = None <=> c.deletes)

(* Each update of a helper is one command's, and no two have one name.     *)
UpdatesAsked ==
    \A h \in Helpers :
        /\ \A u \in job[h].updates : \E c \in job[h].batch : Asks(c, u)
        /\ IsFiniteSet(job[h].updates)
        /\ Cardinality(Resolved(h)) = Cardinality(job[h].updates)

(* The updates do all that the batch asks, and as it asks.                 *)
Answering(batch, updates) ==
    \A c \in batch :
        /\ \E u \in updates : Asks(c, u)
        /\ \A u \in updates : u.name = c.destination => Asks(c, u)

PushesAnswer ==
    /\ \A h \in Helpers : pc[h] = "send" => Answering(job[h].batch, job[h].updates)
    /\ \A p \in transit : Answering(p.batch, p.updates)
    /\ \A i \in DOMAIN log : Answering(log[i].batch, log[i].updates)

(* A pack completes what the daemon stores for every new value.            *)
Completes(updates, pack) ==
    \A u \in updates : u.new # None => Ancestors[u.new] \subseteq stored \cup pack

PushesComplete ==
    /\ History(Targets(theirs)) \subseteq stored
    /\ \A h \in Helpers : pc[h] = "resolve" => History(Targets(job[h].listing)) \subseteq stored
    /\ \A h \in Helpers : pc[h] = "send" => Completes(job[h].updates, job[h].pack)

FetchesComplete ==
    \A h \in Helpers : pc[h] = "install" => History(job[h].wants) \subseteq objects[h] \cup job[h].pack

(* An invocation has an identifier of its own, and a push keeps it from    *)
(* the helper through the transport into the log.                          *)
Unsent(id) ==
    /\ \A p \in transit : p.id # id
    /\ \A a \in answered : a.id # id
    /\ \A i \in DOMAIN log : log[i].id # id

IdsOwned ==
    /\ \A h \in Helpers : job[h].id <= begun
    /\ \A h \in Helpers : pc[h] # "idle" => job[h].id > 0
    /\ \A h, g \in Helpers : job[h].id = job[g].id => h = g \/ job[h].id = 0
    /\ \A h \in Helpers : pc[h] \in {"list", "resolve", "send"} => Unsent(job[h].id)
    /\ \A h \in Helpers : pc[h] \in {"fetch", "install"} => job[h].batch = {}

IdsKept ==
    /\ \A p \in transit :
        /\ p.id \in 1..begun
        /\ \A a \in answered : a.id # p.id
        /\ \A i \in DOMAIN log : log[i].id # p.id
        /\ \A q \in transit : q.id = p.id => q = p
        /\ \A h \in Helpers : job[h].id = p.id => job[h].batch = p.batch
    /\ \A a \in answered :
        /\ a.id \in 1..begun
        /\ a.accepted => \E i \in DOMAIN log : log[i].id = a.id
    /\ \A i \in DOMAIN log :
        /\ log[i].id \in 1..begun
        /\ \A h \in Helpers : job[h].id = log[i].id => job[h].batch = log[i].batch

HelperInv ==
    /\ Types
    /\ UpdatesAsked
    /\ PushesAnswer
    /\ PushesComplete /\ PacksSuffice
    /\ FetchesComplete /\ FetchedClosed
    /\ IdsOwned /\ IdsKept /\ PushedOnce
    /\ UnforcedKeepsHistory
    /\ OkMeansCommitted

-----------------------------------------------------------------------------
(* What the steps do.                                                      *)

LEMMA HistoryIsCommits == ASSUME NEW S \in SUBSET Commit PROVE History(S) \in SUBSET Commit
BY HistoryAssumption DEF History

LEMMA JobFields ==
    ASSUME Types, NEW h \in Helpers
    PROVE /\ job[h] \in Job
          /\ job[h].id \in Nat /\ job[h].batch \in Batches \cup {{}} /\ job[h].listing \in Listing
          /\ job[h].updates \in SUBSET Update /\ job[h].pack \in SUBSET Commit
          /\ job[h].wants \in SUBSET Commit
          /\ IsFiniteSet(job[h].batch) /\ job[h].batch \subseteq PushCommand
<1>1. job[h] \in Job
  BY DEF Types
<1>2. job[h].batch \in Batches \cup {{}}
  BY <1>1 DEF Job
<1>3. IsFiniteSet(job[h].batch)
  BY <1>2, BatchesAssumption, FS_EmptySet
<1>4. job[h].batch \subseteq PushCommand
  BY <1>2, BatchesAssumption DEF PushCommand
<1> QED BY <1>1, <1>3, <1>4 DEF Job

LEMMA IdleFields ==
    /\ Idle \in Job
    /\ Idle.batch = {} /\ Idle.updates = {} /\ Idle.report = "none"
BY DEF Idle, Job, Listing

(* What a helper holds when it begins and when it has ended. *)
EndedJob(n, b, r) == [Idle EXCEPT !.id = n, !.batch = b, !.report = r]
PushJob(n, b) == [Idle EXCEPT !.id = n, !.batch = b]
FetchJob(n, w, l) == [Idle EXCEPT !.id = n, !.wants = w, !.listing = l]

LEMMA JobAfterEnd ==
    ASSUME NEW n \in Nat, NEW b \in Batches \cup {{}}, NEW r \in {"none", "ok", "error"}
    PROVE LET j == EndedJob(n, b, r) IN
          j \in Job /\ j.id = n /\ j.batch = b /\ j.updates = {} /\ j.report = r
BY IdleFields DEF Job, EndedJob

LEMMA JobOfPush ==
    ASSUME NEW n \in Nat, NEW b \in Batches
    PROVE LET j == PushJob(n, b) IN
          j \in Job /\ j.id = n /\ j.batch = b /\ j.updates = {} /\ j.report = "none"
BY IdleFields DEF Job, PushJob

LEMMA JobOfFetch ==
    ASSUME NEW n \in Nat, NEW w \in SUBSET Commit, NEW l \in Listing
    PROVE LET j == FetchJob(n, w, l) IN
          j \in Job /\ j.id = n /\ j.batch = {} /\ j.updates = {} /\ j.report = "none" /\ j.wants = w
BY IdleFields DEF Job, FetchJob

LEMMA EndsSets ==
    ASSUME Types, NEW h \in Helpers, NEW r \in {"none", "ok", "error"}, Ends(h, r)
    PROVE /\ pc' = [pc EXCEPT ![h] = "idle"]
          /\ job' \in [Helpers -> Job]
          /\ job'[h].id = job[h].id /\ job'[h].batch = job[h].batch
          /\ job'[h].updates = {} /\ job'[h].report = r
          /\ \A g \in Helpers \ {h} : job'[g] = job[g]
<1> DEFINE j == EndedJob(job[h].id, job[h].batch, r)
<1>1. /\ j \in Job /\ j.id = job[h].id /\ j.batch = job[h].batch
      /\ j.updates = {} /\ j.report = r
  BY JobAfterEnd, JobFields
<1>2. job' = [job EXCEPT ![h] = j] /\ pc' = [pc EXCEPT ![h] = "idle"]
  BY DEF Ends, EndedJob
<1> HIDE DEF j
<1> QED BY <1>1, <1>2 DEF Types

LEMMA UpdateOfType ==
    ASSUME Types, NEW h \in Helpers, NEW c \in job[h].batch
    PROVE UpdateOf(h, c) \in Update /\ c \in PushCommand /\ Asks(c, UpdateOf(h, c))
<1>1. work[h] \in Commit /\ c \in PushCommand /\ job[h].listing \in Listing
  BY JobFields DEF Types
<1>2. c.deletes \in BOOLEAN /\ c.destination \in Names /\ c.force \in BOOLEAN
  BY <1>1 DEF PushCommand
<1>3. job[h].listing[c.destination] \in Commit \cup {None}
  BY <1>1, <1>2 DEF Listing
<1>4. UpdateOf(h, c) \in Update
  BY <1>1, <1>2, <1>3 DEF UpdateOf, Update
<1>5. Asks(c, UpdateOf(h, c))
  BY <1>1, HistoryAssumption DEF UpdateOf, Asks
<1> QED BY <1>1, <1>4, <1>5

LEMMA EntryOfPush ==
    ASSUME Types, NEW p \in transit
    PROVE /\ [id |-> p.id, batch |-> p.batch, updates |-> p.updates, replaced |-> theirs] \in Entry
          /\ p.id \in Nat /\ p.updates \in SUBSET Update /\ p.pack \in SUBSET Commit
BY DEF Types, Push, Entry

(* A commit sets the names it updates and no others. *)
LEMMA CommitSets ==
    ASSUME Types, NEW p \in transit, DaemonCommits(p), NEW n \in Names
    PROVE \/ theirs'[n] = theirs[n]
          \/ \E u \in p.updates : u.name = n /\ theirs'[n] = u.new
<1>1. theirs' = [x \in Names |-> IF \E u \in p.updates : u.name = x
                                 THEN (CHOOSE u \in p.updates : u.name = x).new ELSE theirs[x]]
  BY DEF DaemonCommits
<1>2. CASE \E u \in p.updates : u.name = n
  <2> DEFINE v == CHOOSE u \in p.updates : u.name = n
  <2>1. v \in p.updates /\ v.name = n
    BY <1>2
  <2>2. theirs'[n] = v.new
    BY <1>1, <1>2
  <2> QED BY <2>1, <2>2
<1>3. CASE ~ \E u \in p.updates : u.name = n
  BY <1>1, <1>3
<1> QED BY <1>2, <1>3

-----------------------------------------------------------------------------
(* The types are kept.                                                     *)

LEMMA HelperTypes ==
    ASSUME Types, NEW h \in Helpers, HelperStep(h)
    PROVE Types'
<1> DEFINE Pcs == {"idle", "list", "resolve", "send", "wait", "fetch", "install"}
<1>1. /\ job[h] \in Job /\ job \in [Helpers -> Job] /\ pc \in [Helpers -> Pcs]
      /\ begun \in 0..MaxRuns /\ theirs \in Listing /\ begun \in Nat
  BY RunsAssumption, JobFields DEF Types
<1>2. ASSUME NEW r \in {"none", "ok", "error"}, Ends(h, r)
      PROVE job' \in [Helpers -> Job] /\ pc' \in [Helpers -> Pcs]
  BY <1>1, <1>2, EndsSets
<1>3. ASSUME PushBegins(h) PROVE Types'
  <2>1. PICK b \in Batches : job' = [job EXCEPT ![h] = PushJob(begun', b)]
    BY <1>3 DEF PushBegins, PushJob
  <2>2. begun' = begun + 1 /\ begun' \in 0..MaxRuns /\ begun' \in Nat
    BY <1>1, <1>3, RunsAssumption DEF PushBegins
  <2>3. PushJob(begun', b) \in Job
    BY <1>1, <2>2, JobOfPush
  <2>4. job' \in [Helpers -> Job]
    BY <1>1, <2>1, <2>3
  <2>5. pc' \in [Helpers -> Pcs]
    BY <1>1, <1>3 DEF PushBegins
  <2> QED BY <1>3, <2>2, <2>4, <2>5 DEF PushBegins, Types, local, daemon
<1>4. ASSUME FetchBegins(h) PROVE Types'
  <2>1. PICK wants \in SUBSET Targets(theirs) :
            job' = [job EXCEPT ![h] = FetchJob(begun', wants, theirs)]
    BY <1>4 DEF FetchBegins, FetchJob
  <2>2. begun' = begun + 1 /\ begun' \in 0..MaxRuns /\ begun' \in Nat
    BY <1>1, <1>4, RunsAssumption DEF FetchBegins
  <2>3. wants \in SUBSET Commit
    BY <1>1 DEF Targets, Listing
  <2>4. FetchJob(begun', wants, theirs) \in Job
    BY <1>1, <2>2, <2>3, JobOfFetch
  <2>5. job' \in [Helpers -> Job]
    BY <1>1, <2>1, <2>4
  <2>6. pc' \in [Helpers -> Pcs]
    BY <1>1, <1>4 DEF FetchBegins
  <2> QED BY <1>4, <2>2, <2>5, <2>6 DEF FetchBegins, Types, local, daemon
<1>5. ASSUME ListForPush(h) PROVE Types'
  <2>1. [job[h] EXCEPT !.listing = theirs] \in Job
    BY <1>1 DEF Job
  <2>2. job' \in [Helpers -> Job] /\ pc' \in [Helpers -> Pcs]
    BY <1>1, <1>5, <2>1 DEF ListForPush
  <2> QED BY <1>5, <2>2 DEF ListForPush, Types, local, daemon
<1>6. ASSUME Resolve(h) PROVE Types'
  <2>1. PICK c \in job[h].batch : job' = [job EXCEPT ![h].updates = @ \cup {UpdateOf(h, c)}]
    BY <1>6 DEF Resolve
  <2>2. [job[h] EXCEPT !.updates = @ \cup {UpdateOf(h, c)}] \in Job
    BY <1>1, UpdateOfType DEF Job
  <2>3. job' \in [Helpers -> Job]
    BY <1>1, <2>1, <2>2
  <2> QED BY <1>6, <2>3 DEF Resolve, Types, local, daemon
<1>7. ASSUME CreatePack(h) PROVE Types'
  <2>1. PICK exclude \in Excludes(h) :
            job' = [job EXCEPT ![h].pack = History(Includes(h)) \ History(exclude)]
    BY <1>7 DEF CreatePack
  <2>2. Includes(h) \in SUBSET Commit
    BY JobFields DEF Includes, Update
  <2>3. History(Includes(h)) \ History(exclude) \in SUBSET Commit
    BY <2>2, HistoryIsCommits
  <2>4. [job[h] EXCEPT !.pack = History(Includes(h)) \ History(exclude)] \in Job
    BY <1>1, <2>3 DEF Job
  <2>5. job' \in [Helpers -> Job] /\ pc' \in [Helpers -> Pcs]
    BY <1>1, <1>7, <2>1, <2>4 DEF CreatePack
  <2> QED BY <1>7, <2>5 DEF CreatePack, Types, local, daemon
<1>8. ASSUME SendPush(h) PROVE Types'
  <2> DEFINE p == [id |-> job[h].id, batch |-> job[h].batch, updates |-> job[h].updates,
                   pack |-> job[h].pack]
  <2>1. p \in Push
    BY JobFields DEF Push
  <2>2. transit' = transit \cup {p}
    BY <1>8 DEF SendPush
  <2> HIDE DEF p
  <2>3. pc' \in [Helpers -> Pcs]
    BY <1>1, <1>8 DEF SendPush
  <2> QED BY <1>8, <2>1, <2>2, <2>3 DEF SendPush, Types, local
<1>9. ASSUME RequestPack(h) PROVE Types'
  <2>1. PICK haves \in LocalPrerequisites(h) :
            job' = [job EXCEPT ![h].pack = History(job[h].wants) \ History(haves \cap stored)]
    BY <1>9 DEF RequestPack
  <2>2. History(job[h].wants) \ History(haves \cap stored) \in SUBSET Commit
    BY JobFields, HistoryIsCommits
  <2>3. [job[h] EXCEPT !.pack = History(job[h].wants) \ History(haves \cap stored)] \in Job
    BY <1>1, <2>2 DEF Job
  <2>4. job' \in [Helpers -> Job] /\ pc' \in [Helpers -> Pcs]
    BY <1>1, <1>9, <2>1, <2>3 DEF RequestPack
  <2> QED BY <1>9, <2>4 DEF RequestPack, Types, local, daemon
<1>10. ASSUME InstallPack(h) PROVE Types'
  <2>1. job' \in [Helpers -> Job] /\ pc' \in [Helpers -> Pcs]
    BY <1>2, <1>10 DEF InstallPack
  <2>2. objects' \in [Helpers -> SUBSET Commit] /\ tracked' \in [Helpers -> SUBSET Commit]
    BY <1>10, JobFields DEF InstallPack, Types
  <2> QED BY <1>10, <2>1, <2>2 DEF InstallPack, Types, daemon
<1>11. ASSUME DuplicateDestination(h) \/ PackFails(h) \/ PushReturns(h) \/ PushBreaks(h) \/ StepFails(h)
       PROVE Types'
  <2>1. UNCHANGED <<local, begun, daemon>> /\ \E r \in {"none", "ok", "error"} : Ends(h, r)
    BY <1>11 DEF DuplicateDestination, PackFails, PushReturns, PushBreaks, StepFails
  <2>2. job' \in [Helpers -> Job] /\ pc' \in [Helpers -> Pcs]
    BY <1>2, <2>1
  <2> QED BY <2>1, <2>2 DEF Types, local, daemon
<1> QED BY <1>3, <1>4, <1>5, <1>6, <1>7, <1>8, <1>9, <1>10, <1>11 DEF HelperStep

LEMMA DaemonTypes ==
    ASSUME Types, NEW p \in transit, DaemonHandles(p)
    PROVE Types'
<1>1. UNCHANGED <<local, begun, pc, job>> /\ transit' \subseteq transit
  BY DEF DaemonHandles
<1>2. ASSUME DaemonRefuses(p) PROVE Types'
  <2>1. [id |-> p.id, accepted |-> FALSE] \in Answer
    BY EntryOfPush DEF Answer
  <2>2. answered' \subseteq Answer
    BY <1>2, <2>1 DEF DaemonRefuses, Types
  <2> QED BY <1>1, <1>2, <2>2 DEF DaemonRefuses, Types, local
<1>3. ASSUME DaemonCommits(p) PROVE Types'
  <2>1. [id |-> p.id, accepted |-> TRUE] \in Answer
    BY EntryOfPush DEF Answer
  <2>2. answered' \subseteq Answer /\ stored' \subseteq Commit
    BY <1>3, <2>1, EntryOfPush DEF DaemonCommits, Types
  <2>3. log' \in Seq(Entry)
    BY <1>3, EntryOfPush DEF DaemonCommits, Types
  <2>4. ASSUME NEW n \in Names PROVE theirs'[n] \in Commit \cup {None}
    <3>1. theirs[n] \in Commit \cup {None}
      BY DEF Types, Listing
    <3>2. \A u \in p.updates : u.new \in Commit \cup {None}
      BY EntryOfPush DEF Update
    <3> QED BY <1>3, <3>1, <3>2, CommitSets
  <2>5. DOMAIN theirs' = Names /\ theirs' = [n \in Names |-> theirs'[n]]
    BY <1>3 DEF DaemonCommits
  <2>6. theirs' \in Listing
    BY <2>4, <2>5 DEF Listing
  <2> QED BY <1>1, <2>2, <2>3, <2>6 DEF Types, local
<1> QED BY <1>2, <1>3 DEF DaemonHandles

LEMMA UserTypes == ASSUME Types, NEW h \in Helpers, UserMoves(h) PROVE Types'
BY DEF UserMoves, Types, daemon

-----------------------------------------------------------------------------
(* The kinds of steps a helper takes.                                      *)

OthersKept(h) ==
    /\ \A g \in Helpers \ {h} :
        job'[g] = job[g] /\ pc'[g] = pc[g] /\ tracked'[g] = tracked[g] /\ objects'[g] = objects[g]
    /\ UNCHANGED <<work, answered, theirs, stored, log>>

Begins(h) ==
    /\ begun' = begun + 1
    /\ job'[h].id = begun' /\ job'[h].updates = {} /\ job'[h].report = "none"
    /\ pc'[h] \in {"list", "fetch"} /\ (pc'[h] = "fetch" => job'[h].batch = {})
    /\ UNCHANGED <<local, transit>>

Finishes(h) ==
    /\ pc[h] # "idle" /\ pc'[h] = "idle"
    /\ job'[h].id = job[h].id /\ job'[h].batch = job[h].batch /\ job'[h].updates = {}
    /\ job'[h].report = "ok" =>
        \/ pc[h] = "install"
        \/ \E a \in answered : a.id = job[h].id /\ a.accepted
    /\ UNCHANGED <<begun, transit>>

GoesOn(h) ==
    /\ <<pc[h], pc'[h]>> \in {<<"list", "resolve">>, <<"resolve", "resolve">>, <<"resolve", "send">>,
                              <<"fetch", "install">>}
    /\ job'[h].id = job[h].id /\ job'[h].batch = job[h].batch /\ job'[h].report = job[h].report
    /\ UNCHANGED <<local, begun, transit>>

Sends(h) ==
    /\ pc[h] = "send" /\ pc'[h] = "wait"
    /\ job'[h] = job[h]
    /\ transit' = transit \cup {[id |-> job[h].id, batch |-> job[h].batch,
                                 updates |-> job[h].updates, pack |-> job[h].pack]}
    /\ UNCHANGED <<local, begun>>

LEMMA BeginKind ==
    ASSUME Types, NEW h \in Helpers, PushBegins(h) \/ FetchBegins(h)
    PROVE OthersKept(h) /\ Begins(h)
<1>1. begun' = begun + 1 /\ UNCHANGED <<local, daemon>>
  BY DEF PushBegins, FetchBegins
<1>2. begun' \in Nat
  BY <1>1, RunsAssumption DEF Types
<1>3. job \in [Helpers -> Job] /\ theirs \in Listing
  BY DEF Types
<1>4. CASE PushBegins(h)
  <2>1. PICK b \in Batches : job' = [job EXCEPT ![h] = PushJob(begun', b)]
    BY <1>4 DEF PushBegins, PushJob
  <2>2. /\ PushJob(begun', b).id = begun' /\ PushJob(begun', b).updates = {}
        /\ PushJob(begun', b).report = "none"
    BY <1>2, JobOfPush
  <2>3. pc'[h] = "list" /\ pc' = [pc EXCEPT ![h] = "list"]
    BY <1>4 DEF PushBegins, Types
  <2>4. job'[h] = PushJob(begun', b) /\ \A g \in Helpers \ {h} : job'[g] = job[g] /\ pc'[g] = pc[g]
    BY <1>3, <2>1, <2>3
  <2> QED BY <1>1, <2>2, <2>3, <2>4 DEF OthersKept, Begins, local, daemon
<1>5. CASE FetchBegins(h)
  <2>1. PICK wants \in SUBSET Targets(theirs) : job' = [job EXCEPT ![h] = FetchJob(begun', wants, theirs)]
    BY <1>5 DEF FetchBegins, FetchJob
  <2>2. wants \in SUBSET Commit
    BY <1>3 DEF Targets, Listing
  <2> DEFINE j == FetchJob(begun', wants, theirs)
  <2>3. j.id = begun' /\ j.batch = {} /\ j.updates = {} /\ j.report = "none"
    BY <1>2, <1>3, <2>2, JobOfFetch
  <2>4. pc'[h] = "fetch" /\ pc' = [pc EXCEPT ![h] = "fetch"]
    BY <1>5 DEF FetchBegins, Types
  <2>5. /\ job'[h] = FetchJob(begun', wants, theirs)
        /\ \A g \in Helpers \ {h} : job'[g] = job[g] /\ pc'[g] = pc[g]
    BY <1>3, <2>1, <2>4
  <2> QED BY <1>1, <2>3, <2>4, <2>5 DEF OthersKept, Begins, local, daemon
<1> QED BY <1>4, <1>5

LEMMA FinishKind ==
    ASSUME Types, NEW h \in Helpers,
           \/ DuplicateDestination(h) \/ PackFails(h) \/ PushReturns(h) \/ PushBreaks(h)
           \/ InstallPack(h) \/ StepFails(h)
    PROVE OthersKept(h) /\ Finishes(h)
<1>1. PICK r \in {"none", "ok", "error"} :
        /\ Ends(h, r)
        /\ r = "ok" => \/ pc[h] = "install"
                       \/ \E a \in answered : a.id = job[h].id /\ a.accepted
  <2>1. CASE PushReturns(h)
    <3>1. PICK a \in answered : a.id = job[h].id /\ Ends(h, IF a.accepted THEN "ok" ELSE "error")
      BY <2>1 DEF PushReturns, AnswerTo
    <3> QED BY <3>1
  <2>2. CASE InstallPack(h)
    BY <2>2 DEF InstallPack
  <2>3. CASE DuplicateDestination(h) \/ PackFails(h) \/ PushBreaks(h) \/ StepFails(h)
    <3>1. Ends(h, "error")
      BY <2>3 DEF DuplicateDestination, PackFails, PushBreaks, StepFails
    <3> QED BY <3>1
  <2> QED BY <2>1, <2>2, <2>3
<1>2. pc[h] # "idle" /\ UNCHANGED <<work, begun, transit, answered, theirs, stored, log>>
  BY DEF DuplicateDestination, PackFails, PushReturns, PushBreaks, InstallPack, StepFails, AllResolved,
         local, daemon
<1>3. \A g \in Helpers \ {h} : tracked'[g] = tracked[g] /\ objects'[g] = objects[g]
  BY DEF DuplicateDestination, PackFails, PushReturns, PushBreaks, InstallPack, StepFails, local, Types
<1>4. /\ pc'[h] = "idle" /\ \A g \in Helpers \ {h} : job'[g] = job[g] /\ pc'[g] = pc[g]
      /\ job'[h].id = job[h].id /\ job'[h].batch = job[h].batch
      /\ job'[h].updates = {} /\ job'[h].report = r
  BY <1>1, EndsSets DEF Types
<1> QED BY <1>1, <1>2, <1>3, <1>4 DEF OthersKept, Finishes

LEMMA GoOnKind ==
    ASSUME Types, NEW h \in Helpers, ListForPush(h) \/ Resolve(h) \/ CreatePack(h) \/ RequestPack(h)
    PROVE OthersKept(h) /\ GoesOn(h)
<1>1. job \in [Helpers -> Job] /\ job[h] \in Job
  BY DEF Types
<1>2. CASE ListForPush(h)
  BY <1>1, <1>2 DEF ListForPush, OthersKept, GoesOn, Types, Job, local, daemon
<1>3. CASE Resolve(h)
  <2>1. PICK c \in job[h].batch : job' = [job EXCEPT ![h].updates = @ \cup {UpdateOf(h, c)}]
    BY <1>3 DEF Resolve
  <2> QED BY <1>1, <1>3, <2>1 DEF Resolve, OthersKept, GoesOn, Types, Job, local, daemon
<1>4. CASE CreatePack(h)
  <2>1. PICK exclude \in Excludes(h) :
            job' = [job EXCEPT ![h].pack = History(Includes(h)) \ History(exclude)]
    BY <1>4 DEF CreatePack
  <2> QED BY <1>1, <1>4, <2>1 DEF CreatePack, AllResolved, OthersKept, GoesOn, Types, Job, local, daemon
<1>5. CASE RequestPack(h)
  <2>1. PICK haves \in LocalPrerequisites(h) :
            job' = [job EXCEPT ![h].pack = History(job[h].wants) \ History(haves \cap stored)]
    BY <1>5 DEF RequestPack
  <2> QED BY <1>1, <1>5, <2>1 DEF RequestPack, OthersKept, GoesOn, Types, Job, local, daemon
<1> QED BY <1>2, <1>3, <1>4, <1>5

LEMMA SendKind ==
    ASSUME Types, NEW h \in Helpers, SendPush(h)
    PROVE OthersKept(h) /\ Sends(h)
BY DEF SendPush, OthersKept, Sends, Types, local

LEMMA HelperKinds ==
    ASSUME Types, NEW h \in Helpers, HelperStep(h)
    PROVE OthersKept(h) /\ (Begins(h) \/ Finishes(h) \/ GoesOn(h) \/ Sends(h))
BY BeginKind, FinishKind, GoOnKind, SendKind DEF HelperStep

-----------------------------------------------------------------------------
(* Identifiers.                                                            *)

Ids == IdsOwned /\ IdsKept /\ PushedOnce

LEMMA IdTypes ==
    ASSUME Types
    PROVE /\ begun \in Nat
          /\ \A h \in Helpers : job[h].id \in Nat
          /\ \A p \in transit : p.id \in Nat
          /\ \A a \in answered : a.id \in Nat
          /\ \A i \in DOMAIN log : log[i].id \in Nat
<1>1. begun \in Nat
  BY RunsAssumption DEF Types
<1>2. \A p \in transit : p.id \in Nat
  BY DEF Types, Push
<1>3. \A a \in answered : a.id \in Nat
  BY DEF Types, Answer
<1>4. ASSUME NEW i \in DOMAIN log PROVE log[i].id \in Nat
  <2>1. log \in Seq(Entry)
    BY DEF Types
  <2>2. log[i] \in Entry
    BY <2>1
  <2> QED BY <2>2 DEF Entry
<1> QED BY <1>1, <1>2, <1>3, <1>4, JobFields

(* A new invocation takes an identifier nothing has.                       *)
LEMMA BeginIds ==
    ASSUME Types, Ids, NEW h \in Helpers, OthersKept(h), Begins(h)
    PROVE Ids'
<1>1. /\ begun' = begun + 1 /\ job'[h].id = begun + 1
      /\ transit' = transit /\ answered' = answered /\ log' = log
      /\ pc'[h] \in {"list", "fetch"} /\ (pc'[h] = "fetch" => job'[h].batch = {})
      /\ \A g \in Helpers \ {h} : job'[g] = job[g] /\ pc'[g] = pc[g]
  BY DEF OthersKept, Begins
<1>2. IdsOwned /\ IdsKept /\ PushedOnce
  BY DEF Ids
<1>3. Unsent(begun + 1)
  BY <1>2, IdTypes DEF Unsent, IdsKept
<1>4. \A id : Unsent(id) => Unsent(id)'
  BY <1>1 DEF Unsent
<1>5. \A g \in Helpers \ {h} : job[g].id # begun + 1
  BY <1>2, IdTypes DEF IdsOwned
<1>6. IdsOwned'
  <2>1. \A g \in Helpers : job'[g].id <= begun'
    BY <1>1, <1>2, IdTypes DEF IdsOwned
  <2>2. \A g \in Helpers : pc'[g] # "idle" => job'[g].id > 0
    BY <1>1, <1>2, IdTypes DEF IdsOwned
  <2>3. \A f, g \in Helpers : job'[f].id = job'[g].id => f = g \/ job'[f].id = 0
    BY <1>1, <1>2, <1>5 DEF IdsOwned
  <2>4. \A g \in Helpers : pc'[g] \in {"list", "resolve", "send"} => Unsent(job[g].id)'
    BY <1>1, <1>2, <1>3, <1>4 DEF IdsOwned
  <2>5. \A g \in Helpers : pc'[g] \in {"fetch", "install"} => job'[g].batch = {}
    BY <1>1, <1>2 DEF IdsOwned
  <2> QED BY <2>1, <2>2, <2>3, <2>4, <2>5 DEF IdsOwned
<1>7. ASSUME NEW n \in 1..begun PROVE n \in 1..begun' /\ job'[h].id # n
  BY <1>1, IdTypes
<1>8. IdsKept'
  <2>1. \A p \in transit : \A g \in Helpers : job'[g].id = p.id => job'[g].batch = p.batch
    BY <1>1, <1>2, <1>7 DEF IdsKept
  <2>2. \A i \in DOMAIN log : \A g \in Helpers : job'[g].id = log[i].id => job'[g].batch = log[i].batch
    BY <1>1, <1>2, <1>7 DEF IdsKept
  <2> QED BY <1>1, <1>2, <1>7, <2>1, <2>2 DEF IdsKept
<1>9. PushedOnce'
  BY <1>1, <1>2 DEF PushedOnce
<1> QED BY <1>6, <1>8, <1>9 DEF Ids

LEMMA ContinueIds ==
    ASSUME Types, Ids, NEW h \in Helpers, OthersKept(h), Finishes(h) \/ GoesOn(h)
    PROVE Ids'
<1>1. /\ begun' = begun /\ transit' = transit /\ answered' = answered /\ log' = log
      /\ \A g \in Helpers : job'[g].id = job[g].id /\ job'[g].batch = job[g].batch
      /\ \A g \in Helpers \ {h} : pc'[g] = pc[g]
  BY DEF OthersKept, Finishes, GoesOn
<1>2. /\ pc[h] # "idle"
      /\ pc'[h] \in {"list", "resolve", "send"} => pc[h] \in {"list", "resolve", "send"}
      /\ pc'[h] \in {"fetch", "install"} => pc[h] \in {"fetch", "install"}
  BY DEF Finishes, GoesOn
<1>3. IdsOwned /\ IdsKept /\ PushedOnce
  BY DEF Ids
<1>4. \A id : Unsent(id) => Unsent(id)'
  BY <1>1 DEF Unsent
<1>5. IdsOwned'
  BY <1>1, <1>2, <1>3, <1>4 DEF IdsOwned
<1>6. IdsKept'
  BY <1>1, <1>3 DEF IdsKept
<1>7. PushedOnce'
  BY <1>1, <1>3 DEF PushedOnce
<1> QED BY <1>5, <1>6, <1>7 DEF Ids

LEMMA SendIds ==
    ASSUME Types, Ids, NEW h \in Helpers, OthersKept(h), Sends(h)
    PROVE Ids'
<1> DEFINE p == [id |-> job[h].id, batch |-> job[h].batch, updates |-> job[h].updates,
                 pack |-> job[h].pack]
<1>1. /\ begun' = begun /\ transit' = transit \cup {p} /\ answered' = answered /\ log' = log
      /\ \A g \in Helpers : job'[g] = job[g]
      /\ \A g \in Helpers \ {h} : pc'[g] = pc[g]
      /\ pc[h] = "send" /\ pc'[h] = "wait"
  BY DEF OthersKept, Sends
<1>2. p.id = job[h].id /\ p.batch = job[h].batch
  OBVIOUS
<1> HIDE DEF p
<1>3. IdsOwned /\ IdsKept /\ PushedOnce
  BY DEF Ids
<1>4. Unsent(p.id) /\ p.id \in 1..begun
  BY <1>1, <1>2, <1>3, IdTypes DEF IdsOwned
<1>5. \A g \in Helpers : job[g].id = p.id => g = h
  BY <1>2, <1>3, <1>4 DEF IdsOwned
<1>6. IdsOwned'
  <2>1. ASSUME NEW g \in Helpers, pc'[g] \in {"list", "resolve", "send"}
        PROVE Unsent(job[g].id)'
    <3>1. g # h /\ Unsent(job[g].id) /\ job[g].id # p.id
      BY <1>1, <1>3, <1>5, <2>1 DEF IdsOwned
    <3> QED BY <1>1, <3>1 DEF Unsent
  <2> QED BY <1>1, <1>3, <2>1 DEF IdsOwned
<1>7. IdsKept'
  <2>1. ASSUME NEW q \in transit'
        PROVE /\ q.id \in 1..begun
              /\ \A a \in answered : a.id # q.id
              /\ \A i \in DOMAIN log : log[i].id # q.id
              /\ \A r \in transit' : r.id = q.id => r = q
              /\ \A g \in Helpers : job[g].id = q.id => job[g].batch = q.batch
    <3>1. CASE q = p
      BY <1>1, <1>2, <1>4, <1>5, <3>1 DEF Unsent
    <3>2. CASE q \in transit
      <4>1. q.id # p.id
        BY <1>4, <3>2 DEF Unsent
      <4> QED BY <1>1, <1>3, <3>2, <4>1 DEF IdsKept
    <3> QED BY <1>1, <3>1, <3>2
  <2> QED BY <1>1, <1>3, <2>1 DEF IdsKept
<1>8. PushedOnce'
  BY <1>1, <1>3 DEF PushedOnce
<1> QED BY <1>6, <1>7, <1>8 DEF Ids

(* The log grows by one entry. *)
LEMMA LogGrows ==
    ASSUME Types, NEW p \in transit, DaemonCommits(p)
    PROVE /\ log \in Seq(Entry) /\ Len(log) \in Nat
          /\ DOMAIN log = 1..Len(log) /\ DOMAIN log' = 1..(Len(log) + 1)
          /\ \A i \in 1..Len(log) : log'[i] = log[i]
          /\ log'[Len(log) + 1].id = p.id /\ log'[Len(log) + 1].batch = p.batch
          /\ log'[Len(log) + 1].updates = p.updates /\ log'[Len(log) + 1].replaced = theirs
<1> DEFINE e == [id |-> p.id, batch |-> p.batch, updates |-> p.updates, replaced |-> theirs]
<1>1. e \in Entry /\ e.id = p.id /\ e.batch = p.batch /\ e.updates = p.updates /\ e.replaced = theirs
  BY EntryOfPush
<1>2. log' = Append(log, e) /\ log \in Seq(Entry)
  BY DEF DaemonCommits, Types
<1> HIDE DEF e
<1>3. /\ Len(log) \in Nat /\ DOMAIN log = 1..Len(log) /\ DOMAIN log' = 1..(Len(log) + 1)
      /\ \A i \in 1..Len(log) : log'[i] = log[i]
      /\ log'[Len(log) + 1] = e
  BY <1>1, <1>2
<1> QED BY <1>1, <1>2, <1>3

LEMMA DaemonIds ==
    ASSUME Types, Ids, NEW p \in transit, DaemonHandles(p)
    PROVE Ids'
<1>1. /\ begun' = begun /\ job' = job /\ pc' = pc
      /\ transit' = transit \ {p}
  BY DEF DaemonHandles
<1>2. IdsOwned /\ IdsKept /\ PushedOnce
  BY DEF Ids
<1>3. PICK ok \in BOOLEAN : answered' = answered \cup {[id |-> p.id, accepted |-> ok]}
  BY DEF DaemonHandles, DaemonCommits, DaemonRefuses
<1>4. \A a \in answered' : a \in answered \/ a.id = p.id
  BY <1>3
<1>5. \A i \in DOMAIN log' : log'[i].id = p.id \/ \E j \in DOMAIN log : log'[i] = log[j]
  <2>1. CASE DaemonRefuses(p)
    BY <2>1 DEF DaemonRefuses
  <2>2. CASE DaemonCommits(p)
    <3>1. ASSUME NEW i \in DOMAIN log' PROVE i \in DOMAIN log \/ i = Len(log) + 1
      BY <2>2, <3>1, LogGrows
    <3> QED BY <2>2, <3>1, LogGrows
  <2> QED BY <2>1, <2>2 DEF DaemonHandles
<1>6. IdsOwned'
  <2>1. ASSUME NEW g \in Helpers, pc[g] \in {"list", "resolve", "send"}
        PROVE Unsent(job[g].id)'
    <3>1. Unsent(job[g].id) /\ job[g].id # p.id
      BY <1>2, <2>1 DEF IdsOwned, Unsent
    <3> QED BY <1>1, <1>4, <1>5, <3>1 DEF Unsent
  <2> QED BY <1>1, <1>2, <2>1 DEF IdsOwned
<1>7. ASSUME NEW q \in transit'
      PROVE /\ q.id \in 1..begun
            /\ \A a \in answered' : a.id # q.id
            /\ \A i \in DOMAIN log' : log'[i].id # q.id
            /\ \A r \in transit' : r.id = q.id => r = q
            /\ \A g \in Helpers : job[g].id = q.id => job[g].batch = q.batch
  <2>1. q \in transit /\ q # p /\ q.id # p.id
    BY <1>1, <1>2 DEF IdsKept
  <2> QED BY <1>1, <1>2, <1>4, <1>5, <2>1 DEF IdsKept
<1>8. p.id \in 1..begun /\ \A g \in Helpers : job[g].id = p.id => job[g].batch = p.batch
  BY <1>2 DEF IdsKept
<1>9. CASE DaemonRefuses(p)
  <2>1. log' = log /\ answered' = answered \cup {[id |-> p.id, accepted |-> FALSE]}
    BY <1>9 DEF DaemonRefuses
  <2>2. PushedOnce'
    BY <1>2, <2>1 DEF PushedOnce
  <2>3. \A a \in answered' : a.id \in 1..begun /\ (a.accepted => \E i \in DOMAIN log : log[i].id = a.id)
    BY <1>2, <1>8, <2>1 DEF IdsKept
  <2>4. IdsKept'
    BY <1>1, <1>2, <1>7, <2>1, <2>3 DEF IdsKept
  <2> QED BY <1>6, <2>2, <2>4 DEF Ids
<1>10. CASE DaemonCommits(p)
  <2> DEFINE n == Len(log) + 1
  <2>1. /\ DOMAIN log = 1..Len(log) /\ DOMAIN log' = 1..n /\ Len(log) \in Nat
        /\ \A i \in 1..Len(log) : log'[i] = log[i]
        /\ log'[n].id = p.id /\ log'[n].batch = p.batch
    BY <1>10, LogGrows
  <2>2. \A i \in DOMAIN log : i \in DOMAIN log' /\ log'[i] = log[i] /\ log[i].id # p.id
    BY <1>2, <2>1 DEF IdsKept
  <2>3. n \in DOMAIN log' /\ \A i \in DOMAIN log' : i \in DOMAIN log \/ i = n
    BY <2>1
  <2> HIDE DEF n
  <2>4. PushedOnce'
    BY <1>2, <2>1, <2>2, <2>3 DEF PushedOnce
  <2>5. ASSUME NEW a \in answered'
        PROVE a.id \in 1..begun /\ (a.accepted => \E i \in DOMAIN log' : log'[i].id = a.id)
    <3>1. CASE a \in answered
      BY <1>2, <2>2, <3>1 DEF IdsKept
    <3>2. CASE a.id = p.id
      BY <1>8, <2>1, <2>3, <3>2
    <3> QED BY <1>4, <3>1, <3>2
  <2>6. \A i \in DOMAIN log' :
            log'[i].id \in 1..begun /\ \A g \in Helpers : job[g].id = log'[i].id => job[g].batch = log'[i].batch
    BY <1>2, <1>8, <2>1, <2>2, <2>3 DEF IdsKept
  <2>7. IdsKept'
    BY <1>1, <1>7, <2>5, <2>6 DEF IdsKept
  <2> QED BY <1>6, <2>4, <2>7 DEF Ids
<1> QED BY <1>9, <1>10 DEF DaemonHandles

-----------------------------------------------------------------------------
(* Updates and the commands they come from.                                *)

(* When as many updates as commands are resolved, no two commands have one *)
(* destination, so each has its own update.                                *)
LEMMA ResolvedAnswers ==
    ASSUME Types, UpdatesAsked, NEW h \in Helpers, AllResolved(h)
    PROVE Answering(job[h].batch, job[h].updates)
<1> DEFINE B == job[h].batch
           D == {c.destination : c \in B}
           f == [c \in B |-> c.destination]
           N == Resolved(h)
<1>1. IsFiniteSet(B)
  BY JobFields
<1>2. f \in Surjection(B, D)
  BY DEF Surjection
<1>3. N \subseteq D
  BY DEF UpdatesAsked, Resolved, Asks
<1>4. Cardinality(N) = Cardinality(B)
  BY DEF UpdatesAsked, AllResolved
<1>5. /\ IsFiniteSet(D) /\ Cardinality(D) <= Cardinality(B)
      /\ Cardinality(D) = Cardinality(B) => f \in Injection(B, D)
  <2> HIDE DEF B, D, f
  <2> QED BY <1>1, <1>2, FS_Surjection
<1>6. Cardinality(N) <= Cardinality(D) /\ (Cardinality(D) = Cardinality(N) => D = N)
  <2> HIDE DEF B, D, f, N
  <2> QED BY <1>3, <1>5, FS_Subset
<1>7. Cardinality(D) \in Nat /\ Cardinality(B) \in Nat
  <2> HIDE DEF B, D, f, N
  <2> QED BY <1>1, <1>5, FS_CardinalityType
<1>8. D = N /\ f \in Injection(B, D)
  <2> HIDE DEF B, D, f, N
  <2> QED BY <1>4, <1>5, <1>6, <1>7
<1>9. \A c, d \in B : c.destination = d.destination => c = d
  BY <1>8 DEF Injection, IsInjective
<1>10. \A c \in B : \E u \in job[h].updates : u.name = c.destination
  BY <1>8 DEF Resolved
<1>11. \A u \in job[h].updates : \E c \in B : Asks(c, u)
  BY DEF UpdatesAsked
<1> HIDE DEF B, D, f, N
<1>12. Answering(B, job[h].updates)
  BY <1>9, <1>10, <1>11 DEF Answering, Asks
<1> QED BY <1>12 DEF B

LEMMA UpdatesKept ==
    ASSUME Types, NEW h \in Helpers, ListForPush(h) \/ CreatePack(h) \/ RequestPack(h)
    PROVE job'[h].updates = job[h].updates
<1>1. job \in [Helpers -> Job] /\ job[h] \in Job
  BY DEF Types
<1>2. CASE ListForPush(h)
  BY <1>1, <1>2 DEF ListForPush, Job
<1>3. CASE CreatePack(h)
  <2>1. PICK exclude \in Excludes(h) :
            job' = [job EXCEPT ![h].pack = History(Includes(h)) \ History(exclude)]
    BY <1>3 DEF CreatePack
  <2> QED BY <1>1, <2>1 DEF Job
<1>4. CASE RequestPack(h)
  <2>1. PICK haves \in LocalPrerequisites(h) :
            job' = [job EXCEPT ![h].pack = History(job[h].wants) \ History(haves \cap stored)]
    BY <1>4 DEF RequestPack
  <2> QED BY <1>1, <2>1 DEF Job
<1> QED BY <1>2, <1>3, <1>4

LEMMA NamesFinite ==
    ASSUME NEW U, IsFiniteSet(U)
    PROVE IsFiniteSet({u.name : u \in U})
<1> DEFINE N == {u.name : u \in U}
           f == [u \in U |-> u.name]
<1>1. f \in Surjection(U, N)
  BY DEF Surjection
<1> HIDE DEF N, f
<1>2. IsFiniteSet(N)
  BY <1>1, FS_Surjection
<1> QED BY <1>2 DEF N

LEMMA HelperUpdates ==
    ASSUME Types, UpdatesAsked, NEW h \in Helpers, HelperStep(h)
    PROVE UpdatesAsked'
<1>1. OthersKept(h) /\ (Begins(h) \/ Finishes(h) \/ GoesOn(h) \/ Sends(h))
  BY HelperKinds
<1>2. \A g \in Helpers \ {h} :
        /\ \A u \in job'[g].updates : \E c \in job'[g].batch : Asks(c, u)
        /\ IsFiniteSet(job'[g].updates)
        /\ Cardinality({u.name : u \in job'[g].updates}) = Cardinality(job'[g].updates)
  BY <1>1 DEF UpdatesAsked, OthersKept, Resolved
<1>3. /\ \A u \in job'[h].updates : \E c \in job'[h].batch : Asks(c, u)
      /\ IsFiniteSet(job'[h].updates)
      /\ Cardinality({u.name : u \in job'[h].updates}) = Cardinality(job'[h].updates)
  <2>1. CASE Begins(h) \/ Finishes(h)
    <3>1. job'[h].updates = {}
      BY <2>1 DEF Begins, Finishes
    <3>2. {u.name : u \in job'[h].updates} = {}
      BY <3>1
    <3> QED BY <3>1, <3>2, FS_EmptySet
  <2>2. CASE Sends(h) \/ ListForPush(h) \/ CreatePack(h) \/ RequestPack(h)
    <3>1. job'[h].updates = job[h].updates /\ job'[h].batch = job[h].batch
      BY <2>2, UpdatesKept, GoOnKind DEF Sends, GoesOn
    <3> QED BY <3>1 DEF UpdatesAsked, Resolved
  <2>3. CASE Resolve(h)
    <3>1. PICK c \in job[h].batch :
            c.destination \notin Resolved(h) /\ job' = [job EXCEPT ![h].updates = @ \cup {UpdateOf(h, c)}]
      BY <2>3 DEF Resolve
    <3> DEFINE x == UpdateOf(h, c)
               U == job[h].updates
               N == Resolved(h)
    <3>2. Asks(c, x) /\ x.name = c.destination
      BY UpdateOfType DEF Asks
    <3> HIDE DEF x
    <3>3. job'[h].updates = U \cup {x} /\ job'[h].batch = job[h].batch
      <4>1. job \in [Helpers -> Job] /\ job[h] \in Job
        BY DEF Types
      <4>2. job' = [job EXCEPT ![h].updates = @ \cup {x}]
        BY <3>1 DEF x
      <4> QED BY <4>1, <4>2 DEF Job
    <3>4. x \notin U /\ x.name \notin N
      BY <3>1, <3>2 DEF Resolved
    <3>5. {u.name : u \in U \cup {x}} = N \cup {x.name}
      BY DEF Resolved
    <3>6. IsFiniteSet(U) /\ Cardinality(N) = Cardinality(U) /\ \A u \in U : \E d \in job[h].batch : Asks(d, u)
      BY DEF UpdatesAsked
    <3>7. IsFiniteSet(N)
      BY <3>6, NamesFinite DEF Resolved
    <3>8. \A u \in U \cup {x} : \E d \in job[h].batch : Asks(d, u)
      BY <3>2, <3>6
    <3>9. IsFiniteSet(U \cup {x}) /\ Cardinality(U \cup {x}) = Cardinality(N \cup {x.name})
      <4> DEFINE y == x.name
      <4> HIDE DEF U, N, y
      <4>1. IsFiniteSet(U \cup {x}) /\ Cardinality(U \cup {x}) = Cardinality(U) + 1
        BY <3>4, <3>6, FS_AddElement
      <4>2. y \notin N => Cardinality(N \cup {y}) = Cardinality(N) + 1
        BY <3>7, FS_AddElement
      <4> QED BY <3>4, <3>6, <4>1, <4>2 DEF y
    <3> QED BY <3>3, <3>5, <3>8, <3>9
  <2> QED BY <2>1, <2>2, <2>3, BeginKind, FinishKind, SendKind DEF HelperStep
<1> QED BY <1>2, <1>3 DEF UpdatesAsked, Resolved

(* The steps into "send" and "resolve". *)
LEMMA SendStep ==
    ASSUME Types, NEW h \in Helpers, HelperStep(h), pc'[h] = "send"
    PROVE CreatePack(h)
<1>1. CASE ListForPush(h) \/ RequestPack(h) \/ Resolve(h)
  BY <1>1 DEF ListForPush, RequestPack, Resolve, Types
<1> QED BY <1>1, BeginKind, FinishKind, SendKind DEF HelperStep, Begins, Finishes, Sends

LEMMA ResolveStep ==
    ASSUME Types, NEW h \in Helpers, HelperStep(h), pc'[h] = "resolve"
    PROVE ListForPush(h) \/ Resolve(h)
<1>1. CASE CreatePack(h) \/ RequestPack(h)
  BY <1>1 DEF CreatePack, RequestPack, Types
<1> QED BY <1>1, BeginKind, FinishKind, SendKind DEF HelperStep, Begins, Finishes, Sends

LEMMA HelperAnswers ==
    ASSUME Types, UpdatesAsked, PushesAnswer, NEW h \in Helpers, HelperStep(h)
    PROVE PushesAnswer'
<1>1. OthersKept(h) /\ (Begins(h) \/ Finishes(h) \/ GoesOn(h) \/ Sends(h))
  BY HelperKinds
<1>2. log' = log /\ \A i \in DOMAIN log : Answering(log[i].batch, log[i].updates)
  BY <1>1 DEF PushesAnswer, OthersKept
<1>3. \A g \in Helpers \ {h} : pc'[g] = "send" => Answering(job'[g].batch, job'[g].updates)
  BY <1>1 DEF PushesAnswer, OthersKept
<1>4. ASSUME NEW p \in transit' PROVE Answering(p.batch, p.updates)
  <2>1. CASE p \in transit
    BY <2>1 DEF PushesAnswer
  <2>2. CASE p \notin transit
    <3>1. Sends(h)
      BY <1>1, <1>4, <2>2 DEF Begins, Finishes, GoesOn
    <3>2. p.batch = job[h].batch /\ p.updates = job[h].updates /\ pc[h] = "send"
      BY <1>4, <2>2, <3>1 DEF Sends
    <3> QED BY <3>2 DEF PushesAnswer
  <2> QED BY <2>1, <2>2
<1>5. ASSUME pc'[h] = "send" PROVE Answering(job'[h].batch, job'[h].updates)
  <2>1. GoesOn(h)
    BY <1>1, <1>5 DEF Begins, Finishes, Sends
  <2>2. CreatePack(h)
    BY <1>5, <2>1, SendStep
  <2>3. job'[h].updates = job[h].updates /\ job'[h].batch = job[h].batch /\ AllResolved(h)
    BY <2>1, <2>2, UpdatesKept DEF CreatePack, GoesOn
  <2> QED BY <2>3, ResolvedAnswers
<1> QED BY <1>2, <1>3, <1>4, <1>5 DEF PushesAnswer

LEMMA DaemonAnswers ==
    ASSUME Types, PushesAnswer, NEW p \in transit, DaemonHandles(p)
    PROVE PushesAnswer'
<1>1. job' = job /\ pc' = pc /\ transit' \subseteq transit
  BY DEF DaemonHandles
<1>2. ASSUME NEW i \in DOMAIN log' PROVE Answering(log'[i].batch, log'[i].updates)
  <2>1. CASE DaemonRefuses(p)
    BY <1>2, <2>1 DEF DaemonRefuses, PushesAnswer
  <2>2. CASE DaemonCommits(p) /\ i \in DOMAIN log
    BY <2>2, LogGrows DEF PushesAnswer
  <2>3. CASE DaemonCommits(p) /\ i \notin DOMAIN log
    <3>1. i = Len(log) + 1
      BY <1>2, <2>3, LogGrows
    <3>2. log'[i].batch = p.batch /\ log'[i].updates = p.updates
      BY <2>3, <3>1, LogGrows
    <3> QED BY <3>2 DEF PushesAnswer
  <2> QED BY <2>1, <2>2, <2>3 DEF DaemonHandles
<1> QED BY <1>1, <1>2 DEF PushesAnswer

-----------------------------------------------------------------------------
(* Histories.                                                              *)

LEMMA HistoryClosed ==
    ASSUME NEW S \in SUBSET Commit
    PROVE /\ S \subseteq History(S)
          /\ \A c \in History(S) : Ancestors[c] \subseteq History(S)
          /\ \A T \in SUBSET History(S) : History(T) \subseteq History(S)
BY HistoryAssumption DEF History

LEMMA SomeOf == ASSUME NEW n, NEW S, NEW T \in AtMost(n, S) PROVE T \subseteq S
BY DEF AtMost, kSubset

LEMMA HelperComplete ==
    ASSUME Types, PushesComplete, PacksSuffice, NEW h \in Helpers, HelperStep(h)
    PROVE PushesComplete' /\ PacksSuffice'
<1>1. OthersKept(h) /\ (Begins(h) \/ Finishes(h) \/ GoesOn(h) \/ Sends(h))
  BY HelperKinds
<1>2. theirs' = theirs /\ stored' = stored /\ theirs \in Listing
  BY <1>1 DEF OthersKept, Types
<1>3. \A U, P : Completes(U, P)' <=> Completes(U, P)
  BY <1>2 DEF Completes
<1>4. \A g \in Helpers \ {h} :
        /\ pc'[g] = "resolve" => History(Targets(job'[g].listing)) \subseteq stored
        /\ pc'[g] = "send" => Completes(job'[g].updates, job'[g].pack)
  BY <1>1 DEF PushesComplete, OthersKept
<1>5. ASSUME pc'[h] = "resolve" PROVE History(Targets(job'[h].listing)) \subseteq stored
  <2>1. CASE ListForPush(h)
    <3>1. job \in [Helpers -> Job] /\ job[h] \in Job
      BY DEF Types
    <3>2. job'[h].listing = theirs
      BY <2>1, <3>1 DEF ListForPush, Job
    <3> QED BY <3>2 DEF PushesComplete
  <2>2. CASE Resolve(h)
    <3>1. job \in [Helpers -> Job] /\ job[h] \in Job
      BY DEF Types
    <3>2. PICK c \in job[h].batch : job' = [job EXCEPT ![h].updates = @ \cup {UpdateOf(h, c)}]
      BY <2>2 DEF Resolve
    <3>3. job'[h].listing = job[h].listing
      BY <3>1, <3>2 DEF Job
    <3> QED BY <2>2, <3>3 DEF PushesComplete, Resolve
  <2> QED BY <1>5, <2>1, <2>2, ResolveStep
<1>6. ASSUME pc'[h] = "send" PROVE Completes(job'[h].updates, job'[h].pack)
  <2>1. CreatePack(h)
    BY <1>6, SendStep
  <2>2. PICK exclude \in Excludes(h) :
            job' = [job EXCEPT ![h].pack = History(Includes(h)) \ History(exclude)]
    BY <2>1 DEF CreatePack
  <2>3. job \in [Helpers -> Job] /\ job[h] \in Job
    BY DEF Types
  <2>4. job'[h].pack = History(Includes(h)) \ History(exclude) /\ job'[h].updates = job[h].updates
    BY <2>2, <2>3 DEF Job
  <2>5. exclude \subseteq Targets(job[h].listing)
    BY SomeOf DEF Excludes
  <2>6. Targets(job[h].listing) \in SUBSET Commit
    BY JobFields DEF Targets, Listing
  <2>7. History(exclude) \subseteq History(Targets(job[h].listing))
    BY <2>5 DEF History
  <2>8. History(Targets(job[h].listing)) \subseteq stored
    BY <2>1 DEF PushesComplete, CreatePack, AllResolved
  <2>9. ASSUME NEW u \in job[h].updates, u.new # None
        PROVE Ancestors[u.new] \subseteq History(Includes(h))
    BY <2>9 DEF Includes, History
  <2> QED BY <2>4, <2>7, <2>8, <2>9 DEF Completes
<1>7. PushesComplete'
  <2>1. \A g \in Helpers : pc'[g] = "resolve" => History(Targets(job'[g].listing)) \subseteq stored'
    BY <1>2, <1>4, <1>5
  <2>2. \A g \in Helpers : pc'[g] = "send" => Completes(job[g].updates, job[g].pack)'
    BY <1>2, <1>4, <1>6 DEF Completes
  <2>3. (History(Targets(theirs)) \subseteq stored)'
    BY <1>2 DEF PushesComplete
  <2> QED BY <2>1, <2>2, <2>3 DEF PushesComplete
<1>8. PacksSuffice'
  <2>1. ASSUME NEW p \in transit'
        PROVE \A u \in p.updates : u.new # None => Ancestors[u.new] \subseteq stored \cup p.pack
    <3>1. CASE p \in transit
      BY <3>1 DEF PacksSuffice
    <3>2. CASE p \notin transit
      <4>1. Sends(h)
        BY <1>1, <2>1, <3>2 DEF Begins, Finishes, GoesOn
      <4>2. p.pack = job[h].pack /\ p.updates = job[h].updates /\ pc[h] = "send"
        BY <2>1, <3>2, <4>1 DEF Sends
      <4> QED BY <4>2 DEF PushesComplete, Completes
    <3> QED BY <3>1, <3>2
  <2> QED BY <1>2, <2>1 DEF PacksSuffice
<1> QED BY <1>7, <1>8

(* A commit adds what its new values need.                                 *)
LEMMA DaemonComplete ==
    ASSUME Types, PushesComplete, PacksSuffice, NEW p \in transit, DaemonHandles(p)
    PROVE PushesComplete' /\ PacksSuffice'
<1>1. job' = job /\ pc' = pc /\ transit' \subseteq transit /\ stored \subseteq stored'
  BY DEF DaemonHandles, DaemonCommits, DaemonRefuses
<1>2. PacksSuffice'
  BY <1>1 DEF PacksSuffice
<1>3. History(Targets(theirs')) \subseteq stored'
  <2>1. CASE DaemonRefuses(p)
    BY <2>1 DEF DaemonRefuses, PushesComplete
  <2>2. CASE DaemonCommits(p)
    <3>1. SUFFICES ASSUME NEW n \in Names, theirs'[n] # None
                   PROVE Ancestors[theirs'[n]] \subseteq stored'
      BY DEF History, Targets
    <3>2. CASE theirs'[n] = theirs[n]
      BY <1>1, <3>1, <3>2 DEF PushesComplete, History, Targets
    <3>3. CASE \E u \in p.updates : u.name = n /\ theirs'[n] = u.new
      BY <2>2, <3>1, <3>3 DEF DaemonCommits, Acceptable
    <3> QED BY <2>2, <3>2, <3>3, CommitSets
  <2> QED BY <2>1, <2>2 DEF DaemonHandles
<1>4. \A g \in Helpers :
        /\ pc'[g] = "resolve" => History(Targets(job'[g].listing)) \subseteq stored'
        /\ pc'[g] = "send" => Completes(job[g].updates, job[g].pack)'
  BY <1>1 DEF PushesComplete, Completes
<1> QED BY <1>2, <1>3, <1>4 DEF PushesComplete

-----------------------------------------------------------------------------
(* Working copies.                                                         *)

LEMMA ReachableIsCommits ==
    ASSUME Types, NEW h \in Helpers
    PROVE {work[h]} \cup tracked[h] \in SUBSET Commit /\ Reachable(h) \in SUBSET Commit
<1>1. {work[h]} \cup tracked[h] \in SUBSET Commit
  BY DEF Types
<1> QED BY <1>1, HistoryIsCommits DEF Reachable

(* Commits written on what the user has, merges and resets stay closed.    *)
LEMMA UserFetched ==
    ASSUME Types, FetchesComplete, FetchedClosed, NEW h \in Helpers, UserMoves(h)
    PROVE FetchesComplete' /\ FetchedClosed'
<1>1. PICK c \in Commit :
        /\ Ancestors[c] \ {c} \subseteq Reachable(h)
        /\ work' = [work EXCEPT ![h] = c]
        /\ objects' = [objects EXCEPT ![h] = @ \cup {c}]
  BY DEF UserMoves
<1>2. tracked' = tracked /\ pc' = pc /\ job' = job
  BY DEF UserMoves
<1>3. /\ work'[h] = c /\ objects'[h] = objects[h] \cup {c}
      /\ \A g \in Helpers : objects[g] \subseteq objects'[g] /\ (g # h => work'[g] = work[g])
  BY <1>1 DEF Types
<1>4. FetchesComplete'
  BY <1>2, <1>3 DEF FetchesComplete
<1>5. ASSUME NEW g \in Helpers PROVE History({work'[g]} \cup tracked[g]) \subseteq objects'[g]
  <2>1. Reachable(g) \subseteq objects[g]
    BY DEF FetchedClosed
  <2>2. CASE g = h
    <3>1. Ancestors[c] \subseteq objects'[h]
      BY <1>1, <1>3, <2>1, <2>2
    <3>2. \A t \in tracked[h] : Ancestors[t] \subseteq Reachable(h)
      BY DEF Reachable, History
    <3> QED BY <1>3, <2>1, <2>2, <3>1, <3>2 DEF History
  <2>3. CASE g # h
    BY <1>3, <2>1, <2>3 DEF Reachable
  <2> QED BY <2>2, <2>3
<1>6. FetchedClosed'
  BY <1>2, <1>5 DEF FetchedClosed, Reachable
<1> QED BY <1>4, <1>6

LEMMA InstallStep ==
    ASSUME Types, NEW h \in Helpers, HelperStep(h), pc'[h] = "install"
    PROVE RequestPack(h)
<1>1. CASE ListForPush(h) \/ CreatePack(h) \/ Resolve(h)
  BY <1>1 DEF ListForPush, CreatePack, Resolve, Types
<1> QED BY <1>1, BeginKind, FinishKind, SendKind DEF HelperStep, Begins, Finishes, Sends

(* The haves are local history, which is complete, so the pack and the     *)
(* working copy complete what is wanted; installing keeps that.            *)
LEMMA HelperFetched ==
    ASSUME Types, FetchesComplete, FetchedClosed, NEW h \in Helpers, HelperStep(h)
    PROVE FetchesComplete' /\ FetchedClosed'
<1>1. OthersKept(h) /\ (Begins(h) \/ Finishes(h) \/ GoesOn(h) \/ Sends(h))
  BY HelperKinds
<1>2. \A g \in Helpers \ {h} :
        /\ pc'[g] = "install" => History(job'[g].wants) \subseteq objects'[g] \cup job'[g].pack
        /\ History({work'[g]} \cup tracked'[g]) \subseteq objects'[g]
  BY <1>1 DEF OthersKept, FetchesComplete, FetchedClosed, Reachable
<1>3. Reachable(h) \subseteq objects[h]
  BY DEF FetchedClosed
<1>4. ASSUME pc'[h] = "install"
      PROVE History(job'[h].wants) \subseteq objects'[h] \cup job'[h].pack
  <2>1. RequestPack(h) /\ objects' = objects
    BY <1>4, InstallStep DEF RequestPack, local
  <2>2. PICK haves \in LocalPrerequisites(h) :
            job' = [job EXCEPT ![h].pack = History(job[h].wants) \ History(haves \cap stored)]
    BY <2>1 DEF RequestPack
  <2>3. job \in [Helpers -> Job] /\ job[h] \in Job
    BY DEF Types
  <2>4. /\ job'[h].wants = job[h].wants
        /\ job'[h].pack = History(job[h].wants) \ History(haves \cap stored)
    BY <2>2, <2>3 DEF Job
  <2>5. haves \subseteq Reachable(h)
    BY SomeOf DEF LocalPrerequisites
  <2>6. \A c \in Reachable(h) : Ancestors[c] \subseteq Reachable(h)
    BY ReachableIsCommits, HistoryClosed DEF Reachable
  <2>7. History(haves \cap stored) \subseteq Reachable(h)
    BY <2>5, <2>6 DEF History
  <2> QED BY <1>3, <2>1, <2>4, <2>7
<1>5. CASE InstallPack(h)
  <2>1. /\ objects'[h] = objects[h] \cup job[h].pack /\ work' = work
        /\ tracked'[h] = tracked[h] \/ tracked'[h] = tracked[h] \cup job[h].wants
    BY <1>5 DEF InstallPack, Types
  <2>2. History(job[h].wants) \subseteq objects'[h]
    BY <1>5, <2>1 DEF FetchesComplete, InstallPack
  <2>3. History({work[h]} \cup tracked[h]) \subseteq objects'[h]
    BY <1>3, <2>1 DEF Reachable
  <2>4. History({work[h]} \cup (tracked[h] \cup job[h].wants)) \subseteq objects'[h]
    BY <2>2, <2>3 DEF History
  <2> QED BY <1>2, <1>4, <2>1, <2>3, <2>4 DEF FetchesComplete, FetchedClosed, Reachable
<1>6. CASE ~InstallPack(h)
  <2>1. UNCHANGED local
    BY <1>6 DEF HelperStep, PushBegins, ListForPush, Resolve, DuplicateDestination, CreatePack, PackFails,
                SendPush, PushReturns, PushBreaks, FetchBegins, RequestPack, StepFails
  <2>2. FetchedClosed'
    BY <2>1 DEF local, FetchedClosed, Reachable
  <2> QED BY <1>2, <1>4, <2>2 DEF FetchesComplete
<1> QED BY <1>5, <1>6

-----------------------------------------------------------------------------
(* The log.                                                                *)

LEMMA DaemonKeepsHistory ==
    ASSUME Types, PushesAnswer, UnforcedKeepsHistory, NEW p \in transit, DaemonHandles(p)
    PROVE UnforcedKeepsHistory'
<1>1. CASE DaemonRefuses(p)
  BY <1>1 DEF DaemonRefuses, UnforcedKeepsHistory
<1>2. CASE DaemonCommits(p)
  <2>1. SUFFICES ASSUME NEW i \in DOMAIN log', NEW c \in log'[i].batch, NEW u \in log'[i].updates,
                        ~c.force, ~c.deletes, u.name = c.destination, log'[i].replaced[u.name] # None
                 PROVE log'[i].replaced[u.name] \in Ancestors[u.new]
    BY DEF UnforcedKeepsHistory
  <2>2. CASE i \in DOMAIN log
    <3>1. log'[i] = log[i]
      BY <1>2, <2>2, LogGrows
    <3> QED BY <2>1, <2>2, <3>1 DEF UnforcedKeepsHistory
  <2>3. CASE i \notin DOMAIN log
    <3>1. i = Len(log) + 1
      BY <1>2, <2>1, <2>3, LogGrows
    <3>2. log'[i].batch = p.batch /\ log'[i].updates = p.updates /\ log'[i].replaced = theirs
      BY <1>2, <3>1, LogGrows
    <3>3. c \in p.batch /\ u \in p.updates
      BY <2>1, <3>2
    <3>4. u.force = c.force /\ u.new # None
      BY <2>1, <3>3 DEF PushesAnswer, Answering, Asks
    <3>5. theirs[u.name] = u.expected /\ (u.force \/ u.expected = None \/ u.expected \in Ancestors[u.new])
      BY <1>2, <3>3, <3>4 DEF DaemonCommits, Acceptable
    <3> QED BY <2>1, <3>2, <3>4, <3>5
  <2> QED BY <2>2, <2>3
<1> QED BY <1>1, <1>2 DEF DaemonHandles

Committed(id, batch) ==
    \E i \in DOMAIN log :
        /\ log[i].id = id
        /\ \A c \in batch : \E u \in log[i].updates : u.name = c.destination /\ (u.new = None <=> c.deletes)

LEMMA DaemonKeepsOk ==
    ASSUME Types, OkMeansCommitted, NEW p \in transit, DaemonHandles(p)
    PROVE OkMeansCommitted'
<1>1. job' = job
  BY DEF DaemonHandles
<1>2. ASSUME NEW id, NEW batch, Committed(id, batch) PROVE Committed(id, batch)'
  <2>1. CASE DaemonRefuses(p)
    BY <1>2, <2>1 DEF DaemonRefuses, Committed
  <2>2. CASE DaemonCommits(p)
    <3>1. \A i \in DOMAIN log : i \in DOMAIN log' /\ log'[i] = log[i]
      BY <2>2, LogGrows
    <3> QED BY <1>2, <3>1 DEF Committed
  <2> QED BY <2>1, <2>2 DEF DaemonHandles
<1>3. ASSUME NEW h \in Helpers, job[h].report = "ok", job[h].batch # {}
      PROVE Committed(job[h].id, job[h].batch)
  BY <1>3 DEF OkMeansCommitted, Committed
<1>4. ASSUME NEW h \in Helpers, job[h].report = "ok", job[h].batch # {}
      PROVE Committed(job[h].id, job[h].batch)'
  BY <1>1, <1>2, <1>3, <1>4
<1> QED BY <1>1, <1>4 DEF OkMeansCommitted, Committed

(* "ok" answers this very push: its identifier is in the log, with the     *)
(* batch the helper was given.                                             *)
LEMMA HelperKeepsOk ==
    ASSUME Types, Ids, PushesAnswer, OkMeansCommitted, NEW h \in Helpers, HelperStep(h)
    PROVE OkMeansCommitted'
<1>1. OthersKept(h) /\ (Begins(h) \/ Finishes(h) \/ GoesOn(h) \/ Sends(h))
  BY HelperKinds
<1>2. log' = log
  BY <1>1 DEF OthersKept
<1>3. \A g \in Helpers : job[g].report = "ok" /\ job[g].batch # {} => Committed(job[g].id, job[g].batch)
  BY DEF OkMeansCommitted, Committed
<1>4. ASSUME NEW g \in Helpers, job'[g].report = "ok", job'[g].batch # {}
      PROVE Committed(job'[g].id, job'[g].batch)
  <2>1. CASE g # h \/ GoesOn(h) \/ Sends(h)
    <3>1. job'[g].report = job[g].report /\ job'[g].id = job[g].id /\ job'[g].batch = job[g].batch
      BY <1>1, <2>1 DEF OthersKept, GoesOn, Sends
    <3> QED BY <1>3, <1>4, <3>1
  <2>2. CASE g = h /\ Begins(h)
    BY <1>4, <2>2 DEF Begins
  <2>3. CASE g = h /\ Finishes(h)
    <3>1. job'[h].id = job[h].id /\ job'[h].batch = job[h].batch /\ job[h].batch # {}
      BY <1>4, <2>3 DEF Finishes
    <3>2. pc[h] # "install"
      BY <3>1 DEF Ids, IdsOwned
    <3>3. PICK a \in answered : a.id = job[h].id /\ a.accepted
      BY <1>4, <2>3, <3>2 DEF Finishes
    <3>4. PICK i \in DOMAIN log : log[i].id = job[h].id
      BY <3>3 DEF Ids, IdsKept
    <3>5. log[i].batch = job[h].batch
      BY <3>4 DEF Ids, IdsKept
    <3>6. Answering(job[h].batch, log[i].updates)
      BY <3>5 DEF PushesAnswer
    <3>7. Committed(job[h].id, job[h].batch)
      BY <3>4, <3>6 DEF Committed, Answering, Asks
    <3> QED BY <2>3, <3>1, <3>7
  <2> QED BY <1>1, <2>1, <2>2, <2>3
<1> QED BY <1>2, <1>4 DEF OkMeansCommitted, Committed

-----------------------------------------------------------------------------
(* The theorems.                                                           *)

(* The parts of the invariant that do not depend on local branches.        *)
Remote == /\ UpdatesAsked /\ PushesAnswer /\ PushesComplete /\ PacksSuffice
          /\ Ids /\ UnforcedKeepsHistory /\ OkMeansCommitted

LEMMA RemoteStutters ==
    ASSUME Remote, UNCHANGED <<begun, pc, job, daemon>>
    PROVE Remote'
<1>1. /\ begun' = begun /\ pc' = pc /\ job' = job /\ transit' = transit /\ answered' = answered
      /\ theirs' = theirs /\ stored' = stored /\ log' = log
  BY DEF daemon
<1>2. UpdatesAsked' /\ PushesAnswer'
  BY <1>1 DEF Remote, UpdatesAsked, PushesAnswer, Resolved
<1>3. PushesComplete' /\ PacksSuffice'
  BY <1>1 DEF Remote, PushesComplete, PacksSuffice, Completes
<1>4. IdsOwned' /\ IdsKept' /\ PushedOnce'
  BY <1>1 DEF Remote, Ids, IdsOwned, IdsKept, PushedOnce, Unsent
<1>5. UnforcedKeepsHistory' /\ OkMeansCommitted'
  BY <1>1 DEF Remote, UnforcedKeepsHistory, OkMeansCommitted
<1> QED BY <1>2, <1>3, <1>4, <1>5 DEF Remote, Ids

LEMMA InitHoldsInv == Init => HelperInv
<1> SUFFICES ASSUME Init PROVE HelperInv
  OBVIOUS
<1>1. Types
  <2>1. theirs \in Listing /\ stored \subseteq Commit
    BY HistoryAssumption DEF Init, Listing
  <2>2. job \in [Helpers -> Job] /\ log \in Seq(Entry) /\ begun \in 0..MaxRuns
    BY IdleFields, RunsAssumption DEF Init
  <2> QED BY <2>1, <2>2, HistoryAssumption DEF Init, Types
<1>2. \A h \in Helpers : job[h].updates = {} /\ job[h].id = 0 /\ job[h].report = "none"
  BY DEF Init, Idle
<1>3. UpdatesAsked
  <2>1. ASSUME NEW h \in Helpers PROVE IsFiniteSet(job[h].updates) /\ Resolved(h) = job[h].updates
    BY <1>2, FS_EmptySet DEF Resolved
  <2> QED BY <1>2, <2>1 DEF UpdatesAsked
<1>4. PushesAnswer /\ PacksSuffice /\ FetchesComplete /\ UnforcedKeepsHistory
  BY DEF Init, PushesAnswer, PacksSuffice, FetchesComplete, UnforcedKeepsHistory
<1>5. PushesComplete
  BY HistoryAssumption DEF Init, PushesComplete, History, Targets
<1>6. FetchedClosed
  BY HistoryAssumption DEF Init, FetchedClosed, Reachable, History
<1>7. IdsOwned /\ IdsKept /\ PushedOnce
  BY <1>2 DEF Init, IdsOwned, IdsKept, PushedOnce, Unsent
<1>8. OkMeansCommitted
  BY <1>2 DEF OkMeansCommitted
<1> QED BY <1>1, <1>3, <1>4, <1>5, <1>6, <1>7, <1>8 DEF HelperInv

LEMMA StepKeepsInv == HelperInv /\ [Next]_vars => HelperInv'
<1> SUFFICES ASSUME HelperInv, [Next]_vars PROVE HelperInv'
  OBVIOUS
<1>1. Types /\ Remote /\ FetchesComplete /\ FetchedClosed
  BY DEF HelperInv, Remote, Ids
<1>2. SUFFICES Types' /\ Remote' /\ FetchesComplete' /\ FetchedClosed'
  BY DEF HelperInv, Remote, Ids
<1>3. ASSUME NEW h \in Helpers, UserMoves(h)
      PROVE Types' /\ Remote' /\ FetchesComplete' /\ FetchedClosed'
  <2>1. UNCHANGED <<begun, pc, job, daemon>>
    BY <1>3 DEF UserMoves
  <2> QED BY <1>1, <1>3, <2>1, UserTypes, UserFetched, RemoteStutters
<1>4. ASSUME NEW h \in Helpers, HelperStep(h)
      PROVE Types' /\ Remote' /\ FetchesComplete' /\ FetchedClosed'
  <2>1. Types' /\ FetchesComplete' /\ FetchedClosed'
    BY <1>1, <1>4, HelperTypes, HelperFetched
  <2>2. UpdatesAsked' /\ PushesAnswer'
    BY <1>1, <1>4, HelperUpdates, HelperAnswers DEF Remote
  <2>3. PushesComplete' /\ PacksSuffice' /\ OkMeansCommitted'
    BY <1>1, <1>4, HelperComplete, HelperKeepsOk DEF Remote
  <2>4. Ids'
    <3>1. OthersKept(h) /\ (Begins(h) \/ Finishes(h) \/ GoesOn(h) \/ Sends(h))
      BY <1>1, <1>4, HelperKinds
    <3> QED BY <1>1, <3>1, BeginIds, ContinueIds, SendIds DEF Remote
  <2>5. UnforcedKeepsHistory'
    <3>1. log' = log
      BY <1>1, <1>4, HelperKinds DEF OthersKept
    <3> QED BY <1>1, <3>1 DEF Remote, UnforcedKeepsHistory
  <2> QED BY <2>1, <2>2, <2>3, <2>4, <2>5 DEF Remote
<1>5. ASSUME NEW p \in transit, DaemonHandles(p)
      PROVE Types' /\ Remote' /\ FetchesComplete' /\ FetchedClosed'
  <2>1. /\ tracked' = tracked /\ work' = work /\ objects' = objects
        /\ job' = job /\ pc' = pc
    BY <1>5 DEF DaemonHandles, local
  <2>2. FetchesComplete' /\ FetchedClosed' /\ UpdatesAsked'
    BY <1>1, <2>1 DEF FetchesComplete, FetchedClosed, Reachable, Remote, UpdatesAsked, Resolved
  <2>3. Types' /\ Ids' /\ PushesAnswer'
    BY <1>1, <1>5, DaemonTypes, DaemonIds, DaemonAnswers DEF Remote
  <2>4. PushesComplete' /\ PacksSuffice' /\ UnforcedKeepsHistory' /\ OkMeansCommitted'
    BY <1>1, <1>5, DaemonComplete, DaemonKeepsHistory, DaemonKeepsOk DEF Remote
  <2> QED BY <2>2, <2>3, <2>4 DEF Remote
<1>6. ASSUME UNCHANGED vars
      PROVE Types' /\ Remote' /\ FetchesComplete' /\ FetchedClosed'
  <2>1. /\ UNCHANGED <<begun, pc, job, daemon>>
        /\ work' = work /\ tracked' = tracked /\ objects' = objects
    BY <1>6 DEF vars, daemon
  <2>2. Types' /\ FetchesComplete' /\ FetchedClosed'
    BY <1>1, <2>1 DEF daemon, Types, FetchesComplete, FetchedClosed, Reachable
  <2> QED BY <1>1, <2>1, <2>2, RemoteStutters
<1> QED BY <1>3, <1>4, <1>5, <1>6 DEF Next

LEMMA InvAlways == Spec => []HelperInv
BY InitHoldsInv, StepKeepsInv, PTL DEF Spec

(* Every variable keeps its type, and the destinations a helper has        *)
(* resolved are distinct destinations of its batch.                        *)
THEOREM HelperTypeCorrect == Spec => []TypeOK
<1>1. HelperInv => TypeOK
  <2> SUFFICES ASSUME HelperInv PROVE TypeOK
    OBVIOUS
  <2>1. Types /\ UpdatesAsked
    BY DEF HelperInv
  <2>2. ASSUME NEW h \in Helpers
        PROVE /\ job[h].listing \in [Names -> Commit \cup {None}]
              /\ job[h].pack \subseteq Commit /\ job[h].wants \subseteq Commit
              /\ job[h].report \in {"none", "ok", "error"}
    BY <2>1 DEF Types, Job, Listing
  <2>3. \A h \in Helpers :
            /\ Cardinality(Resolved(h)) = Cardinality(job[h].updates)
            /\ Resolved(h) \subseteq {c.destination : c \in job[h].batch}
    BY <2>1 DEF UpdatesAsked, Resolved, Asks
  <2> QED BY <2>1, <2>2, <2>3 DEF TypeOK, Types, Listing
<1> QED BY <1>1, InvAlways, PTL

(* When git reads "ok", the daemon has committed this very push with an    *)
(* update for each command of its batch (PushReturns, push_batch).         *)
THEOREM OkIsTrue == Spec => []OkMeansCommitted
<1>1. HelperInv => OkMeansCommitted
  BY DEF HelperInv
<1> QED BY <1>1, InvAlways, PTL

(* No invocation commits twice, whenever its push is handled.              *)
THEOREM PushesHappenOnce == Spec => []PushedOnce
<1>1. HelperInv => PushedOnce
  BY DEF HelperInv
<1> QED BY <1>1, InvAlways, PTL

(* A push without force moves each reference along its history, against    *)
(* the value the reference has when the daemon commits.                    *)
THEOREM UnforcedIsFastForward == Spec => []UnforcedKeepsHistory
<1>1. HelperInv => UnforcedKeepsHistory
  BY DEF HelperInv
<1> QED BY <1>1, InvAlways, PTL

(* The packs on their way complete the daemon's store for any max_haves    *)
(* and any interleaving of other pushes (create_push_pack).                *)
THEOREM PacksAreSufficient == Spec => []PacksSuffice
<1>1. HelperInv => PacksSuffice
  BY DEF HelperInv
<1> QED BY <1>1, InvAlways, PTL

(* A working copy has all the history of its branch and of what it         *)
(* fetched, for any choice of the haves it sends (fetch_batch).            *)
THEOREM FetchesAreComplete == Spec => []FetchedClosed
<1>1. HelperInv => FetchedClosed
  BY DEF HelperInv
<1> QED BY <1>1, InvAlways, PTL
=============================================================================
