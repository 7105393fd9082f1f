---------------------------- MODULE RemoteHelper ----------------------------
(***************************************************************************)
(* git-remote-styrene in several working copies of one identity, and the   *)
(* daemon that keeps the identity's namespace.  Each invocation of the     *)
(* helper serves one command of git, a push batch or a fetch batch, and    *)
(* exits.  IpcClient models the session; what it guarantees is what this   *)
(* module takes: an exchange is answered, refused, or broken, and a push   *)
(* whose exchange broke may be handled at any later time.                  *)
(*                                                                         *)
(* Objects are commits; a pack is the set of commits in it.                *)
(***************************************************************************)
EXTENDS Naturals, Sequences, FiniteSets, FiniteSetsExt

CONSTANTS
    Helpers,      \* working copies of the identity
    Names,        \* references of the daemon's namespace
    Commit,
    Ancestors,    \* for each commit, the commits its history has, itself too
    Batches,      \* the push batches git may supply
    Base,         \* the commit every working copy and the daemon start with
    Main,         \* the reference that holds it
    MaxHaves,     \* limits.max_haves
    MaxRuns,      \* bound: invocations of the helper, in all working copies
    None

ASSUME HistoryAssumption ==
    /\ Ancestors \in [Commit -> SUBSET Commit]
    /\ \A c \in Commit : c \in Ancestors[c] /\ \A p \in Ancestors[c] : Ancestors[p] \subseteq Ancestors[c]
    /\ Base \in Commit /\ Ancestors[Base] = {Base} /\ Main \in Names
    /\ None \notin Commit

ASSUME BatchesAssumption ==
    \A b \in Batches :
        /\ b # {} /\ IsFiniteSet(b)
        /\ b \subseteq [deletes : BOOLEAN, destination : Names, force : BOOLEAN]

ASSUME RunsAssumption == MaxRuns \in Nat

VARIABLES
    work,       \* the branch each user works on
    tracked,    \* the commits each working copy has fetched and git refers to
    objects,    \* the commits each working copy stores
    begun,      \* how many invocations of the helper have begun
    pc,         \* where the helper of each is, "idle" when there is none
    job,        \* what the helper holds
    transit,    \* pushes given to the transport and not handled
    answered,   \* the daemon's answers to pushes
    theirs,     \* the namespace the daemon keeps
    stored,     \* the commits the daemon stores
    log         \* the pushes it has committed, with the values they replaced

vars == <<work, tracked, objects, begun, pc, job, transit, answered, theirs, stored, log>>
local == <<work, tracked, objects>>
daemon == <<transit, answered, theirs, stored, log>>

-----------------------------------------------------------------------------
History(S) == UNION {Ancestors[c] : c \in S}
AtMost(n, S) == kSubset(Min({n, Cardinality(S)}), S)
Targets(listing) == {listing[n] : n \in Names} \ {None}

Idle == [id |-> 0, batch |-> {}, listing |-> [n \in Names |-> None], updates |-> {}, pack |-> {},
         wants |-> {}, report |-> "none"]

(* A mutant: the other references of the listing are taken for held. *)
PrerequisitesFromListing(h) == {Targets(job[h].listing) \ job[h].wants}

(* The commits rev-list --all walks, and the ones it may stop after. *)
Reachable(h) == History({work[h]} \cup tracked[h])
LocalPrerequisites(h) == AtMost(MaxHaves, Reachable(h))

(* A mutant: every update is forced, the expected value being known. *)
UpdateForced(h, c) ==
    [name |-> c.destination, expected |-> job[h].listing[c.destination],
     new |-> IF c.deletes THEN None ELSE work[h], force |-> TRUE]

(* The update of one command of the batch: the expected value is the one   *)
(* of the listing this invocation took, the source is resolved now.        *)
UpdateOf(h, c) ==
    [name |-> c.destination, expected |-> job[h].listing[c.destination],
     new |-> IF c.deletes THEN None ELSE work[h], force |-> c.force]

Resolved(h) == {u.name : u \in job[h].updates}

(* A mutant: the sources are read again for the pack. *)
IncludesReread(h) == {work[h]}

Includes(h) == {u.new : u \in job[h].updates} \ {None}

(* The listed targets, at most max_haves of them. *)
Excludes(h) == AtMost(MaxHaves, Targets(job[h].listing))

(* pack-objects --revs dies of a revision it cannot find, an excluded one  *)
(* too.                                                                    *)
PackPossible(h, exclude) == Includes(h) \cup exclude \subseteq objects[h]

(* The helper process ends; git reads what it reported. *)
Ends(h, report) ==
    /\ pc' = [pc EXCEPT ![h] = "idle"]
    /\ job' = [job EXCEPT ![h] = [Idle EXCEPT !.id = job[h].id, !.batch = job[h].batch,
                                         !.report = report]]
-----------------------------------------------------------------------------
Init ==
    /\ work = [h \in Helpers |-> Base]
    /\ tracked = [h \in Helpers |-> {Base}]
    /\ objects = [h \in Helpers |-> {Base}]
    /\ begun = 0
    /\ pc = [h \in Helpers |-> "idle"]
    /\ job = [h \in Helpers |-> Idle]
    /\ transit = {}
    /\ answered = {}
    /\ theirs = [n \in Names |-> IF n = Main THEN Base ELSE None]
    /\ stored = {Base}
    /\ log = <<>>

(* The user commits, merges, or resets the branch, whatever the helper is  *)
(* doing.                                                                  *)
UserMoves(h) ==
    /\ \E c \in Commit :
        /\ Ancestors[c] \ {c} \subseteq Reachable(h)
        /\ work' = [work EXCEPT ![h] = c]
        /\ objects' = [objects EXCEPT ![h] = @ \cup {c}]
    /\ UNCHANGED <<tracked, begun, pc, job, daemon>>

(* git starts the helper for a push and gives it a batch. *)
PushBegins(h) ==
    /\ pc[h] = "idle" /\ begun < MaxRuns
    /\ begun' = begun + 1
    /\ \E b \in Batches : job' = [job EXCEPT ![h] = [Idle EXCEPT !.id = begun', !.batch = b]]
    /\ pc' = [pc EXCEPT ![h] = "list"]
    /\ UNCHANGED <<local, daemon>>

(* push_batch takes a listing of its own. *)
ListForPush(h) ==
    /\ pc[h] = "list"
    /\ job' = [job EXCEPT ![h].listing = theirs]
    /\ pc' = [pc EXCEPT ![h] = "resolve"]
    /\ UNCHANGED <<local, begun, daemon>>

(* A mutant: a destination may come twice. *)
ResolveRepeated(h) ==
    /\ pc[h] = "resolve"
    /\ \E c \in job[h].batch :
        job' = [job EXCEPT ![h].updates = @ \cup {UpdateOf(h, c)}]
    /\ UNCHANGED <<local, begun, pc, daemon>>

(* One command after another is turned into an update. *)
Resolve(h) ==
    /\ pc[h] = "resolve"
    /\ \E c \in job[h].batch :
        /\ c.destination \notin Resolved(h)
        /\ job' = [job EXCEPT ![h].updates = @ \cup {UpdateOf(h, c)}]
    /\ UNCHANGED <<local, begun, pc, daemon>>

(* Two commands for one destination fail the batch. *)
DuplicateDestination(h) ==
    /\ pc[h] = "resolve"
    /\ \E c, d \in job[h].batch : c # d /\ c.destination = d.destination /\ c.destination \in Resolved(h)
    /\ Ends(h, "error")
    /\ UNCHANGED <<local, begun, daemon>>

AllResolved(h) == pc[h] = "resolve" /\ Cardinality(job[h].updates) = Cardinality(job[h].batch)

(* create_push_pack; without a source there is no pack to make. *)
CreatePack(h) ==
    /\ AllResolved(h)
    /\ \E exclude \in Excludes(h) :
        /\ Includes(h) = {} \/ PackPossible(h, exclude)
        /\ job' = [job EXCEPT ![h].pack = History(Includes(h)) \ History(exclude)]
    /\ pc' = [pc EXCEPT ![h] = "send"]
    /\ UNCHANGED <<local, begun, daemon>>

PackFails(h) ==
    /\ AllResolved(h)
    /\ Includes(h) # {}
    /\ \E exclude \in Excludes(h) : ~PackPossible(h, exclude)
    /\ Ends(h, "error")
    /\ UNCHANGED <<local, begun, daemon>>

SendPush(h) ==
    /\ pc[h] = "send"
    /\ transit' = transit \cup {[id |-> job[h].id, batch |-> job[h].batch,
                              updates |-> job[h].updates, pack |-> job[h].pack]}
    /\ pc' = [pc EXCEPT ![h] = "wait"]
    /\ UNCHANGED <<local, begun, job, answered, theirs, stored, log>>

(* A mutant: the answer to an earlier push is taken. *)
AnswerToAny(h) == answered

AnswerTo(h) == {a \in answered : a.id = job[h].id}

(* Every destination is reported alike. *)
PushReturns(h) ==
    /\ pc[h] = "wait"
    /\ \E a \in AnswerTo(h) : Ends(h, IF a.accepted THEN "ok" ELSE "error")
    /\ UNCHANGED <<local, begun, daemon>>

(* A mutant: after a broken exchange the push is sent again. *)
PushBreaksAndRetries(h) ==
    /\ pc[h] = "wait"
    /\ pc' = [pc EXCEPT ![h] = "list"]
    /\ job' = [job EXCEPT ![h].updates = {}, ![h].pack = {}]
    /\ UNCHANGED <<local, begun, daemon>>

(* The exchange broke: PushIndeterminate, which git sees as an error too.  *)
PushBreaks(h) ==
    /\ pc[h] = "wait"
    /\ Ends(h, "error")
    /\ UNCHANGED <<local, begun, daemon>>

(* git starts the helper for a fetch, which lists. *)
FetchBegins(h) ==
    /\ pc[h] = "idle" /\ begun < MaxRuns
    /\ begun' = begun + 1
    /\ \E wants \in SUBSET Targets(theirs) \ {{}} :
        job' = [job EXCEPT ![h] = [Idle EXCEPT !.id = begun', !.wants = wants, !.listing = theirs]]
    /\ pc' = [pc EXCEPT ![h] = "fetch"]
    /\ UNCHANGED <<local, daemon>>

(* fetch_batch: the haves are read from this working copy, the daemon      *)
(* sends what they lack.                                                   *)
RequestPack(h) ==
    /\ pc[h] = "fetch"
    /\ \E haves \in LocalPrerequisites(h) :
        job' = [job EXCEPT ![h].pack = History(job[h].wants) \ History(haves \cap stored)]
    /\ pc' = [pc EXCEPT ![h] = "install"]
    /\ UNCHANGED <<local, begun, daemon>>

(* The pack is installed, every wanted commit is looked up, and git points *)
(* references at them.                                                     *)
InstallPack(h) ==
    /\ pc[h] = "install"
    /\ objects' = [objects EXCEPT ![h] = @ \cup job[h].pack]
    /\ IF job[h].wants \subseteq objects'[h]
       THEN Ends(h, "ok") /\ tracked' = [tracked EXCEPT ![h] = @ \cup job[h].wants]
       ELSE Ends(h, "error") /\ UNCHANGED tracked
    /\ UNCHANGED <<work, begun, daemon>>

(* An exchange or a git process of an invocation fails before a push is    *)
(* sent: nothing has happened.                                             *)
StepFails(h) ==
    /\ pc[h] \in {"list", "resolve", "fetch", "install"}
    /\ Ends(h, "error")
    /\ UNCHANGED <<local, begun, daemon>>
-----------------------------------------------------------------------------
(* The daemon: a push is committed whole, over the values it expects, as   *)
(* fast-forwards unless forced, and only with all its history.             *)
Acceptable(p) ==
    /\ \A u \in p.updates :
        /\ theirs[u.name] = u.expected
        /\ u.new # None =>
            /\ u.force \/ u.expected = None \/ u.expected \in Ancestors[u.new]
            /\ Ancestors[u.new] \subseteq stored \cup p.pack

DaemonCommits(p) ==
    /\ Acceptable(p)
    /\ theirs' = [n \in Names |-> IF \E u \in p.updates : u.name = n
                                  THEN (CHOOSE u \in p.updates : u.name = n).new ELSE theirs[n]]
    /\ stored' = stored \cup p.pack
    /\ log' = Append(log, [id |-> p.id, batch |-> p.batch, updates |-> p.updates,
                           replaced |-> theirs])
    /\ answered' = answered \cup {[id |-> p.id, accepted |-> TRUE]}

(* Also one it could accept: a signer that is not available.  *)
DaemonRefuses(p) ==
    /\ answered' = answered \cup {[id |-> p.id, accepted |-> FALSE]}
    /\ UNCHANGED <<theirs, stored, log>>

DaemonHandles(p) ==
    /\ transit' = transit \ {p}
    /\ DaemonCommits(p) \/ DaemonRefuses(p)
    /\ UNCHANGED <<local, begun, pc, job>>

HelperStep(h) ==
    \/ PushBegins(h) \/ ListForPush(h) \/ Resolve(h) \/ DuplicateDestination(h)
    \/ CreatePack(h) \/ PackFails(h) \/ SendPush(h) \/ PushReturns(h) \/ PushBreaks(h)
    \/ FetchBegins(h) \/ RequestPack(h) \/ InstallPack(h) \/ StepFails(h)

Next ==
    \/ \E h \in Helpers : UserMoves(h) \/ HelperStep(h)
    \/ \E p \in transit : DaemonHandles(p)

Spec == Init /\ [][Next]_vars
-----------------------------------------------------------------------------

(* Every variable has its type. *)
TypeOK ==
    /\ work \in [Helpers -> Commit]
    /\ tracked \in [Helpers -> SUBSET Commit] /\ objects \in [Helpers -> SUBSET Commit]
    /\ begun \in 0..MaxRuns
    /\ pc \in [Helpers -> {"idle", "list", "resolve", "send", "wait", "fetch", "install"}]
    /\ \A h \in Helpers :
        /\ job[h].listing \in [Names -> Commit \cup {None}]
        /\ job[h].pack \subseteq Commit /\ job[h].wants \subseteq Commit
        /\ job[h].report \in {"none", "ok", "error"}
        /\ Cardinality(Resolved(h)) = Cardinality(job[h].updates)
        /\ Resolved(h) \subseteq {c.destination : c \in job[h].batch}
    /\ theirs \in [Names -> Commit \cup {None}] /\ stored \subseteq Commit

(* "ok" means that the daemon committed all of this very batch: not an     *)
(* earlier one of the working copy, and no update of another kind.         *)
OkMeansCommitted ==
    \A h \in Helpers :
        job[h].report = "ok" /\ job[h].batch # {} =>
            \E i \in DOMAIN log :
                /\ log[i].id = job[h].id
                /\ \A c \in job[h].batch : \E u \in log[i].updates :
                    u.name = c.destination /\ (u.new = None <=> c.deletes)

(* One invocation commits at most once, whatever becomes of its exchange.  *)
PushedOnce ==
    \A i, j \in DOMAIN log : log[i].id = log[j].id => i = j

(* A reference the user did not force is never moved off its history, also *)
(* not by a push handled long after its exchange broke, when other working *)
(* copies have pushed.                                                     *)
UnforcedKeepsHistory ==
    \A i \in DOMAIN log : \A c \in log[i].batch : \A u \in log[i].updates :
        /\ ~c.force /\ ~c.deletes /\ u.name = c.destination
        /\ log[i].replaced[u.name] # None
        => log[i].replaced[u.name] \in Ancestors[u.new]

(* The pack of a push, with what the daemon stores, has the whole history  *)
(* of every new value, although the user's branch and the namespace moved  *)
(* while it was made.                                                      *)
PacksSuffice ==
    \A p \in transit : \A u \in p.updates :
        u.new # None => Ancestors[u.new] \subseteq stored \cup p.pack

(* After a fetch that succeeded nothing is missing in the working copy:    *)
(* has_object looks up the wanted commits only, their history depends on   *)
(* the prerequisites that were sent.                                       *)
FetchedClosed ==
    \A h \in Helpers : Reachable(h) \subseteq objects[h]

(* A batch of valid updates, creations, fast-forwards and forced ones, is  *)
(* not turned away for the lack of a pack (local-git-integration.md).      *)
ValidUpdate(u) ==
    u.force \/ u.new = None \/ u.expected = None \/ u.expected \in Ancestors[u.new]

ValidPushIsSent ==
    \A h \in Helpers :
        /\ AllResolved(h) /\ Includes(h) # {}
        /\ \A u \in job[h].updates : ValidUpdate(u)
        => \A exclude \in Excludes(h) : PackPossible(h, exclude)
=============================================================================
