# Verification of styrene-git

TLA+ models of the parts of `styrene-git` that carry its own logic: the
publisher store and its git processes, the governance of a repository's
identity, replication between operators with the canonical default branch, the
Git remote helper with its IPC client, and the pipes to git. TLC checks them on
small instances; TLAPS proves their invariants, their action properties and the
refinements for every instance.

    tlc -workers 2 -config StoreForks.cfg MCPublisherStore
    tlapm PublisherStoreProofs.tla

Paths below are relative to `crates/`; `changes/` stands for
`openspec/changes/bootstrap-self-certifying-repositories/`.

## Inventory

### The system

A repository is identified by the digest of its first identity document
(delegates, threshold, default branch). Each publisher has a namespace of Git
references in it. A publisher signs *reference transitions*: a transition names
its parent transition, a sequence number and the publisher's complete
reference map. Bare repositories store the namespaces; operators exchange
*transfers* (a transition, its binding and a pack) over a carrier that belongs
to `styrened`; a *canonical head* is derived from what a threshold of delegates
published. A user reaches the system through `git-remote-styrene`, which talks
to the daemon over a typed local IPC.

| Component | Source | State it keeps | Operations |
| --- | --- | --- | --- |
| repository store | `styrene-git-store/src/{lib,git}.rs` | objects; `refs/styrene/publishers/*/state`, `*/transitions/*`; `refs/namespaces/*`; quarantines | create, open, begin_quarantine, receive into a quarantine, commit, read state and refs, is_ancestor, create_pack |
| signed reference transitions | `styrene-git-core/src/refs.rs` | none (values) | sign, verify, transition id |
| repository identity | `styrene-git-core/src/identity.rs` | none (values) | document, repository id, signer binding and selection, identity transitions and approvals |
| canonical head | `styrene-git-core/src/canonical.rs` | none (a function) | derive_canonical_head |
| codec, types | `styrene-git-core/src/{codec,types,error}.rs` | none | canonical encoding, digests, identifiers |
| replication protocol | `styrene-git-protocol/src/lib.rs` | none beside the store | export_transfer, apply_transfer, Transfer validation |
| functional operator | `styrene-git-functional/src/operator.rs` | repository context: document, selections, canonical head, store | initialize, publish commit, publish target, apply, state, stop |
| scenario, wire | `styrene-git-functional/src/{scenario,wire,main}.rs` | the script of one end-to-end run | requests over a Unix socket |
| IPC contract | `styrene-git-ipc/src/lib.rs` | none (messages) | request and response types |
| IPC client | `styrene-git-remote/src/client.rs` | next request id, negotiated capabilities, failed flag | negotiate, list, fetch, push, synchronise, operations |
| remote helper | `styrene-git-remote/src/{operations,command_loop,git,lib}.rs` | one command batch of one process | list, list for-push, fetch batch, push batch |
| daemon, carrier | not in this repository | accepted state, signing keys, delivery | external to every model |
| parity, infra, scripts | `parity/`, `infra/`, `scripts/` | none | inventories, packaging, lab scripts |

### How they interact

- The helper calls the daemon through the client: one request in flight, one
  answer. The daemon is a transport trait here.
- The daemon (here the functional operator) calls `Repository::commit`, which
  checks objects in a quarantine, hard-links them into the store and gives a
  reference transaction to `git update-ref --stdin`, a process of its own.
- Operators meet only in transfers, which may be lost, repeated and reordered.
- Callers of one repository share nothing but files: no lock of the store's
  orders them.

### What is hard

- *Concurrency*: callers of `commit` interleave at every file operation, and
  with git processes that hold reference locks and outlive their caller. Working
  copies of one identity push at once. The user commits while the helper runs.
- *Failure*: reads that fail are taken for absence (`resolve_ref`); promotion
  stops halfway; git is killed between two renames; a caller dies while its git
  process goes on; an exchange breaks before or after the daemon commits.
- *Ordering*: transfers before their parents or their objects; answers to
  earlier requests; state requests between publications.
- *Restart*: the canonical head lives in the process.
- *Pipes*: the caller writes all of git's input before it reads; git may die, or
  write more than a pipe or a limit holds, at any moment.
- *Governance*: transitions are collected signatures that travel as files:
  approvals are merged, repeated, relabelled, collected for a state that is no
  longer current, or made with a key that was replaced.
- *Limits*: sequences at `u64::MAX`, request ids at `u128::MAX`, at most
  `max_haves` prerequisites.

### What makes each component correct

| Component | Properties |
| --- | --- |
| store | accepted state only moves to a signed child; no fork; nothing dangles; namespaces say what the state says; history is kept; a successful answer is true and given once as *applied*; every call returns; all of it implements atomic commits |
| replication | a replica is always on its publisher's history; exported transfers arrive; redelivery is recognised |
| canonical head | has a quorum, is stored, never moves back |
| IPC client | an accepted answer is the request's own; an error that is not "indeterminate" means not committed; ids are fresh; no request is overtaken by a later one of its session |
| remote helper | "ok" means committed; one invocation commits at most once; unforced updates keep history; packs and fetches are complete; a valid push is sent |
| identity | every accepted state was signed by a threshold of the prior state's delegates, once each, for its own payload; a fork has signers in common; a verifier stays on one line |
| git pipes | a call to git returns, what it returns is git's whole output, and no git is left running |

`PROJECT.json` lists every hazard at its line with the properties aimed at it.

## Modules

| Module | Models | Uses |
| --- | --- | --- |
| `SignedHistory` | transitions as values, `verify`, lineage, the object graph | |
| `AcceptedHistory` | abstract specification of the store: atomic commits | `SignedHistory` |
| `PublisherStore` | `Repository::commit` and its git processes | `SignedHistory`, refines `AcceptedHistory` |
| `SignedHistoryProofs` | lemmas about lineages, reference maps and the object graph | cited by the proofs of the store and of replication |
| `PublisherStoreProofs`, `StoreHistoryProofs` | theorems about `PublisherStore`: references and objects; history and refinement | |
| `Canonical` | `derive_canonical_head`, `is_ancestor` | `SignedHistory` |
| `Replication` | operators, transfers, canonical heads, restarts | `Canonical`; each operator's store refines `AcceptedHistory` |
| `ReplicationProofs` | theorems about `Replication` and `Canonical` | |
| `IpcClient` | one session of `GitIpcClient` | |
| `IpcClientProofs` | theorems about `IpcClient` | |
| `RemoteHelper` | helper invocations in several working copies, the daemon | takes from `IpcClient` that an exchange is answered, refused or broken |
| `RemoteHelperProofs` | theorems about `RemoteHelper` | |
| `IdentityHistory` | identity documents, proposals, approvals, and verifiers that accept them | |
| `IdentityHistoryProofs` | theorems about `IdentityHistory` | |
| `GitProcess` | one call of git with its pipes, in the three ways the code makes it | `PublisherStore` and `RemoteHelper` take from it that a call succeeds, fails or breaks |
| `GitProcessProofs` | theorems about `GitProcess` | |
| `MCPublisherStore`, `MCReplication`, `MCIpcClient`, `MCRemoteHelper`, `MCIdentityHistory`, `MCGitProcess` | instances for TLC | |

### SignedHistory and AcceptedHistory

A transition is an element of `Transition`; `Payload[t]` has the fields `verify`
compares. The id of a transition is the element itself: digests are injective,
and signatures are the key they verify under. `Links` is the object graph.
`AcceptedHistory` promises what callers rely on: `Receive` objects, `Accept` a
verified child whose graph is stored, perhaps with the objects its caller brought,
`Report` a transition as applied once. It has two implementations:
`PublisherStore`, where one commit takes many steps of callers and git, and
`Replication`, where each operator's store is an instance of it (`Store(o)`). So the
one step that `Replication` takes for a commit is what the store is proved to give.

### PublisherStore

State and code: `odb` is `path/objects`; `stateRef`, `transRef`, `nsRef` are the
three families of references; `pc`, `call`, `prev`, `outcome` are a caller's
stack; `txn` is its `git update-ref` process and `staleLocks` the `.lock` files
of killed ones. `applied` is a history variable.

| Action | Code |
| --- | --- |
| `Begin`, `RefuseCall` | begin_quarantine and the checks at the top of `commit` |
| `ReadState` | `publisher_state` with `verify`; `ReadsState` is `resolve_ref`, where a failing `show-ref` reads as absent; a blob that cannot be read is an error |
| `VerifyTargets` | `Quarantine::verify_targets` against quarantine and store; git may also fail here |
| `PromoteObject`, `PromoteFails`, `PromoteDone` | `promote_objects`, one file at a time |
| `SubmitUpdate` | `update_publisher_refs` writes the commands to git |
| `PrepareRefs`, `PrepareFails`, `RenameRef`, `Reap`, `KillGit` | git: lock all and compare, give up, rename one reference at a time, exit, die |
| `UpdateSucceeded`, `UpdateErred`, `RereadState` | the result of git, and the second look at the state |
| `Crash` | the calling process dies; its git process stays |

The git actions are external: git's documented behaviour of one transaction
(all locks, then all comparisons, then the renames).

### Canonical and Replication

`Canonical` is operators only. `Replication` has one action per operator request:
`Initialize`, `PublishCommit`, `PublishTarget`, `Apply`, `QueryState`, and
`Restart`. `transfers` is everything ever exported; a carrier may deliver any of
it at any time and again. With fault `"lost"` a commit is not followed by its
export. `announced` remembers the last head an operator answered with.

### IpcClient

One record per session: `nextId`, `caps`, `failed` are the client's fields,
`inflight` is the request `send` waits for. `answers` are all responses the
daemon ever gave; `Exchange` may hand over any of them or break, so answers are
late, repeated and crossed. The daemon may handle a request long after its call
failed. Bodies are reduced to kind, repository, subject and bounded amounts. The
size check applies to the encoded request and costs an id, as in the code.

### RemoteHelper

Each working copy has a branch (`work`), what it fetched (`tracked`) and its
`objects`; `job` is what one helper process holds. A push goes through
`PushBegins`, `ListForPush`, `Resolve` per command, `CreatePack` or `PackFails`,
`SendPush`, then `PushReturns` or `PushBreaks`. A fetch goes through
`FetchBegins`, `RequestPack`, `InstallPack`. `UserMoves` may happen at any time.
The daemon is external: it commits a push whole if every expected value holds,
unforced updates are fast-forwards and the history is complete.

### IdentityHistory

`state[v]` is the `IdentityState` a verifier has accepted; several verifiers stand
for operators, carriers and clones. `draft[c]` is a transition in circulation.
`Propose`, `Approve` and `Accept` are `IdentityTransition::proposed`, `approve` and
`verify`; `Rekey` issues a binding for the next epoch, and `Select` is a verifier
that takes the binding in use for its `SignerSelection`. `Accept` is given what
`Arriving` makes of a copy: its own bytes, or the same payload with the approvals
of another copy, with one approval twice, or with one under another identity or
epoch. A transition stands for its own digest, which covers payload and
approvals, so that the parent of a payload is the whole transition. An approval
keeps the key it was made with. `approvals` is a set, so the order that `verify`
also demands is not in the model; repetitions are. `accepted` and `signed` (who
really approved which payload) are history variables.

The constant `KeyOf` says which key is bound to an identity for an epoch; as in
`SignerBinding::issue`, that may be any. The signature of an approval covers the
payload only, so an approval by a key that two identities share passes as either's.
`GovernedByPrior` and `RivalsShareSigners` are therefore about identities with keys
of their own (`KeysOwn`, which the instance satisfies and the theorems assume; one
identity may keep its key from epoch to epoch). Without it they fail: with two
delegates on one key TLC finds, in three steps, a proposal that one of them
approves and that is accepted with the approval repeated under the other's name,
as the two that the policy asks for. `repository-identity.md:94-97` promises that such relabelling fails;
a signing frame that names signer and epoch is an open task (`tasks.md:94`).

### GitProcess

One call, with its sizes chosen at the beginning; bytes are counted. `call.mode`
is `bounded` (`run_bounded` of the store), `execute` (the store's other calls) or `run`
(`GitCommand::run` of the helper). `Reading` says which streams the caller reads at
once, `Limited` and `LimitOf` which limits apply, `EndRead` what happens at the end of
a stream or beyond its limit. git is external: it reads, writes up to `early` bytes
before its input ends and the rest after, exits, or dies; a closed pipe kills it.
It may also find something wrong and be `leaving`: its input is closed and it
writes nothing more, but its process is still there until `GitLeft`. `InputBroken`
is the broken pipe that the caller sees once git has gone or is leaving: the
helper kills and waits, the store returns at once and nobody waits for the child,
so `NoGitLeft` excepts that one call, and only from a git that is leaving.
`CallReturns` says that it goes as well. A git that closes its input early and
still goes on to succeed is not modelled: the commands that are given input read
it to its end. Nor is a read error on a pipe, which ends the call with an error,
nor the moment between letting go of a pipe and killing git, which are one step.

## Runs

| Run | Question |
| --- | --- |
| `StoreForks` | three callers; rival roots, rival children, a grandchild with the last sequence and one after it that starts over; a forged transition, a commit for another publisher, an incomplete quarantine; failing reads: types, closure, namespaces, no fork, retained lineage, truthful answers, signed namespaces, and refinement of `AcceptedHistory` |
| `StoreFaults` | two callers with failing reads, failing promotions, lost exits, crashes and git processes that die holding locks: history is retained, answers are true, nothing is reported as applied twice, every call returns (that namespaces and states stay right under faults is proved) |
| `StoreDuplicate` | *violation*: a duplicate delivery that loses the lock is told an error |
| `ReplicationTwo` | two operators, three commits, three transitions each, lost exports: replicas follow, canonical heads have a quorum, are stored, move forward |
| `ReplicationRestart` | restarts, and a publisher that is no delegate: each operator's store refines `AcceptedHistory` and keeps what it accepted, heads have a quorum, and an exported transfer reaches every operator |
| `ReplicationRedelivery` | *violation*: a redelivered transfer of a superseded transition is reported as a lineage error or as missing its parent |
| `ReplicationRewinds` | *violation*: after a restart the canonical head is gone or moves back |
| `IpcSession` | negotiation and requests of every kind, with ids that run out: answers are the request's own, definite errors mean not committed, requests are handled one at a time |
| `HelperTwo` | two working copies push and fetch every kind of batch while users commit |
| `HelperUnpacked` | *violation*: a valid push fails since the listing names commits that are not local |
| `IdentityGoverned` | two verifiers, three identities, two copies, a second key, relabelled approvals: accepted transitions are signed by the prior delegates, forks share signers, each verifier is on one line |
| `GitPipes` | 432 calls in all three ways: results are true and whole, no git is left at work, calls return |

### Bounds

- Store: two callers race for one transaction, the third sees the loser's state;
  two siblings and their successors are the smallest history with a fork at the
  root, a fork later, a deletion and a moved name. The quarantine of one child
  holds a commit without its parent, so it is complete only once its rival has
  promoted that parent. `MaxSequence = 2` makes the last transition meet
  `u64::MAX`, and one more is signed on it with sequence 0: `StateMovesToChild`
  says in numbers that sequences grow by one, and a `verify` that wraps breaks it. Faults are not counted: they may happen at any step, any number of
  times.
- Replication: `MaxSequence` 1 or 2 bounds histories to two or three transitions
  per publisher, enough for a transfer that arrives before its parent and for a
  head that goes forward, sideways and back. Three objects are a root, a child
  and a commit beside them.
- `StoreFaults` has one reference name and two callers, with a root and the child
  that deletes what the root lists: every fault can meet every step of both.
- Identity: two copies are enough for rivals after one state and for a history of
  two steps, and for approvals that move between copies. The founding policy is
  two of three; the documents proposed keep it, drop a delegate, leave one
  alone, or list one twice. `MaxSequence = 2` is above what two copies reach, so
  exhaustion is left to the theorem `IdentityTypeCorrect`.
- Pipes: a pipe holds one unit and the limits are two and one, so that amounts up
  to four are below, at and above each; capacity and limits are independent in
  the code as well (16 KiB of errors, a pack of any size, pipes of 64 KiB).
- IPC: ids run from `InitialId` to `MaxId`, four requests in all, so that an
  answer can be late by several requests and the ids run out. Amounts are 1, the
  bootstrap limit, or 2, above it.
- Helper: `MaxRuns` is the number of invocations in all working copies together:
  two are enough for one that pushes what another changed, fetched or left
  unfinished. `HelperTwo` has three commits in a line, so that a push can be stale
  by one or two and a reset can go back; `HelperUnpacked` has a root, two branches
  and a commit on top of one. `MaxHaves = 2` truncates the lists of three.

Symmetry is used only over callers and working copies, in runs of safety
properties.

### Fairness

- `StoreFaults`: weak fairness of `CommitStep(c)` and `GitStep(c)`: a running
  thread and a running process are scheduled. `Begin`, the faults and the death
  of processes are not fair. git gives up on a held lock after a timeout, so
  `PrepareFails` is enabled as long as a lock is held.
- `ReplicationRestart`: weak fairness of `Initialize(o)` and of the delivery of
  each transition to each operator, and restarts that come to an end (a process
  that restarts for ever serves nobody). Delivery is the carrier's promise and
  not this code's; the run says what the code makes of it: transfers that are
  turned away succeed when offered again.
- `GitPipes`: weak fairness of git's reads, writes and exit and of every thread of
  the caller; git need not die or leave, but a git that is leaving goes. `CallReturns` is asked of calls that are `Tame`:
  what git writes before its input ends fits a pipe, and so do the errors of a
  bounded call. The code relies on that: its inputs are read whole before git
  answers, and `pack-objects` stops at its first error. Without it caller and git
  do wait for each other for ever.

## What is proved

### The store

`PublisherStoreProofs` and `StoreHistoryProofs`, for every value of the constants (any publishers,
callers, calls, histories, object graphs and faults), from the assumptions of
`SignedHistory` and `PublisherStore` on their constants (payloads are typed, calls are
made of transitions and objects, the selection of a publisher is its own):

| Theorem | Statement |
| --- | --- |
| `TypeCorrect` | `Spec => []TypeOK` |
| `StateOnlyMovesToChild` | `Spec => StateMovesToChild` |
| `NothingDangles` | `Spec => []AcceptedClosure` |
| `OwnerSignedNamespace` | `Spec => []NamespaceSigned` |
| `NamespaceAgrees` | `Spec => []NamespaceMatchesState` |
| `HistoryNeverForks` | `Spec => []NoFork` |
| `HistoryIsKept` | `Spec => []LineageRetained` |
| `SuccessIsTrue` | `Spec => []SuccessIsAccepted` |
| `AppliedAtMostOnce` | `Spec => AppliedOnce` |
| `StoreImplementsHistory` | `Spec => CommitsAtomically`, which is `AcceptedHistory!Spec` with state references as heads |

The argument. None of the safety properties is inductive: they hold since a
transaction compares old values and the state it was verified against is among
them. `CommitInv` says that, of every caller (`CallerInv`: from verification on,
its transition extends the state it read, and from the update on its objects are
stored), of every git process (`TxnInv`: the same of what it was given), that a
name is locked by one transaction (`LocksExclusive`), and that a transaction
that holds the state lock and has not renamed it finds the state it expects
(`StateHeld`). `NamespaceInv` adds the same for namespace references, renamed or
not (`RefHeld`). Each proof has one step per action.

The five theorems about history need more, since a transition reference is
created by another rename than the state reference and may come first. `Recorded`
says that a recorded transition is accepted or `Ahead`: the next after the
accepted one, with the state lock held by the transaction that recorded it, or
for ever by one that died. So a rival that could be recorded on the same parent
meets the lock, or the state has moved and it no longer extends it; that is
`NoFork`. `LineageOrdered` gives each member of a lineage its own sequence number,
which keeps a new state from being its own ancestor. `OneWinner` says that of the
transactions of one transition one at most gets past its comparisons, and none
once the transition was reported; `Awaiting` ties a caller to its transaction. In
the refinement the rename of a state reference is `Accept`, a promoted object
`Receive`, and an `applied` answer `Report`; every other step stutters.

### The governance

`IdentityHistoryProofs`, for any finite set of identities, any documents, number of
keys, verifiers, copies and length of history, from the assumptions that
documents are typed and the founding one validates:

| Theorem | Statement |
| --- | --- |
| `IdentityTypeCorrect` | `Spec => []TypeOK`; at `MaxSequence` nothing verifies |
| `PriorPolicyGoverns` | `Spec => []GovernedByPrior`, if `KeysOwn` |
| `HistoryIsOneLine` | `Spec => []OneLine` |
| `ForkIsAttributable` | `Spec => []RivalsShareSigners`, if `KeysOwn` |

`IInv` adds the documents of copies and states (`Documents`). `ApprovalsMade` says
that each approval in circulation was made with a key of somebody who approved
the payload it is over, whatever its labels say. A counted approval is genuine:
its key is the one selected for its identity, which with `KeysOwn` is that of
nobody else, so the identity approved the payload. No two counted approvals have
one identity, so they map one-to-one into the signers (`VerifiedIsSigned`); the policy over a
transition is the document of the state it verified after (`PolicyOfPrior`). The
overlap of two thresholds is arithmetic of cardinalities (`ThresholdsOverlap`).

### Replication

`ReplicationProofs`, for any operators, commits, transitions, thresholds, faults and any
order, loss and repetition of transfers; of the delegates it needs that they are
finitely many, as in a document:

| Theorem | Statement |
| --- | --- |
| `ReplicationTypeCorrect` | `Spec => []TypeOK` |
| `ReplicasStayBehind` | `Spec => []ReplicaFollowsPublisher` |
| `CanonicalIsSigned` | `Spec => []CanonicalHasQuorum` |
| `CanonicalIsComplete` | `Spec => []CanonicalStored` |
| `AnswersNeverRewind` | `Spec => CanonicalNeverRewinds`, if `Faults` has no restart |
| `StoresCommitAtomically` | `Spec => CommitsAtomically` |
| `OperatorImplementsHistory` | `Spec => Store(o)!Spec` for any operator `o` |

`ReplicationInv` adds to the properties that what was accepted is stored
(`StoresClosed`), that a transfer carries what its sender has committed
(`TransfersCommitted`), and that there is no head without a context
(`ContextOnly`). `Ancestry` is a recursive function, and the prover has no
induction; `AncestryUnfolds` gets its equation by showing that the lineages, which
are defined without recursion, solve it. Every step is one of three kinds
(`StepKinds`): an operator accepts a child and what it needs, a context changes, or a
head is derived; the first kind is an atomic commit. `QualifyingBacked` counts: the
delegates `derive_canonical_head` counts for a head are among those who signed
it. `AnswersNeverRewind` excludes restarts by hypothesis, and must: the run
`ReplicationRewinds` is the counterexample with them.

### The IPC session

`IpcClientProofs`, for any request bodies, capability sets and range of ids:

| Theorem | Statement |
| --- | --- |
| `SessionTypeCorrect` | `Spec => []TypeOK` |
| `AnswersAreOwn` | `Spec => []AnswerIsOwn` |
| `DefiniteFailuresAreFinal` | `Spec => []DefiniteFailureNotCommitted` |
| `IdsAreFresh` | `Spec => []FreshIds` |
| `RequestsAreSequential` | `Spec => []OneAtATime` |

`SessionInv`: ids increase along the wire up to the last (`IdsIncrease`), a call
waits for the last request (`WaitsForLast`), and only the last may be unhandled,
while its call waits or once the session failed (`RestHandled`). That a failed session
sends nothing is what makes the last two inductive: the late answer to a broken
exchange is then never read.

### The remote helper

`RemoteHelperProofs`, for any working copies, names, commits with a transitive history,
finite batches and number of invocations:

| Theorem | Statement |
| --- | --- |
| `HelperTypeCorrect` | `Spec => []TypeOK` |
| `OkIsTrue` | `Spec => []OkMeansCommitted` |
| `PushesHappenOnce` | `Spec => []PushedOnce` |
| `UnforcedIsFastForward` | `Spec => []UnforcedKeepsHistory` |
| `PacksAreSufficient` | `Spec => []PacksSuffice` |
| `FetchesAreComplete` | `Spec => []FetchedClosed` |

`HelperInv` has four parts. The id of an invocation is its own, and a push is at
one place at a time: with its helper, in transit, or in the log (`IdsOwned`,
`IdsKept`). Updates are what the commands ask, one for each name (`UpdatesAsked`,
`PushesAnswer`): the helper refuses a name it has resolved before and goes on until
it has as many updates as commands, so by counting each command has its own.
What the daemon lists it stores whole, now and later, so a pack without it is
sufficient (`PushesComplete`). What a helper installs completes what it wanted
(`FetchesComplete`).

### Calls of git

`GitProcessProofs`, for any calls, capacity and limits: `PipesBounded`, `ResultsAreTrue`
and `NoGitOutlives` (`Spec => []` of `TypeOK`, `ResultTellsOutcome`, `NoGitLeft`). `IInv`
says that success is the last thing git does (`Ends`), why a stream is closed
(`Closes`), and how a result came about (`Returns`).

### Before the proofs

Every inductive invariant was first checked by TLC as an invariant of a run:
`NamespaceInv` and `HistoryInv` with `StoreForks` and `StoreFaults`, `ReplicationInv` with
`ReplicationTwo` and `ReplicationRestart`, `SessionInv` with `IpcSession`, `HelperInv` with
`HelperTwo`, and both `IInv` with their runs. The proofs use these assumptions on the
constants, each beside its constants and evaluated by TLC in every run:

| Assumption | Why the code has it |
| --- | --- |
| absent values differ from all others (`None`) | `Option` |
| payloads, bodies, grants and batches have their fields' types | they are structures that were decoded |
| `Links`, `Ancestors` are functions on objects, histories are transitive | git's object graph |
| the selection of a publisher is its own | `verify` compares the identity |
| a batch is finite and not empty | `command_loop` reads it from a first command to an empty line |
| delegates are finitely many, the threshold is one to their number | `IdentityDocument::validate` |
| `MaxSequence`, `MaxId`, `MaxRuns` are natural numbers | bounds, of any size |

`KeysOwn` is no assumption of a module but the hypothesis of the two theorems that
need it, and not something the code enforces.

## Only model-checked

- Liveness (`CallsReturn`, `TransfersArrive`, `CallReturns`) and everything with
  fairness or `ENABLED`: beyond the prover. Every other property of the passing
  runs is proved.
- That a transfer whose predecessor was never exported does not arrive: with lost
  exports `TransfersArrive` fails, as it must, since no request repeats an export;
  `ReplicationRestart` therefore loses none, and `ReplicationTwo`, which does, has
  safety properties only.
- That the four documented promises below do not hold: a counterexample is TLC's.

## What the runs found

Four runs end in a counterexample to what the repository's documents say:

- `StoreDuplicate`: `changes/specs/replication-contract.md:62`; the re-read after
  a failed `update-ref` can come before the winner's rename.
- `ReplicationRedelivery`: `replication-contract.md:56-60`; `apply_transfer` knows only
  the current transition as already present. TLC's trace is a publisher that
  advanced and is handed its own first transfer: it has no parent to miss, so it
  ends in the lineage error of `verify`; a later transition is reported as missing
  its parent. `repository-state.md:41-45` wants a superseded state rejected as
  stale when it is presented as a new update; the code tells neither apart. In all
  cases the state stays as it is.
- `ReplicationRewinds`: `repository-state.md:142`; the canonical head is not kept
  over a restart.
- `HelperUnpacked`: `local-git-integration.md:105`; `create_push_pack` excludes
  commits that the working copy does not have, and `pack-objects` dies of them.

## Not modelled

- Encodings, digests and signatures: values and their injectivity stand for them.
- Creation and opening of repositories, the names of quarantine directories, and
  power loss: they need a model of what the file system keeps, and no property
  here depends on a repository that is not open yet.
- The distribution of identity transitions: nothing in the repository does it.
- URL and command-line parsing, limits other than `max_haves` and the client's:
  pure functions of one input, covered by the tests.
- The daemon, the carrier and git itself: external, modelled as far as the code
  relies on them. git's garbage collection is not modelled.
- The scenario script, the Unix-socket wire format, `parity/`, `infra/`,
  `scripts/`: no state of the system.

## Plan

Done, in this order: the store (most of the concurrency), its theorems,
replication and canonical heads, the IPC client, the remote helper, the
governance and its theorems, the calls of git and their theorems, the history of
the store and its refinement, the theorems of the client, replication and helper.

Next:

1. Theorems that combine the parts: that a replica's namespace says what its
   publisher signed, from `ReplicasStayBehind` and `OperatorImplementsHistory`.
2. Assumptions that can be weakened, and promises in their repaired form: for a
   redelivered transition, that it is on the lineage and changes nothing.
3. `RepositoryCreation`: create and open racing on one path, with crashes.
4. Durability: what is left of objects and references after a power loss.
