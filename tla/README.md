# Verification of kompjutr

kompjutr is a Git engine, a file system and a shell that keep all their state in
SQLite. It runs inside a Durable Object or, locally, on Node with a crash-safe
disk drive. This directory holds TLA+ models of the parts whose correctness
depends on interleavings, retries and restarts, TLC instances of them, and TLAPS
proofs of the properties that matter most.

## The system

Paths are under `src/packages/`.

| Part | Where | State it owns |
| --- | --- | --- |
| Object store | `git/src/store/objects` | loose rows, promises, tree projections |
| Pack store | `git/src/store/pack` | packs (pending, complete), entries, ingest lease |
| Refs | `git/src/store/refs` | refs, reflogs, shallow boundaries |
| Indexes and checkouts | `git/src/do-fs`, `git/src/ops/{status,staging,checkout}` | index rows, tracker, heads |
| Operation journals | `git/src/store/operations`, `git/src/ops/{merge,replay,rebase}` | merge, replay and rebase state |
| Fetch publication | `git/src/store/fetch` | revisions and generations compared across awaits |
| Transfers | `git/src/store/transfer` | leases with roots |
| Maintenance | `git/src/store/maintenance` | runs, marks, candidates |
| Repository registry | `git/src/store/database` | repositories, checkouts, provisional clones |
| Network | `git/src/ops/network`, `git/src/ops/push`, `git/src/protocol` | none durable, drives the stores |
| Durable Object file system | `do/src/fs` | nodes, names, chunks, revisions |
| Shell | `do/src/shell` | a session |
| Local runtime | `local/src` | recovery journal, disk files |

Every local mutation is one synchronous SQLite transaction. What can interleave
are whole transactions: calls of different clients, the slices of a resumable
maintenance run, and the transactions on either side of an `await` of a network
or pack operation. The local runtime adds crashes between single host calls.

`PROJECT.json` lists every part with its sources, the hazards at their lines, the
runs, the map from definitions to source lines, the theorems and the findings.

## Modules

| Module | Models |
| --- | --- |
| `Keyset`, `Maintenance` | `ORDER BY key LIMIT n` pages; resumable garbage collection and every foreground transaction it interleaves with |
| `FetchPublication` | fetch, push and tracking-ref publications of one repository |
| `Registry`, `Clone` | the rows of repositories and checkouts with the stores kept in memory; clones into provisional repositories |
| `PackIngest` | storing a received pack: lease, pages, deferred deltas |
| `Connectivity` | the object graph of a fetch: index, drain, publication, shallow boundary |
| `DiskRecovery` | the local runtime's transactions over SQLite and disk files, with crashes |
| `Workspace`, `Checkout` | one checkout: index, tracker, staging, commit, clean; moving it to another tree |
| `Integration`, `Operations` | three-way integration; merge, cherry-pick, revert and rebase with their journal |
| `FileTree`, `FileSystem` | an abstract tree of names; the tables that implement it |
| `Paging`, `ReadBatches`, `Mounts` | paged scans, bulk reads under a budget, path resolution and mounted views |
| `MCMaintenance`, `MCFetchPublication`, `MCRepository`, `MCDiskRecovery`, `MCWorkspace`, `MCHost` | TLC instances |
| `FetchInvariants`, `CloneInvariants` | the inductive invariants of `FetchPublication` and of `Registry` with `Clone` |
| `MaintenanceTypeProofs`, `MaintenanceMarkProofs`, `MaintenanceProofs` | proofs about `Maintenance` |
| `FetchFenceProofs`, `FetchPublicationProofs` | proofs about `FetchPublication` |
| `CloneMemoryProofs`, `CloneRegistryProofs`, `CloneProofs` | proofs about `Registry` and `Clone`; the last one also about `PackIngest` |

Some definitions are preceded by a changed form of themselves under a longer
name (`TooDeep`, `TooDeepByOne`). No specification uses the changed form: it is
there to show which property notices the change (`mutants` in `PROJECT.json`).

### Maintenance

A maintenance call is one transaction: `Maintain` first cleans up one transfer
(`CleanedTransfers`, `CleanedEpoch`) and then takes one slice of the run
(`AdvanceMaintenance`). The run is the record `run` with its phase, root source,
cursor, the root epoch and source generation it has observed, its start time and
its counters; `marked`, `expanded`, `boundary` and `edgeCursor` are the columns
of `git_maintenance_objects`; `looseSince` and `packSince` are the candidate
tables. Foreground transactions are the disjuncts of `Foreground`.

Objects are numbers because pages go in OID order; what an object names is part
of its content and therefore a constant (`Children`). Root rows are ordered by
the object they name. A root page has `PAGE_ROWS` rows and a mark call expands
one page of one object: the code does several of these under a budget in one
call, so the model has more interleavings than the code. A reflog keeps the
newest time at which it names an object. What the callers of a transaction see to
is a guard of its action: `MutateRefs` puts refs only on objects that can be read,
`UpdateShallow` makes only stored commits boundaries and releases one only when
its parents are stored. A transfer has one root. Tags are not
distinguished from commits without children. Totals of reclaimed bytes are left
out.

### FetchPublication

`refs`, `heads`, `shallow` and their revisions, `namespaces` (a row with
generation 0 is absent) and `trackingRevisions` are the tables. `issued` is the
history of `fetch_generation`: its length is the counter. A call is at `pc[o]`
between two awaits and holds `request`, `adv` (the advertisement), `token` (the
issued snapshot) and `plan` (leases, or what the transfer brought, or what the
server confirmed). `since` is history: what others wrote since the token was
issued.

A fetch is `Ask`, `Advertise`, `BeginFetch` (or `BeginClobbering`, which keeps
its fence although it throws), `Transfer`, `PublishFetch`. A push is `Ask` with
its leases, `Advertise`, `BeginPush`, `RemoteReceives`, `ReconcilePush`, or
`NoopPush`, which has no await between its token and its publication. Any call
may fail at any await (`Abort`), also after the remote has applied a push. The
remote is outside of the program: it moves by itself (`RemoteMoves`) and applies
any subset of the commands whose old value still holds.

A head of the remote is named by the tracking name it lowers to. Which boundary
and which followed tags a transfer brings is chosen freely among what the request
allows; whether the received objects are connected is `Connectivity`'s matter.
Pushes of tags or to a bare URL touch no tracking ref and are left out, and so are
explicit leases (`Ask` takes the leases of the tracking refs, `snapshotPushLeases`)
and the refusals of malformed arguments.

### Registry and Clone

`repositories` and `checkouts` are the two tables, `sequence` their AUTOINCREMENT
counters. `memory` is what a database object keeps: `shared` (a repository's
store), `stores` (a checkout's store), `provisional` (the facade of a clone),
`identities` (the generation of a row that was handed out) and `live`, the
facades that were not revoked. `held` is a row that some caller keeps. `calls`
are the clones under way with the lease each believes in, `abandoned` is history:
the provisional repositories whose call crashed or failed to clean up.

A clone reserves its repository or takes over one whose lease ran out
(`BeginClone`), goes through its steps, each of which renews the lease when half
of it is gone (`CloneStep`), and publishes or discards. A call that fails in
between ends in `CloneFails`, `PublishFails` or `DiscardFails`; a restart forgets
memory and calls. A refused call changes no table. What a clone transfers is the
mark `content`. The failure of a transaction that encloses a registry call is
not modelled.

### PackIngest and Connectivity

`PackIngest` has the ingest control row, the packs with their entries and pending
deltas, and the calls. Offsets are ordinals, the byte budgets of the drain
(which bases are admitted, which results are retained) are free choices, and
`IngestFails` stands for every error of the stream, checksums included.

`Connectivity` has the stored objects, promises, the shallow boundary, the heads
and one fetch in flight. The code indexes, drains and publishes a pack without an
await in between; the gap that remains is between the pack and the refs. A fetch
receives at most two packs, an unshallowed commit's parents come in its pack, a
filtered fetch promises the blobs its pack names and lacks, `HydrateBlob` brings
one of them later, and maintenance sweeps what was unreachable for a grace (`aged`). The grace is
assumed longer than a fetch in the passing run (`Sequential`); `fetch_closed` is
about the case where it is not.

### DiskRecovery

`disk` is the tree below the workspace root, `rows` the tree that the committed
SQLite rows describe, `gen` the durable generation. `dirs` are the transaction
directories `.kompjutr/recovery/<id>` with their journal, probes, temporaries and
backups; `strays` are files outside of them. `txn` is the open transaction with
its savepoint, `op` the disk operation in progress and `settle` a settlement that
is under way. Every host call that is durable on its own is one step: creating
the directory, the journal and each frame, a probe's rename there and back, the
rename of each touched root into its backup, each new directory, file or
temporary, COMMIT, and each removal or restoration of a settlement. A crash
(`Crash`) keeps disk, directories and committed rows and forgets the rest; a
fault makes one host call fail. `Open`, `RecoverOne` and `Recovered` are the next
start.

File contents are one of two values, and frames are there or not: a torn last
frame is one that is not there, because the code drops it. Not modelled: symbolic
links in the middle of a path, the process lock (one process at a time is
assumed), observation leases and the scope of cursors.

### Workspace, Checkout, Integration, Operations

`head`, `index` and `worktree` map paths to identities (a mode and a blob);
`tracker` is the index tracker that triggers keep: complete or not, its baseline
and the dirty paths. Status, add and commit read only the tracker's candidates
when it is complete; the properties compare that with a full scan. Cached stat
data is left out: a row matches a file exactly when their identities agree. A
symbolic link is an identity like any other, so a link that stands in place of a
directory is treated as a file there. The index may hold a path and one below it,
as the code lets it; a tree may not, so a behaviour ends where a full build would
commit such an index (`WellFormedHead`).

Contents are sequences of regions; two sides conflict where they change one
region apart. `stages` are the unmerged rows, `journal` the durable operation,
`history` the commits, `before` a history variable with the checkout at the
start. A merge, cherry-pick or revert is one transaction; a rebase commits its
start and each step on their own, so a crash may come in between. Where a
file/directory conflict moves the file side is given by the constant
`Relocations`. Gitlinks are refused and shallow histories are left out. In
the instance an operation starts with a sealed tracker or, on the third commit,
with an incomplete one.

### The file system

`fs` holds the tables `fs_meta`, `fs_nodes`, `fs_paths`, `fs_chunks` and
`fs_subtree_revs`; `seen` what callers keep (file handles, stat data of index
rows); `torn` is history: the inodes that one `writeFiles` call wrote twice and
left with too many chunks. Every mutating call of the store is one action; a
refused call changes nothing. `Paging` reads page by page while others write in
between. Its paths are sequences of ordered characters, because a name may sort
between a directory and what is below it. `Mounts` resolves paths with `.`, `..`
and links through a view of mounts; `MaxFollows` stands for the limit of 40
links. `ReadBatches` models the splitting of bulk reads; statement parameter
limits and corrupt chunks are left out.

## Runs

| Run | Question | Bounds |
| --- | --- | --- |
| `gc` | nothing reachable is lost, marks stay sound, grace counts from arrival, the store stays closed, verdicts on packs stand | five objects; scenarios `loose`, `packs`, `shallow`, `promises`, `transfers` |
| `gc_live` | everything unreachable is eventually collected | three objects, one pack |
| `gc_resumable` | a ref on a partly swept closure makes maintenance fail for good (finding) | a commit, its tree and its blob |
| `disk` | disk and rows agree after any crash or failed call, also in recovery; the journal always suffices; nothing is left behind; a workspace that is reopened opens | scenarios `crashes` (two transactions, two crashes) and `faults` (one transaction on three paths, one crash, one failed host call or uncertain COMMIT) |
| `fetch` | the fences between concurrent fetches, pushes, tracking publications and local writes, the rules of a publication, leases | two calls, up to three generations; scenarios `nested`, `exact`, `deepening`, `head`, `pushes` |
| `push_union` | fast-forward check of a push of two branches (finding) | one push |
| `repository` | clones own their repositories, no store outlives its rows, ingests own their packs, complete packs are whole, refs are closed | scenarios `clones` (two calls, one root), `checkouts` (two roots), `both`, `ingest` (two calls, four packs), `graph` (six objects) |
| `fetch_closed` | refs stay closed when maintenance runs during a fetch (finding) | six objects, one fetch |
| `workspace` | the tracker's shortcuts are exact, no command loses work it does not announce, operations stop, continue and abort as they should | six paths; scenarios `structure`, `siblings`, `nested`, `merge`, `replay`, `rebase` |
| `merge_between` | a clean merge keeps every added file (finding) | three paths with a name that sorts between |
| `rebase_abort` | an active rebase can be aborted (finding) | one rebase of two commits |
| `host` | the tables implement the abstract tree, nothing stale is trusted, pages are true and complete, views and bulk reads do what they promise | five paths; scenarios `files`, `pages`, `view`, `bulk` |

A run with scenarios has a variable `scenario` that is chosen once and only
selects which inputs the environment may bring (which objects are written, which
requests are made, how often the process may crash). The steps of the program
never look at it, and every property is checked in every scenario:

* `loose`: a loose closure that is rooted, unrooted and collected; `packs`:
  packs that overlap, so that canonical ownership moves; `shallow`: a commit that
  becomes and stops being a boundary; `promises`: a promised blob and an absent
  gitlink that arrive after a run skipped them; `transfers`: a head and transfers
  that expire and root one object in turn.
* `nested`: remotes whose tracking prefixes are nested and one beside them;
  `exact`: mapped branches, tags and checkouts that change during a transfer;
  `deepening`: two remotes that share one shallow boundary; `head`: a remote
  whose branches and HEAD come and go; `pushes`: leases, lost answers and exact
  tracking tokens.
* `clones`: two clones race for one root, with a clock that lets a lease run out
  and be taken over; `checkouts`: stores and rows of two roots come and go;
  `both`: one clone beside them; `ingest`: packs with forward and backward
  deltas, a cycle, and a chain that is too long; `graph`: a line of three commits
  that share a tree, and a tag; one pack has a tree without its blob.
* `structure`: a file where another branch has a directory; `siblings`: two files
  of a directory; `nested`: a file where another branch has a directory in a
  directory; `merge`: forks, criss-cross histories and lines; `replay`,
  `rebase`: two commits and one of the upstream, with `MaxEdits` edits while an
  operation is stopped.

`Played` bounds the three scenarios without commits: an ignore file and a stopped
merge come only beside `siblings`, never both, and `siblings` ends where a
baseline was advanced wrongly. Limits of the code are small so that they are met:
`SPARSE_CHECKOUT_PATHS`, `CopyBudget` and `CopyLimit` are 2, `RbLargest` is 4,
`PgPatternMax` is 5.

The bounds let two calls overlap in every way, which is what the properties are
about: each relates one call's snapshot to one other transaction. In
`Maintenance` the clock, the epoch and the generation are bounded for the
foreground only, so that a bound never stops a run. Deadlock checking is off
where the program may stop: a maintenance call that reports corruption never
succeeds (`gc_resumable` is about that state), and the other models end when the
transactions, crashes, ids or commits that the bounds allow are used up. It is on
in `fetch`, where a call can always be given up.

Fairness: `gc_live` assumes weak fairness of `Maintain` (the host calls
maintenance again and again) and strong fairness of the clock; it starts from any
state that the foreground can reach in the first instant. `disk` assumes weak
fairness of the steps of a settlement that is under way and of reopening and
recovering: the code runs them in synchronous loops without waiting, and the
number of crashes and faults is finite.

## Proofs

The theorems hold for every value of the constants, for all page sizes, graphs,
numbers of calls and interleavings. Their assumptions are the named ASSUMEs of
the modules, which say what kind of value a constant is (`PrefixAssumption`:
tracking prefixes form a tree; `RequestsAssumption`, `LocalPutsAssumption`: the
inputs name refs that exist as names; an object's children are objects).

**Maintenance.** `TypeCorrect`, `MarksAreSound`, `NothingReachableIsLost`,
`StoreStaysClosed`, `GraceIsKept`, `VerdictsStand`: every safety property of the
run `gc`. The inductive invariant is `IInv == TypeOK /\ RunObserved /\ MarkSound`:
a run whose epoch and generation equal the current ones holds every root row and
every edge it has passed, and `RunObserved` (the run never observed more than
there is) makes every foreign bump permanent. So when a sweep begins, the marks
contain everything reachable (`ReachableMarked`), and a sweep deletes only what
is not marked. Closedness needs the sweeps to strip projections before storage
(`SweptProjections`); the grace needs `GraceInv`, that a nomination is never older
than the copy it is about; verdicts need that a deletion moves canonical
ownership only among packs that stay. `KeysetHolds` gives what a page is, a
nonempty initial segment of what is left, from the theorems on finite sets.

**FetchPublication.** `OnlyTheLatestPublishes`, `NothingIsOverwritten`,
`FetchTypesHold`, `LeasesAreHonoured`, `PublicationsKeepRules`: every property of
the run `fetch`. None is inductive, because a publication only compares numbers.
`FenceInv` (`FencesHold`) says what the numbers mean. `RowsCurrent`: a row that
exists holds the last generation issued to any overlapping prefix. `TokenSound`:
the tables have never gone back behind a token that is held, and are strictly
ahead of it once something it relies on was written. `OthersStaySound` does the
step of everyone but the acting call once and for all from `Spares`, and each
action then only has to show that it spares the others. `RuleInv` (`RulesHold`)
says what a call has decided on its snapshot: which tags are unchanged or absent,
that branches fast-forward, that leases matched. A publication is then right
because the fences prove that the snapshot is still the state.

**Registry and Clone.** `ClonesHold` is the inductive invariant `CloneInv`, from
which `ClonesStayOwned` and `RegistryStaysIntact` follow. It has three parts that
need each other. `MemoryOK` says where every facade comes from: some map of the
memory leads to it, so whoever empties the maps for a row revokes every facade
over it. `RowsOK` says that ids are below the counters, that roots differ and
that repositories have the checkouts they need. `CallsOK` says that no two calls
share a repository, that the row and the facade of a call's repository are the
call's own, and that the stored lease outlasts the remembered one. The memory
lemmas are about one operation on the maps each and know no step of the program;
`OwnStep`, `UntouchedCall` and `RegistryKeepsCalls` carry the calls over a step.

**PackIngest.** `IngestsOwnPacks` is the lease property of the run `repository`.
`IngestInv` adds to it that the pack which the control row names is stored and
pending, that pack ids are below the last one handed out, and that the lease in
the control row lasts at least as long as the one its call remembers. The last
part is what makes it inductive: a call compares the clock with its own copy and
renews only when half of it has passed, while the next reservation looks at the
stored one. `ResumedKeeps` does the heartbeat that every step after an await
begins with, `OthersKeepLeases` the calls that do not move. The proof uses no
step of `Clone`; it is in `CloneProofs` beside the repositories packs belong to.

The prover translates a step for its SMT solver within a fixed time, which runs
short late in a long module. Steps that need no arithmetic therefore name Zenon,
which has no such limit; a step that names no prover is tried with SMT, Zenon and
SMT again (the `USE` at the head of each proof module), and steps that need
arithmetic get it from small facts taken out first (`CountersAreNat`). On a slow
machine `tlapm --stretch 2` doubles the limit.

Only model-checked:

* liveness (`GarbageCollected`, `EventuallyOpens`) and everything about ENABLED,
  which the prover does not handle;
* what recursive definitions compute for every input, because induction over data
  is out of its reach: the paged and bulk reads, views and the file tables
  (`FsImplementsTree` and its neighbours are built from folds over paths), the
  delta chains of `PackIngest` (`CompletePackWhole`, `CorruptOnlyUnresolvable`), the
  undo of `DiskRecovery` (`UndoRestores`, and with it `CommittedTree`), merges and
  rebases;
* `RefsClosed`, which holds only without maintenance in flight, a restriction that
  the instance states and not the specification;
* the tracker and checkout properties of `workspace`, whose exceptions are stated
  for the inputs of the run.

## Findings

Each is a run that TLC refutes; `PROJECT.json` quotes the lines.

* `gc_resumable`: a branch put on a commit whose closure a sweep has partly
  collected makes every later maintenance call fail.
* `push_union`: in a push of several refs, the fast-forward check of one
  destination accepts an ancestor of another destination's source.
* `fetch_closed`: an unreachable object that a received pack relies on may be
  swept between the publication of the pack and that of the refs.
* `merge_between`: a file/directory clash is not seen when a name sorts between
  the two: the path below is planned as a clean addition, applying it removes the
  file above it and its index row, and the merge commits without that file.
* `rebase_abort`: a rebase that stopped on a modify/delete conflict cannot be
  aborted, because its file counts as untracked.

The models restrict the inputs, or exempt a case by name in a property, where the
code does something that its neighbours do not lead one to expect:

* `Mounts`, `LosesPlan`: `plannedPaths` (`do/src/fs/store/resolve.ts`) pops above
  the root when it plans a batch, so a path that leaves the root and comes back
  reads as absent.
* `ReadBatches`, `SharesInode`: a bulk read that names one inode by two paths
  fails with EIO (`readTargets`, `do/src/fs/store/read.ts`).
* `Paging`, `AboveMounts`: discovery and search above several mounts end with a
  mount that fills the page exactly (`do/src/fs/mounted/search.ts`).
* `FileSystem`, `torn`: one `writeFiles` call that names two hard links of one
  inode, the longer content under the earlier name, leaves chunks behind the
  file's size (`do/src/fs/store/write.ts:264`; the comment at 161 says otherwise),
  and bulk reads then refuse the file as corrupt. Only the layout of these inodes
  is excepted from `FsTablesAgree`; their bytes are not excepted from anything.
* `MCWorkspace`, `skewed`: advancing the tracker's baseline compares it with
  nothing (`git/src/do-fs/indexes/index-tracker.ts:274`). A merge that
  fast-forwards after the branch was moved under the tracker
  (`git/src/ops/merge/merge.ts:306`) gives the tracker a baseline that its journal
  does not account for: from then on, until a full scan seals it anew, it calls
  paths clean that are not, and status, commit and checkout believe it. `skewed`
  collects these paths (`MovedRows`), `TrackerSound` excepts them, and
  `SparseExact` and the checkouts that the tracker lets skip their guard are
  checked while there are none.
* `Checkout`, `ShadowedRows`, `FileAboveFile`: staging or resetting single paths
  may leave a file above another in the index. A sparse commit then refuses
  (`git/src/ops/tree/tree-build-sparse.ts:160`) or drops a row that nobody touched
  (146), where the full build checks nothing. The rows that are dropped are
  `skewed` too.
* `Checkout`, `HardResetFails`: a hard reset throws ENOTDIR where a file stands,
  and stays, in place of a directory that held a tracked path the target lacks
  (`git/src/ops/checkout/checkout-structure.ts:120`; `docs/backlog/108` has one of
  the two cases). `HardResetExact` shows that it fails in no other state.
* `Checkout`, `RemovalsKeepWork`: `rm` of a tracked path whose directory was
  replaced by a file removes that file without a look at it
  (`git/src/ops/staging/staging-rm-worktree.ts`).
* `Checkout`: a sparse status also names an untracked directory that took the
  place of a file HEAD has; a fast-forward overwrites a modified file whose index
  row is the target's already, and a staged file that stands above a path it
  writes; `clean -d` may fail after it removed some paths.

## Not modelled

* The shell and the command line: parsing and dispatch. The file system calls
  they end in are modelled.
* The Smart HTTP server: its requests end in the ref and transfer transactions of
  `Maintenance`; streams and sessions are left out.
* Pull (a fetch, then a merge or rebase) and ls-remote as calls of their own.
* Protocol codecs, object encoding and hashing, the diff engine, ignore patterns.
* The local disk reader, cursor scopes, observation leases and the process lock.
* The import and Node compatibility layers of the file system.

`PROJECT.json` has the reason for each.
