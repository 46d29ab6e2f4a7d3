# Verification of agent-residue-evidence

TLA+ models of the evidence store, the two observers, the path from events to
the pages a client reads, and the sessions of the MCP server of
`agent-residue-evidence`; the TLC runs that check them; and TLAPS proofs of
every safety property of the runs that pass. Source paths below are relative to
`src/`; the correspondence of every definition to its lines is in
`PROJECT.json`.

## The system

A client begins an observation of a task, appends events (or lets executors
append them), and ends it. End compares the files of the task's roots with a
baseline, resolves the task's processes and ports, binds events to what it
found, and publishes a report. Verify probes the candidates of the report again
and appends a revision that names the digest of the one before. A client reads a
report as groups of candidates, page by page, with paths hidden behind aliases.
Without a baseline a report can be made from a single-use retrospective grant.
Every record is an encrypted file of one state home, which an MCP server
(concurrent calls in one process) and CLI commands (one process each) share.
`Store.mu` excludes the threads of one process only.

| part | state | operations that change it | module |
|---|---|---|---|
| store (`internal/store`) | task, batches, report and grant files; `Store.mu` | create, append, delegate, executor append, complete, revise, retain, forget, grant, complete grant | `OwnedStore` |
| sweep (`internal/store/retention.go`) | the same files | Sweep | `OwnedStore` |
| service (`internal/app`) | what a request holds between two store calls | Begin, AppendEvents, End, Verify, Summarize, Inspect, ResolveCandidate | all |
| process observer (`internal/process`) | locals of Resolve; the operating system's processes | Baseline, Resolve, Verify | `Attribution` |
| file observer (`internal/fsobserve`) | scan in progress, baseline; the tree | Capture, Compare, VerifyCandidate | `FsScan` |
| correlation (`internal/correlate`) | none | BuildReport | `Attribution`, `FsScan`, `Intake` |
| aliases and scope (`internal/pathalias`, `internal/scope`) | the alias table; the roots | New, Project, Resolve, Validate | `Aliases` |
| events (`internal/event`) | none | Normalize | `Aliases`, `Intake` |
| groups and pages (`internal/group`) | the reader's cursor | Candidates, Page | `Grouping` |
| MCP server, command line (`internal/mcpserver`, `internal/cli`) | ephemeral owners per session; calls in progress | the tools and commands | `Sessions` |

What makes it hard: requests of two threads and of two processes interleave;
the service reads a record, observes for seconds without a lock, and completes
with what it read; a crash or a failing file operation falls between two file
operations of one request; process identifiers and inodes are used again; the
tree, the roots and the process table change while they are read; handles live
in a table that other calls and restarts empty. `PROJECT.json` lists these as
hazards, each at its line.

## Modules

**OwnedStore.** The variables `task`, `batches`, `report` and `retro` are the
four files of each owner, `mu` is the lock of each process, and `call[t]` is the
request thread `t` serves: `pc` is the next step, `rec`, `rep` and `rev` the
record it holds. A request is split wherever an unlock, a crash or another
process can come between two of its effects. For example, End is
`LoadOwnedTaskForEnd`, `MergeAndObserve`, `CompleteOwnedTask`, `CompleteMerge`,
`WriteReport`, the removal of the task, the listing of its batches and their
removal. A sweep reads and removes entry by entry, directory after directory,
then evicts the oldest reports until the rest fits, all under the lock.
`FileError` is an operation that fails without effect, `SyncError` one that took
effect and then failed (`syncDirectory` after the rename), `Crash` the death of
a process; `SummarizePanics` is an index out of range.

**ReportChain.** The abstract specification: an owner opens once, publishes at
most once, then the history grows by one at a time until it is dropped as a
whole. `ImplementsReportChain` is the refinement.

**Attribution.** Processes start, exit and reuse identifiers between any two
queries of `Resolve`. The identity of a process is its identifier with its
creation time. The check that a process is unchanged and the listing of its
ports are two steps, as in the code. `Failing` says which queries may fail.

**FsScan.** A scan identifies the root, lists a directory and visits one entry
at a time while files are created, written and deleted and the root is replaced,
by a directory with another inode number or with the same one. `Compare` ends a
comparison with or without limitations from the process observer.
The ghost times only serve the properties.

**Aliases, Grouping, Intake.** One observation from its scope to the pages of
its report. `Aliases` has paths as sequences of names: cleaning, containment,
links, the alias table and its identities. `Grouping` has the loop of
`Candidates` over the sorted list as a recursive function, and `Page`. `Intake` composes them: begin, append,
delegate, append by an executor, end, verify, read pages, while `ReplaceRoot`
and `Relink` change the world.

**Sessions.** A call is found a handle (`Resolve`), handed to the service and
possibly forgotten (`Forget`), while other calls, expiry and a restart of the
server come between. What the service does to an observation is which records
the store has of it afterwards, since `OwnedStore` has its steps: it succeeds
(`Service`), fails and changes nothing (`Fail`), or fails when the report is
already published or the record removed (`FailLate`). `late` remembers the
observations for which the last happened to an End called by ID. `told`
are the handles that left the server: any client may use one of those, which is
how a handle given away is modelled.

The theorems are in **OwnedStoreProofs** (any number of processes),
**OneProcessProofs** and **OneProcessTheorems** (the invariant of one process,
and what follows from it), **AttributionProofs**, **FsScanProofs**,
**IntakeProofs** and **SessionsProofs**. **Induction** has what these need of
induction, sums and lists. The **MC** modules give the constants their values.

### Abstractions

- Owners index the files: keys and random identifiers are fresh, encryption and
  signatures are not modelled. A digest is the list of what it commits to, which
  is injective, as SHA-256 is assumed to be.
- Events are sets in `OwnedStore`, and what an observation finds is any set of
  candidates there; the observers and `Intake` say which.
- A report has size 1 plus its revisions, against a `Capacity` of the same unit.
- What a process works in, holds open and listens on is fixed while it runs. The
  queries for one process are one step, and so is the baseline of Begin. When a
  parent exits, a child's parent number becomes 0 (Unix) or stays (Windows).
- Every change moves the modification time of a file. Byte and time limits and
  unreadable directories are one failing step (`ScanFails`). `FsScan` has one
  root, a path is always a file or always a directory, and there are no links.
  An identity is the inode number, which the device and the type refine in the
  code. A root that is replaced starts empty: files moved in count as new.
- In `Intake` the checks of text fields are one flag of an event, at most one
  link exists at a time, and a request is one step: its interleavings are those
  of `OwnedStore`. A grant names a root by its alias: one that names none of
  them, as `temp://` alone does, is left out. A link and the identity of a root
  change independently, also where the link is on the way to the root.
- Candidates are sorted name by name (`Before`). The code compares the texts of
  the aliases, which is the same order while no name has a character that sorts
  before the slash and there are at most ten temporary roots. The order among
  siblings and among roots decides on which page a group is, and no property
  depends on it; that a directory comes before what is in it holds for texts
  and names alike.
- Names are atomic in `Intake`: a name that begins with another is like any
  other name. Roots exist, are real directories and are written without `..`;
  the checks of `validateRoot` for these can only refuse more scopes.
- In `Sessions` the tools that need a report and leave one in place are one
  tool, `get`. A call arrives and looks its handle up in one step. An expired
  record is gone; `retain` can bring an expired report back, but needs its handle
  and the command line, and so never concerns an ephemeral observation.

## Runs

| run | asks | instance | states |
|---|---|---|---|
| `lifecycle` | Without faults in one process: ending is final, a grant is used once, history is only appended to, a report has every event acknowledged before its merge, a sweep takes nothing from an active task, and the store implements `ReportChain`. | 2 threads, all requests but summarize, 2 revisions | 742 thousand |
| `faulty` | With a crash or failing operation anywhere: acknowledged events stay, no stored batch blocks End, a stored report is a linked chain about one set of candidates, and every request returns. | 2 threads, 1 fault, 1 revision | 327 thousand |
| `retention` | A finished sweep leaves no expired report and no more than the capacity, except what is retained; it evicts the oldest first and never a retained one. | 2 owners, 2 threads, 1 fault | 3.0 million |
| `attribution` | Bound candidates are the declared processes, new processes in a root are reported, active references are the same process, absence is real. | 2 identifiers, 3 starts, failing snapshot, open files and ports | 3.1 million |
| `descendants` | Exactly the descendants are attributed. | 3 identifiers | 1.2 million |
| `fs_scan` | A successful comparison is exact for what holds still, no file of a replaced root passes for one of the baseline, evidence levels are the strongest that baseline or events support, untouched candidates verify as present. | 3 paths, limit of 2 entries, 4 changes, 2 inodes for the root | 816 thousand |
| `intake` | What owners store is in scope, executors bind evidence only within their grant, what stops an End, an alias resolves to the path observed while its root is the one bound, groups cover every candidate, and pages lose nothing. | 2 stored events, 1 revision, 3 scopes, roots with 3 identities | 202 thousand |
| `sessions` | An observation ID authorises only in the session that began it, in the same life of the server; an End that succeeds ends that authority and nothing else does while the observation is open. | 2 sessions and the command line, 2 observations, 2 calls, 1 restart | 2.7 million |

Why the bounds are enough to be interesting: two threads give every pairwise
race, and two revisions make a link whose predecessor is a revision. One fault
already separates any two file operations of a request. Two owners give the
eviction a choice, and two units of capacity let a report with a revision fill
it. Three starts over two identifiers force reuse; three identifiers allow a
grandchild, for which one pass over the children is too little. Three inodes and
four changes allow a file to be deleted and its inode to return, three paths
exceed the limit of two entries, and two inodes for the root let a new directory
have the number of the old or another. The tree of `intake` is a directory in a
directory with a file in it, the smallest in which a candidate lies below two
others; its inputs have one event for every reason to refuse or to stop, and a
limit of one cited event makes the limit reachable. Clock bounds let each kind
of record expire. Symmetry is over threads, owners, identifiers, inodes, sessions and
observations where they differ only in name, and is not used for liveness.
`fs_scan` turns the deadlock check off: a report without candidates has nothing
left to do once the bounded changes are used up.

Fairness is weak for the steps of a running request (the Go scheduler runs
every runnable goroutine, and file operations return) and strong for taking
`Store.mu` (`sync.Mutex` hands the lock to a starved waiter). Clients and the
clock need not move, and faults are neither fair nor more than `MaxFaults`.

### Where code and documents disagree

Four runs end in a violation on purpose; `PROJECT.json` quotes the documents.

- `crash_overwrites`: the report is written before the task is removed. A crash
  or failed remove in between lets a second End replace the report and its
  revisions. With a fault the same shape makes `GrantSingleUse` and
  `EndIsFinal` fail, which is why `lifecycle` checks these without faults.
- `lost_revision`: of two processes that verify at once, one overwrites the
  revision of the other. For the same reason an append of one process can bring
  back a task that another process ended, and with it executors that
  `docs/superpowers/specs/2026-08-27-agent-residue-evidence-0.2.0-design.md:87`
  says are revoked.
- `summary_panic`: Summarize checks a revision against its second read and
  indexes its first.
- `verify_absent`: a process for which a query of the snapshot fails is verified
  as no longer present, without a limitation. `attribution` therefore checks
  `AbsenceIsReal` for the other three failures only.

Smaller differences, which a property states the way the code has it:

- `internal/mcpserver/server.go:167` offers reports by "same-session ephemeral
  authority", but an End that succeeds forgets the observation. Such a report is
  reachable only while the end call has not returned, or when that End published
  it and then answered an error, which forgets nothing (`EndedIsForgotten`).
- Begin and End tell directories apart by inode number. A root that was removed
  and made again on the same number is not noticed, but what is in it is
  reported as changed or new (`ReplacedRootShown`).
- `README.md:65` of the repository promises a cap of 100 MB and protection of
  retained reports. Sweep does both (`SweepBoundsReports`, `EvictsOldest`), but
  no production code calls it, and a retained report expires after its extra
  period all the same.
- An alias that End cannot expand makes End fail rather than yield a limitation,
  until the task expires (`EndStoppedBy`). So does a candidate that more than
  128 events cite.
- A directory with a conflict below another directory is a group of its own,
  and what is in it is counted in both (`CoveredOnce`).
- A grant without roots allows no path (`BoundWithinGrant`); the task an
  executor's event names is not checked, and delegating does not check that the
  roots are bound.

## Proofs

TLC checks an instance, the theorems hold for all values of the constants that
satisfy the `ASSUME`s of the modules: any number of owners, threads, processes,
identifiers, paths, events, revisions and restarts. `PROJECT.json` lists the
theorems next to the properties of the runs they state.

### The store, any number of processes (`OwnedStoreProofs`)

With any faults, and no use of mutual exclusion:

- `TypeCorrect`: `Spec => []TypeOK`;
- `ReportsAreChained`: `Spec => []ChainLinked`;
- `VerificationNeverWidens`: `Spec => []SameCandidates`.

None of the three is inductive. A report is written from a copy a request made
some steps earlier, so `Inv` also says that the copies held in `call` are sound.
A revision may be appended to a report other than the one Verify read, so a
pending revision must be sound for *any* chain that ends in the digest it names
(`RevisionSound`): a digest starts with the report, so the digest alone fixes
the candidates. `ExtendSound` is the step that shows the check of
`AppendOwnedRevision` to be enough. `InvAlways` is `Spec => []Inv`, with one
lemma each for arriving, acquiring, continuing, the steps of a sweep and the
environment.

### The store of one process (`OneProcessProofs`, `OneProcessTheorems`)

These assume `SharedLock`, that all requests are served by one process, as they
are while only the MCP server runs. With any number of crashes and failing file
operations:

- `AcknowledgedIsKept` (`AckedOnDisk`), `MergeIsNeverDenied`
  (`BatchesGranted`), `SweepIsThorough` (`SweepBoundsReports`);
- the action properties `SweepSparesObservations` (`SweepSparesActive`),
  `EvictionTakesOldest` (`EvictsOldest`), `ReportHoldsAcknowledged`
  (`EndSeesAcked`) and `RevisionsStay` (`RevisionsKept`).

With `MaxFaults = 0`, that is, when every request gets to its end:

- `EndingIsFinal` (`EndIsFinal`), `GrantIsSingleUse` (`GrantSingleUse`),
  `HistoryGrows` (`HistoryAppendOnly`);
- `StoreImplementsReportChain`: the store implements `ReportChain`. Initial
  states map to initial states, and each step of a request to a step of one
  owner's chain or to none.

Neither hypothesis can be dropped: `lost_revision` violates `RevisionsKept` with
two processes, and `crash_overwrites` violates `HistoryAppendOnly` with one
fault.

A request in its critical section acts on what it read some steps before and
leaves the files in states no other request may find. So the inductive
invariant `OneInv` is about the one request that can hold `Store.mu`
(`MutexOK`). `FilesOK` says which of its copies are what is on disk. `SweepOK`
says that a sweep remembers exactly the reports it has passed and left, none of
them expired. `FinalOK` says that only the request about to remove it may have
left a task or a grant beside its report, or batches without their task. When
nobody holds the lock there is no such excuse (`Fits(IdleCall)`). For the capacity, `Total` is shown to be a sum that does
not depend on the order of the reports (`TotalIsSum`).

### The process observer (`AttributionProofs`)

For any finite set of identifiers and any number of starts: `TypeCorrect`,
`DescendantsExact` (`AttributionClosed`), `BoundAsDeclared` (`BoundIsDeclared`)
and `ActiveIsReported` (`ActiveIsSame`). If `"query" \notin Failing`, also
`AbsenceIsTrue` (`AbsenceIsReal`) and `NoNewProcessMissed`
(`NewProcessesReported`); `verify_absent` shows what happens otherwise.

The invariant follows a process from the list to the report (`FoundOK`): one
that is old enough to be listed and still runs is yet to be asked, or was seen
as it is; if it belongs to the task it is attributed, then in evidence, unless
the report says that its evidence is partial. The code passes over the snapshot
until a pass adds nothing; the model makes as many passes as there are
identifiers. `PassesSuffice` shows this to be the same: until a pass adds
nothing, each adds a process. That what is reached are exactly the descendants
is an induction on the number of passes (`DescendantsByAncestors`). Identities are compared with creation times,
which never exceed the number of starts (`TimesOK`): this is what keeps a used
identifier apart from the process that had it before.

### The file observer (`FsScanProofs`)

For any tree, limits and number of changes: `TypeCorrect`, `LevelIsStrongest`
(`StrongestEvidence`), `ComparisonIsExact` (`DiffExact`), `NoneOfOtherRoot`
(`ReplacedRootShown`) and `UntouchedVerifies` (`UntouchedIsPresent`).

The tree moves while it is walked, so a scan is no picture of any one moment.
`ScanOK` says what it is good for: a path that holds still since the scan began
is recorded as it is, or each set of paths that holds it and is closed upwards
has a path that is still to be visited. When nothing is left to visit, only the
first is possible. `BelowAssumption` (who goes up from a path meets the root) is
what makes a tree of `ParentOf`. `RootOK` says that every file is younger than
the directory at the root's path. A file of a replaced root is therefore younger
than every entry of the baseline, which is why `DiffExact`'s argument covers it.

### From events to pages (`IntakeProofs`)

For any scopes, trees, links, grants, inputs and limits:

- `TypeCorrect`, `EndIsStoppedOnlyBy` (`EndStoppedBy`), `ResolutionIsExact`
  (`ResolvesToTarget`), and the action properties `OwnerPathsInScope`
  (`StoredInScope`) and `EvidenceWithinGrant` (`BoundWithinGrant`), from
  `IntakeInv`;
- `SummaryCoversOnce` (`CoveredOnce`) and `PagesAreComplete` (`PagesComplete`),
  from `IntakeInv`, `SnapshotsInv` and `ReaderOK`.

`IntakeInv` says of a stored event what its checks have established: an owner's
paths are absolute and clean, an executor's are safe aliases within its grant
(`EventOK`). Candidates carry the alias of their path under a root of the
report's own table (`CandidateOK`). The roots of a scope do not overlap
(`RootsApart`), so a path has one root, and hiding it behind an alias and
resolving that gives it back. For a grant, the prefix test on the alias is shown
to be containment of the expanded path (`GrantHolds`): parts that are not `..`
only lengthen what cleaning makes of those before them, and the slash a grant may
end in adds nothing.

`SnapshotsInv` says that the report, and each revision, has finitely many
candidates, one for a path, and aliases that tell these apart. That is what
makes `Sorted` defined and unique (`Sortable`: `Before` is irreflexive,
transitive and total on them), hence what makes an offset into the groups mean
the same on the next page. `RunHeads` describes the loop of `Candidates`: the
groups are those of the candidates not used at their turn, and used are exactly
the candidates these take in. Coverage follows, since a candidate is used only
after something took it in. That two groups share a candidate only below a
directory with a conflict is `TakersMeet`: two directories that take in one
candidate lie one below the other, agree in level and status, and so the upper
one takes in the lower one unless that has a conflict. `ReaderOK` says that the
pages read so far are the groups up to the cursor, of a revision that later
ones do not change.

### The sessions (`SessionsProofs`)

For any sets of sessions, observations and concurrent calls and any number of
restarts:

- `HandleUntold`: `Spec => []TypeOK`, which says that the handle of an ephemeral
  observation is not told;
- `Confined` (`AuthorityConfined`), `Forgotten` (`EndedIsForgotten`) and the
  action property `KeptWhileOpen` (`ForgetsEnded`).

The inductive invariant relates four places that hold a handle. What a session's
table holds it began in this life (`TableOK`). What a call works with was given
and had been told, or came from such a table (`CallOK`). What was told or begun
exists (`ToldOK`, `BeganOK`). And between Begin and `Put` nobody else can have
the new handle (`PutsOK`): without it an End in that window would make the put
bring back an ended observation. The two ways a call changes the store,
`Service` and `FailLate`, share one lemma (`WorkOK`): they differ in the records
they leave, and in whether the call goes on to forget or the observation is
`late`.

### Assumptions

| assumption | why the code justifies it |
|---|---|
| `None` is no thread, owner, process, file, record or grant (`NoneAssumption`, `NoFileAssumption`, `NoValueAssumption`, part of `InputsAssumption`, of `RootAssumption` and of `NamesAssumption` of `Sessions`) | it stands for a missing file or a nil value |
| periods are positive, bounds and limits are natural numbers; a page has at least one group | constants of `internal/store` and `internal/contract`; `Page` refuses a limit below 1 |
| each thread has a process; the command line is no session | how the two are started |
| identifiers are finitely many and not 0 (`PIDsAssumption`) | they are machine integers, and 0 is the parent of an orphan |
| `ParentOf` is a tree below `Root` | paths are walked from the root |
| the tree of `Intake` is finite and has a path once; its paths are clean (`PathsAssumption`) | `Capture` keys entries by path and stops at its limit |
| names are ordered without repetition (`NamesAssumption` of `Intake`) | they are compared as strings |
| inputs are texts (`InputsAssumption`); literals are strings (`LiteralsAssumption`) | types of the fields; true of TLA+ strings, which the provers need to be told |
| there may be no link (`LinksAssumption`) | as at Begin in the initial state |

### How induction is done, and what is left

The induction theorems of the library take a predicate as a parameter, which
none of the provers used here instantiates. `Induction` therefore states
induction for a *set* of numbers, or of subsets of a finite set: a set that has
0 and with each number the next one has them all. The caller defines the set
(`T == {n \in 0..k : ...}`), and the lemma is first-order. On this rest the
existence of functions defined by recursion (`IterationExists`), sums over
finite sets, and the existence of a sorted list of a finite set (`ListExists`).
Each recursive function of a model is met once, in a lemma that says what its
run looks like (`CleanRuns`, `CandidatesRun`).

Only model-checked is `RequestsReturn`: liveness under fairness and `ENABLED` are
out of the prover's reach. That the refuted properties fail is shown by TLC
alone. No module uses `RECURSIVE`.

## Not modelled

- Encryption, signatures and the text form of handles: pure functions, replaced
  by what they authorise.
- The Darwin and Windows process adapters: the shape of the Linux one over other
  system calls.
- Letter case, volumes and root syntax of the scope guard, and its checks that a
  root is a real directory; permissions of files;
  several roots and links in `FsScan`.
- The JSON schema and the checks of single text fields; command line decoding,
  output and exit codes; version information. These are I/O or constants.
- The branch of AppendEvents that calls `executorRootsAllowed`: no input reaches
  it.

## Plan

1. `FsScan` with several roots and links.
2. `Sessions` refined by `OwnedStore`: its records from the files.
3. Which promises of `OneProcessTheorems` survive a second process that only
   reads and verifies.
