------------------------------ MODULE OwnedStore ------------------------------
(***************************************************************************)
(* The evidence store (internal/store) as the service (internal/app) uses  *)
(* it.  Every owner capability names four files of one state home: the     *)
(* task record, the executor event batches, the report chain and the       *)
(* retrospective grant.  Requests run in Threads; a thread belongs to a    *)
(* process, and Store.mu excludes only the threads of one process.  A      *)
(* request is split where another process, a crash or an unlock can come   *)
(* between two of its file operations; a file is replaced atomically       *)
(* (write to a temporary file, fsync, rename).                             *)
(*                                                                         *)
(* Owner keys and random identifiers are fresh, so an owner never reaches  *)
(* another owner's files: capabilities are the indices of the functions    *)
(* below.  Event batches are sets (BuildReport keeps each event id once).  *)
(***************************************************************************)
EXTENDS Integers, Sequences, FiniteSets, FiniteSetsExt

CONSTANTS
    Owners,        \* owner capabilities that may be created
    Events,        \* task events a client may append
    Candidates,    \* residue candidates an observation may find
    GrantIDs,      \* executor grant identifiers that may be minted
    Threads,       \* request handlers: MCP calls in flight, CLI commands
    Procs,         \* operating system processes sharing the state home
    ProcOf,        \* the process each thread runs in
    Requests,      \* the requests the clients of this instance send
    Interruption,  \* life of an active task without a heartbeat (24 h)
    Retention,     \* life of a completed report (7 days)
    GrantLife,     \* life of a retrospective grant (10 min)
    ExecutorLife,  \* longest life a client asks for an executor handle
    Capacity,      \* what all reports together may occupy (100 MB)
    MaxTime,       \* bound: the clock stops here
    MaxRevisions,  \* bound: verifications of one report
    MaxExpiry,     \* bound: retaining never moves an expiry beyond this
    MaxFaults,     \* bound: crashes and failing file operations
    None           \* no file, no value

ASSUME ThreadsAssumption == ProcOf \in [Threads -> Procs]

ASSUME TimesAssumption ==
    /\ {Interruption, Retention, GrantLife, ExecutorLife} \subseteq Nat \ {0}
    /\ {Capacity, MaxTime, MaxRevisions, MaxExpiry, MaxFaults} \subseteq Nat

ASSUME NoneAssumption ==
    /\ None \notin Threads
    /\ None \notin Owners

VARIABLES
    task,      \* tasks/<owner>.are
    batches,   \* events/<owner>/*.are
    report,    \* reports/<owner>.are
    retro,     \* grants/<owner>.are
    mu,        \* per process: the thread that holds Store.mu
    call,      \* per thread: the request it is serving
    now,       \* the clock
    used,      \* owner capabilities created so far
    minted,    \* executor grant identifiers created so far
    issued,    \* executor handles returned to clients
    acked,     \* events whose append was answered with success (history)
    faults     \* crashes and file errors so far

files == <<task, batches, report, retro>>
ids == <<used, minted, issued, acked>>
vars == <<files, mu, call, now, ids, faults>>

-----------------------------------------------------------------------------
(* Records *)

TaskFile == [events: SUBSET Events, grants: SUBSET GrantIDs, expires: Nat]

Batch == [grant: GrantIDs, events: SUBSET Events]

Handle == [grant: GrantIDs, expires: Nat]

GrantFile == [expires: Nat]

Modes == {"OBSERVED", "FAILED", "RETROSPECTIVE"}

Body == [mode: Modes, createdAt: Nat, events: SUBSET Events,
         candidates: SUBSET Candidates]

(* What a revision's digest covers besides the digest before it. *)
Snapshot == [revision: Nat, createdAt: Nat, candidates: SUBSET Candidates,
             present: SUBSET Candidates]

(***************************************************************************)
(* SHA-256 is collision free for our purposes: a digest is the list of     *)
(* what it commits to, the report first, then each revision in turn.       *)
(***************************************************************************)
Digest == Seq(Body \cup Snapshot)

Revision == [snapshot: Snapshot, previousDigest: Digest, digest: Digest]

ReportFile == [body: Body, revisions: Seq(Revision), created: Nat,
               expires: Nat, retained: BOOLEAN]

Directories == {"tasks", "reports", "grants"}

(* What a sweep remembers of a report it has read and not removed. *)
KeptReport == [owner: Owners, size: Nat, created: Nat, protected: BOOLEAN]

(* A sweep: the time it was given, the directory it is in, the entries it  *)
(* has yet to read there, and the reports it keeps so far.                 *)
SweepState == [at: Nat, dir: Directories, left: SUBSET Owners,
               kept: SUBSET KeptReport]

ASSUME NoFileAssumption ==
    None \notin TaskFile \cup ReportFile \cup GrantFile \cup SweepState

Labels == {"idle", "append", "taskWrite", "batchWrite", "endMerge", "complete",
           "completeMerge", "reportWrite", "taskRemove", "eventsList",
           "eventsRemove", "revise", "chainWrite", "forgetRemove", "page",
           "inspect", "retroWrite", "grantRemove", "sweepRead",
           "sweepRemove", "evict"}

Call == [pc: Labels, owner: Owners \cup {None}, events: SUBSET Events,
         handle: Handle \cup {None}, rec: TaskFile \cup {None},
         rep: ReportFile \cup {None}, rev: Revision \cup {None},
         page: Nat, todo: SUBSET Batch, sweep: SweepState \cup {None}]

IdleCall == [pc |-> "idle", owner |-> None, events |-> {}, handle |-> None,
             rec |-> None, rep |-> None, rev |-> None, page |-> 0,
             todo |-> {}, sweep |-> None]

(* A report that is not stored yet, and the envelope it is stored in. *)
NewReport(b) == [body |-> b, revisions |-> <<>>, created |-> 0, expires |-> 0,
                 retained |-> FALSE]

Stamped(r) == [r EXCEPT !.created = now, !.expires = now + Retention]

reportDigest(b) == <<b>>

verificationDigest(previous, s) == Append(previous, s)

(* The digest the next revision must name: the last revision's, or the     *)
(* report's own.                                                           *)
TipDigest(r) ==
    IF r.revisions = <<>> THEN reportDigest(r.body)
    ELSE r.revisions[Len(r.revisions)].digest

TipCandidates(r) ==
    IF r.revisions = <<>> THEN r.body.candidates
    ELSE r.revisions[Len(r.revisions)].snapshot.candidates

(* What every load asks of the clock *)
Unexpired(file) == now < file.expires

(* loadOwnedTaskUnlocked succeeds. *)
Loads(o) == task[o] # None /\ Unexpired(task[o])

(* GetOwnedReport succeeds. *)
Readable(o) == report[o] # None /\ Unexpired(report[o])

GrantLoads(o) == retro[o] # None /\ Unexpired(retro[o])

BatchEvents(bs) == UNION {b.events : b \in bs}

(* mergeExecutorEvents denies the whole merge for one batch whose grant    *)
(* the task record does not list.                                          *)
Merges(rec, bs) == \A b \in bs : b.grant \in rec.grants

-----------------------------------------------------------------------------
(* Serving a request *)

Sends(request, t) == request \in Requests /\ call[t].pc = "idle"

Free(t) == mu[ProcOf[t]] = None

Lock(t) == mu' = [mu EXCEPT ![ProcOf[t]] = t]

Unlock(t) == mu' = [mu EXCEPT ![ProcOf[t]] = None]

Goto(t, c) == call' = [call EXCEPT ![t] = c]

Return(t) == Goto(t, IdleCall)

Init ==
    /\ task = [o \in Owners |-> None]
    /\ batches = [o \in Owners |-> {}]
    /\ report = [o \in Owners |-> None]
    /\ retro = [o \in Owners |-> None]
    /\ mu = [p \in Procs |-> None]
    /\ call = [t \in Threads |-> IdleCall]
    /\ now = 0
    /\ used = {}
    /\ minted = {}
    /\ issued = [o \in Owners |-> {}]
    /\ acked = [o \in Owners |-> {}]
    /\ faults = 0

(* Service.Begin: a fresh owner, so the existence check always passes. *)
Begin(t, o) ==
    /\ Sends("begin", t) /\ Free(t)
    /\ o \notin used
    /\ used' = used \cup {o}
    /\ task' = [task EXCEPT ![o] = [events |-> {}, grants |-> {},
                                    expires |-> now + Interruption]]
    /\ UNCHANGED <<batches, report, retro, mu, call, now, minted, issued,
                   acked, faults>>

(* AppendEvents by the owner loads the task once for its scope ... *)
AppendEvents(t, o, es) ==
    /\ Sends("append", t) /\ Free(t)
    /\ Loads(o)
    /\ Goto(t, [IdleCall EXCEPT !.pc = "append", !.owner = o, !.events = es])
    /\ UNCHANGED <<files, mu, now, ids, faults>>

(* Mutant: the record is rewritten without holding Store.mu. *)
AppendOwnedEventsUnlocked(t) ==
    LET o == call[t].owner IN
    /\ call[t].pc = "append" /\ Loads(o)
    /\ Goto(t, [call[t] EXCEPT
                  !.pc = "taskWrite",
                  !.rec = [task[o] EXCEPT !.events = @ \cup call[t].events,
                                          !.expires = now + Interruption]])
    /\ UNCHANGED <<files, mu, now, ids, faults>>

(* ... and again under the lock that covers the rewrite of the record. *)
AppendOwnedEvents(t) ==
    LET o == call[t].owner IN
    /\ call[t].pc = "append" /\ Free(t)
    /\ \/ /\ ~Loads(o)
          /\ Return(t)
          /\ UNCHANGED mu
       \/ /\ Loads(o)
          /\ Lock(t)
          /\ Goto(t, [call[t] EXCEPT
                        !.pc = "taskWrite",
                        !.rec = [task[o] EXCEPT
                                   !.events = @ \cup call[t].events,
                                   !.expires = now + Interruption]])
    /\ UNCHANGED <<files, now, ids, faults>>

(* Mutant: the grant is added to the record without holding Store.mu. *)
DelegateUnlocked(t, o, g, life) ==
    /\ Sends("delegate", t)
    /\ Loads(o)
    /\ g \notin minted
    /\ minted' = minted \cup {g}
    /\ Goto(t, [IdleCall EXCEPT
                  !.pc = "taskWrite", !.owner = o,
                  !.handle = [grant |-> g, expires |-> now + life],
                  !.rec = [task[o] EXCEPT !.grants = @ \cup {g}]])
    /\ UNCHANGED <<files, mu, now, used, issued, acked, faults>>

DelegateOwnedExecutor(t, o, g, life) ==
    /\ Sends("delegate", t) /\ Free(t)
    /\ Loads(o)
    /\ g \notin minted
    /\ minted' = minted \cup {g}
    /\ Lock(t)
    /\ Goto(t, [IdleCall EXCEPT
                  !.pc = "taskWrite", !.owner = o,
                  !.handle = [grant |-> g, expires |-> now + life],
                  !.rec = [task[o] EXCEPT !.grants = @ \cup {g},
                                          !.expires = now + Interruption]])
    /\ UNCHANGED <<files, now, used, issued, acked, faults>>

(* The rewrite of the task record that ends an append or a delegation; the *)
(* answer acknowledges the events or carries the new executor handle.      *)
WriteTask(t) ==
    LET c == call[t] IN
    /\ c.pc = "taskWrite"
    /\ task' = [task EXCEPT ![c.owner] = c.rec]
    /\ acked' = [acked EXCEPT ![c.owner] = @ \cup c.events]
    /\ issued' = IF c.handle = None THEN issued
                 ELSE [issued EXCEPT ![c.owner] = @ \cup {c.handle}]
    /\ Return(t) /\ Unlock(t)
    /\ UNCHANGED <<batches, report, retro, now, used, minted, faults>>

(* An executor's append looks only at the task's envelope: the grant need  *)
(* not be in the record, which the executor cannot decrypt.                *)
AppendOwnedExecutorEvents(t, o, h, es) ==
    /\ Sends("execute", t) /\ Free(t)
    /\ h \in issued[o] /\ Unexpired(h)
    /\ Loads(o)
    /\ Lock(t)
    /\ Goto(t, [IdleCall EXCEPT !.pc = "batchWrite", !.owner = o,
                                !.events = es, !.handle = h])
    /\ UNCHANGED <<files, now, ids, faults>>

WriteBatch(t) ==
    LET c == call[t] IN
    /\ c.pc = "batchWrite"
    /\ batches' = [batches EXCEPT ![c.owner] =
                     @ \cup {[grant |-> c.handle.grant, events |-> c.events]}]
    /\ acked' = [acked EXCEPT ![c.owner] = @ \cup c.events]
    /\ Return(t) /\ Unlock(t)
    /\ UNCHANGED <<task, report, retro, now, used, minted, issued, faults>>

-----------------------------------------------------------------------------
(* Ending an observation *)

LoadOwnedTaskForEnd(t, o) ==
    /\ Sends("end", t) /\ Free(t)
    /\ Loads(o)
    /\ Lock(t)
    /\ Goto(t, [IdleCall EXCEPT !.pc = "endMerge", !.owner = o,
                                !.rec = task[o]])
    /\ UNCHANGED <<files, now, ids, faults>>

(* Mutant: the report leaves the executor batches out. *)
EndReportsOfOwner(rec, bs) ==
    {NewReport([mode |-> "OBSERVED", createdAt |-> now,
                events |-> rec.events, candidates |-> found]) :
        found \in SUBSET Candidates}

(* The report End builds from the merged record: the observation fails     *)
(* (failureReport), or it correlates the events with what it finds.        *)
EndReports(rec, bs) ==
    {NewReport([mode |-> "FAILED", createdAt |-> now, events |-> {},
                candidates |-> {}])}
    \cup
    {NewReport([mode |-> "OBSERVED", createdAt |-> now,
                events |-> rec.events \cup BatchEvents(bs),
                candidates |-> found]) : found \in SUBSET Candidates}

(* The executor batches are read and the lock released; the observation    *)
(* runs unlocked and stays in the handler.  It may also fail for good (an  *)
(* alias that no longer resolves, a candidate that does not validate).     *)
MergeAndObserve(t) ==
    LET c == call[t] IN
    /\ c.pc = "endMerge"
    /\ Unlock(t)
    /\ \/ Return(t)
       \/ /\ Merges(c.rec, batches[c.owner])
          /\ \E r \in EndReports(c.rec, batches[c.owner]) :
                Goto(t, [IdleCall EXCEPT !.pc = "complete",
                                         !.owner = c.owner, !.rep = r])
    /\ UNCHANGED <<files, now, ids, faults>>

(* Mutant: the task is completed from the record loaded before the         *)
(* observation, without asking whether it is still there.                  *)
CompleteUnchecked(t) ==
    LET c == call[t] IN
    /\ c.pc = "complete" /\ Free(t)
    /\ Lock(t)
    /\ Goto(t, [IdleCall EXCEPT
                  !.pc = "reportWrite", !.owner = c.owner,
                  !.rep = Stamped(c.rep)])
    /\ UNCHANGED <<files, now, ids, faults>>

(* CompleteOwnedTask: the record and its batches are read a second time,   *)
(* but only to decide whether the task may be completed.                   *)
CompleteOwnedTask(t) ==
    LET c == call[t] IN
    /\ c.pc = "complete" /\ Free(t)
    /\ \/ /\ ~Loads(c.owner)
          /\ Return(t)
          /\ UNCHANGED mu
       \/ /\ Loads(c.owner)
          /\ Lock(t)
          /\ Goto(t, [c EXCEPT !.pc = "completeMerge",
                               !.rec = task[c.owner]])
    /\ UNCHANGED <<files, now, ids, faults>>

(* Mutant: the retention is subtracted from the clock. *)
CompleteMergeExpired(t) ==
    LET c == call[t] IN
    /\ c.pc = "completeMerge"
    /\ Goto(t, [IdleCall EXCEPT
                  !.pc = "reportWrite", !.owner = c.owner,
                  !.rep = [c.rep EXCEPT !.expires = now - Retention]])
    /\ UNCHANGED <<files, mu, now, ids, faults>>

CompleteMerge(t) ==
    LET c == call[t] IN
    /\ c.pc = "completeMerge"
    /\ \/ /\ ~Merges(c.rec, batches[c.owner])
          /\ Return(t) /\ Unlock(t)
       \/ /\ Merges(c.rec, batches[c.owner])
          /\ Goto(t, [IdleCall EXCEPT
                        !.pc = "reportWrite", !.owner = c.owner,
                        !.rep = Stamped(c.rep)])
          /\ UNCHANGED mu
    /\ UNCHANGED <<files, now, ids, faults>>

WriteReport(t) ==
    LET c == call[t] IN
    /\ c.pc = "reportWrite"
    /\ report' = [report EXCEPT ![c.owner] = c.rep]
    /\ Goto(t, [IdleCall EXCEPT !.pc = "taskRemove", !.owner = c.owner])
    /\ UNCHANGED <<task, batches, retro, mu, now, ids, faults>>

(* Removing a file that is already gone ends the request with an error. *)
RemoveTask(t) ==
    LET o == call[t].owner IN
    /\ call[t].pc = "taskRemove"
    /\ \/ /\ task[o] = None
          /\ Return(t) /\ Unlock(t)
          /\ UNCHANGED task
       \/ /\ task[o] # None
          /\ task' = [task EXCEPT ![o] = None]
          /\ Goto(t, [call[t] EXCEPT !.pc = "eventsList"])
          /\ UNCHANGED mu
    /\ UNCHANGED <<batches, report, retro, now, ids, faults>>

(* Mutant: the request returns once the task is gone; batches stay. *)
ListNoBatches(t) ==
    /\ call[t].pc = "eventsList"
    /\ Return(t) /\ Unlock(t)
    /\ UNCHANGED <<files, now, ids, faults>>

(* removeDirectoryFiles lists the directory, then removes entry by entry. *)
ListBatches(t) ==
    LET o == call[t].owner IN
    /\ call[t].pc = "eventsList"
    /\ Goto(t, [call[t] EXCEPT !.pc = "eventsRemove", !.todo = batches[o]])
    /\ UNCHANGED <<files, mu, now, ids, faults>>

RemoveBatch(t, b) ==
    LET c == call[t] IN
    /\ c.pc = "eventsRemove"
    /\ b \in c.todo
    /\ batches' = [batches EXCEPT ![c.owner] = @ \ {b}]
    /\ \/ /\ b \in batches[c.owner]
          /\ Goto(t, [c EXCEPT !.todo = @ \ {b}])
          /\ UNCHANGED mu
       \/ /\ b \notin batches[c.owner]
          /\ Return(t) /\ Unlock(t)
    /\ UNCHANGED <<task, report, retro, now, ids, faults>>

(* The directory itself goes last, and stays if a batch arrived meanwhile: *)
(* an error that ends the request.  Else a sweep goes on with the tasks.   *)
RemoveBatchDirectory(t) ==
    LET c == call[t] IN
    /\ c.pc = "eventsRemove"
    /\ c.todo = {}
    /\ \/ /\ c.sweep = None \/ batches[c.owner] # {}
          /\ Return(t) /\ Unlock(t)
       \/ /\ c.sweep # None /\ batches[c.owner] = {}
          /\ Goto(t, [c EXCEPT !.pc = "sweepRead"])
          /\ UNCHANGED mu
    /\ UNCHANGED <<files, now, ids, faults>>

-----------------------------------------------------------------------------
(* Verifying, reading, retaining and forgetting a report *)

(* Verify reads the chain, probes the candidates of its last link without  *)
(* the lock, and builds the revision that is to extend what it read.       *)
Verify(t, o, present) ==
    /\ Sends("verify", t) /\ Free(t)
    /\ Readable(o)
    /\ Len(report[o].revisions) < MaxRevisions
    /\ present \subseteq TipCandidates(report[o])
    /\ LET s == [revision |-> Len(report[o].revisions) + 1,
                 createdAt |-> now,
                 candidates |-> TipCandidates(report[o]),
                 present |-> present]
           previous == TipDigest(report[o])
       IN  Goto(t, [IdleCall EXCEPT
                      !.pc = "revise", !.owner = o,
                      !.rev = [snapshot |-> s, previousDigest |-> previous,
                               digest |-> verificationDigest(previous, s)]])
    /\ UNCHANGED <<files, mu, now, ids, faults>>

(* Mutant: only the number of the revision is compared. *)
ExtendsByNumber(rev, r) == rev.snapshot.revision = Len(r.revisions) + 1

(* What AppendOwnedRevision asks of a revision before it appends it. *)
ExtendsChain(rev, r) ==
    /\ rev.snapshot.revision = Len(r.revisions) + 1
    /\ rev.previousDigest = TipDigest(r)

(* Mutant: the record is rewritten by writeOwned, which drops the          *)
(* protection of a retained report.                                        *)
AppendUnprotected(t) ==
    LET c == call[t]
        r == report[c.owner]
    IN
    /\ c.pc = "revise" /\ Free(t)
    /\ r # None /\ ExtendsChain(c.rev, r)
    /\ Lock(t)
    /\ Goto(t, [IdleCall EXCEPT
                  !.pc = "chainWrite", !.owner = c.owner,
                  !.rep = [r EXCEPT !.revisions = Append(@, c.rev),
                                    !.retained = FALSE]])
    /\ UNCHANGED <<files, now, ids, faults>>

(* Mutant: the path that refuses a revision keeps Store.mu. *)
RefuseLocked(t) ==
    LET c == call[t]
        r == report[c.owner]
    IN
    /\ c.pc = "revise" /\ Free(t)
    /\ Lock(t)
    /\ IF r # None /\ ExtendsChain(c.rev, r)
       THEN Goto(t, [IdleCall EXCEPT
                       !.pc = "chainWrite", !.owner = c.owner,
                       !.rep = [r EXCEPT !.revisions = Append(@, c.rev)]])
       ELSE Return(t)
    /\ UNCHANGED <<files, now, ids, faults>>

AppendOwnedRevision(t) ==
    LET c == call[t]
        r == report[c.owner]
    IN
    /\ c.pc = "revise" /\ Free(t)
    /\ \/ /\ \/ r = None
             \/ r # None /\ ~ExtendsChain(c.rev, r)
          /\ Return(t)
          /\ UNCHANGED mu
       \/ /\ r # None /\ ExtendsChain(c.rev, r)
          /\ Lock(t)
          /\ Goto(t, [IdleCall EXCEPT
                        !.pc = "chainWrite", !.owner = c.owner,
                        !.rep = [r EXCEPT !.revisions = Append(@, c.rev)]])
    /\ UNCHANGED <<files, now, ids, faults>>

(* RetainOwnedReport does not ask whether the report has expired. *)
RetainOwnedReport(t, o) ==
    /\ Sends("retain", t) /\ Free(t)
    /\ report[o] # None
    /\ report[o].expires + Retention <= MaxExpiry
    /\ Lock(t)
    /\ Goto(t, [IdleCall EXCEPT
                  !.pc = "chainWrite", !.owner = o,
                  !.rep = [report[o] EXCEPT !.retained = TRUE,
                                            !.expires = @ + Retention]])
    /\ UNCHANGED <<files, now, ids, faults>>

(* The rewrite of the report file that ends a verification or a retain. *)
WriteChain(t) ==
    LET c == call[t] IN
    /\ c.pc = "chainWrite"
    /\ report' = [report EXCEPT ![c.owner] = c.rep]
    /\ Return(t) /\ Unlock(t)
    /\ UNCHANGED <<task, batches, retro, now, ids, faults>>

ForgetOwnedReport(t, o) ==
    /\ Sends("forget", t) /\ Free(t)
    /\ report[o] # None
    /\ Lock(t)
    /\ Goto(t, [IdleCall EXCEPT !.pc = "forgetRemove", !.owner = o])
    /\ UNCHANGED <<files, now, ids, faults>>

RemoveReport(t) ==
    /\ call[t].pc = "forgetRemove"
    /\ report' = [report EXCEPT ![call[t].owner] = None]
    /\ Return(t) /\ Unlock(t)
    /\ UNCHANGED <<task, batches, retro, now, ids, faults>>

(* Summarize reads the record once for its header ... *)
Summarize(t, o, revision) ==
    /\ Sends("summarize", t) /\ Free(t)
    /\ Readable(o)
    /\ Goto(t, [IdleCall EXCEPT !.pc = "page", !.owner = o,
                                !.rep = report[o], !.page = revision])
    /\ UNCHANGED <<files, mu, now, ids, faults>>

(* GetCandidatePage finds the requested revision in the record it reads. *)
PageExists(o, revision) ==
    Readable(o) /\ revision <= Len(report[o].revisions)

(* ... and GetCandidatePage reads it again for the page. *)
GetCandidatePage(t) ==
    LET c == call[t] IN
    /\ c.pc = "page" /\ Free(t)
    /\ PageExists(c.owner, c.page) => c.page <= Len(c.rep.revisions)
    /\ Return(t)
    /\ UNCHANGED <<files, mu, now, ids, faults>>

(* All the requests of a process end with it; the files stay. *)
Die(p) ==
    /\ call' = [t \in Threads |-> IF ProcOf[t] = p THEN IdleCall ELSE call[t]]
    /\ mu' = [mu EXCEPT ![p] = None]

(* record.Revisions[revision-1] indexes the record of the first read with  *)
(* a revision that only the second read has: the process panics.           *)
SummarizePanics(t) ==
    LET c == call[t] IN
    /\ c.pc = "page" /\ Free(t)
    /\ PageExists(c.owner, c.page)
    /\ c.page > Len(c.rep.revisions)
    /\ Die(ProcOf[t])
    /\ UNCHANGED <<files, now, ids, faults>>

-----------------------------------------------------------------------------
(* Retrospective inspection *)

GrantRetrospective(t, o) ==
    /\ Sends("grant", t) /\ Free(t)
    /\ o \notin used
    /\ used' = used \cup {o}
    /\ retro' = [retro EXCEPT ![o] = [expires |-> now + GrantLife]]
    /\ UNCHANGED <<task, batches, report, mu, call, now, minted, issued, acked,
                   faults>>

(* The grant is read, the lock released, and the granted roots observed. *)
InspectCompletedAuthorized(t, o, es, found) ==
    /\ Sends("inspect", t) /\ Free(t)
    /\ GrantLoads(o)
    /\ Goto(t, [IdleCall EXCEPT
                  !.pc = "inspect", !.owner = o,
                  !.rep = NewReport([mode |-> "RETROSPECTIVE",
                                     createdAt |-> now, events |-> es,
                                     candidates |-> found])])
    /\ UNCHANGED <<files, mu, now, ids, faults>>

(* Mutant: the grant is not read again before the report is published. *)
CompleteWithoutGrant(t) ==
    LET c == call[t] IN
    /\ c.pc = "inspect" /\ Free(t)
    /\ Lock(t)
    /\ Goto(t, [c EXCEPT !.pc = "retroWrite", !.rep = Stamped(c.rep)])
    /\ UNCHANGED <<files, now, ids, faults>>

CompleteRetrospectiveGrant(t) ==
    LET c == call[t] IN
    /\ c.pc = "inspect" /\ Free(t)
    /\ \/ /\ ~GrantLoads(c.owner)
          /\ Return(t)
          /\ UNCHANGED mu
       \/ /\ GrantLoads(c.owner)
          /\ Lock(t)
          /\ Goto(t, [c EXCEPT !.pc = "retroWrite", !.rep = Stamped(c.rep)])
    /\ UNCHANGED <<files, now, ids, faults>>

WriteRetrospectiveReport(t) ==
    LET c == call[t] IN
    /\ c.pc = "retroWrite"
    /\ report' = [report EXCEPT ![c.owner] = c.rep]
    /\ Goto(t, [IdleCall EXCEPT !.pc = "grantRemove", !.owner = c.owner])
    /\ UNCHANGED <<task, batches, retro, mu, now, ids, faults>>

RemoveGrant(t) ==
    /\ call[t].pc = "grantRemove"
    /\ retro' = [retro EXCEPT ![call[t].owner] = None]
    /\ Return(t) /\ Unlock(t)
    /\ UNCHANGED <<task, batches, report, now, ids, faults>>

-----------------------------------------------------------------------------
(* Sweeping expired files and reports beyond the capacity *)

FileIn(dir, o) ==
    CASE dir = "tasks" -> task[o]
      [] dir = "reports" -> report[o]
      [] dir = "grants" -> retro[o]

(* The sweep lists a directory and starts to read its entries. *)
Enter(t, at, dir) ==
    Goto(t, [IdleCall EXCEPT
               !.pc = "sweepRead",
               !.sweep = [at |-> at, dir |-> dir, kept |-> {},
                          left |-> {o \in Owners : FileIn(dir, o) # None}]])

Sweep(t) ==
    /\ Sends("sweep", t) /\ Free(t)
    /\ Lock(t)
    /\ Enter(t, now, "tasks")
    /\ UNCHANGED <<files, now, ids, faults>>

(* Mutant: a file is removed one step of the clock too early. *)
ExpiredEarly(at, file) == at + 1 >= file.expires

Expired(at, file) == at >= file.expires

(* The size of a report file grows with its revisions. *)
Kept(o) == [owner |-> o, size |-> 1 + Len(report[o].revisions),
            created |-> report[o].created, protected |-> report[o].retained]

(* An entry's envelope decides: to be removed, or kept.  An entry that is  *)
(* gone by now ends the sweep.  Only of reports is anything remembered.    *)
SweepRead(t, o) ==
    LET c == call[t]
        s == c.sweep
        next == [s EXCEPT !.left = @ \ {o}]
        file == FileIn(s.dir, o)
    IN
    /\ c.pc = "sweepRead"
    /\ o \in s.left
    /\ \/ /\ file = None
          /\ Return(t) /\ Unlock(t)
       \/ /\ file # None /\ Expired(s.at, file)
          /\ Goto(t, [c EXCEPT !.pc = "sweepRemove", !.owner = o,
                               !.sweep = next])
          /\ UNCHANGED mu
       \/ /\ file # None /\ ~Expired(s.at, file)
          /\ Goto(t, [c EXCEPT !.sweep =
                         IF s.dir = "reports"
                         THEN [next EXCEPT !.kept = @ \cup {Kept(o)}]
                         ELSE next])
          /\ UNCHANGED mu
    /\ UNCHANGED <<files, now, ids, faults>>

Without(dir, file, c) ==
    IF c.sweep.dir = dir THEN [file EXCEPT ![c.owner] = None] ELSE file

(* Removes the entry; the event batches of a task go with it. *)
SweepRemove(t) ==
    LET c == call[t] IN
    /\ c.pc = "sweepRemove"
    /\ \/ /\ FileIn(c.sweep.dir, c.owner) = None
          /\ Return(t) /\ Unlock(t)
          /\ UNCHANGED files
       \/ /\ FileIn(c.sweep.dir, c.owner) # None
          /\ task' = Without("tasks", task, c)
          /\ report' = Without("reports", report, c)
          /\ retro' = Without("grants", retro, c)
          /\ Goto(t, [c EXCEPT !.pc = IF c.sweep.dir = "tasks"
                                      THEN "eventsList" ELSE "sweepRead"])
          /\ UNCHANGED <<batches, mu>>
    /\ UNCHANGED <<now, ids, faults>>

SweepNextDirectory(t) ==
    LET s == call[t].sweep IN
    /\ call[t].pc = "sweepRead"
    /\ s.left = {}
    /\ \/ /\ s.dir = "tasks"
          /\ Enter(t, s.at, "reports")
          /\ UNCHANGED mu
       \/ /\ s.dir = "reports"
          /\ Goto(t, [call[t] EXCEPT !.pc = "evict"])
          /\ UNCHANGED mu
       \/ /\ s.dir = "grants"
          /\ Return(t) /\ Unlock(t)
    /\ UNCHANGED <<files, now, ids, faults>>

(* Mutant: the capacity counts the reports and not their sizes. *)
TotalCount(kept) == Cardinality(kept)

Total(kept) == MapThenSumSet(LAMBDA k : k.size, kept)

(* Mutant: the report created last goes first. *)
NewestUnprotected(kept) ==
    {k \in kept : /\ ~k.protected
                  /\ \A other \in kept :
                        ~other.protected => k.created >= other.created}

(* The reports the loop over the sorted list comes to next. *)
OldestUnprotected(kept) ==
    {k \in kept : /\ ~k.protected
                  /\ \A other \in kept :
                        ~other.protected => k.created <= other.created}

(* Unprotected reports go, oldest first, until the rest fits. *)
Evict(t) ==
    LET c == call[t]
        kept == c.sweep.kept
        oldest == OldestUnprotected(kept)
    IN
    /\ c.pc = "evict"
    /\ \/ /\ Total(kept) <= Capacity \/ oldest = {}
          /\ Enter(t, c.sweep.at, "grants")
          /\ UNCHANGED <<report, mu>>
       \/ /\ Total(kept) > Capacity
          /\ \E k \in oldest :
                /\ report' = [report EXCEPT ![k.owner] = None]
                /\ \/ /\ report[k.owner] # None
                      /\ Goto(t, [c EXCEPT !.sweep.kept = @ \ {k}])
                      /\ UNCHANGED mu
                   \/ /\ report[k.owner] = None
                      /\ Return(t) /\ Unlock(t)
    /\ UNCHANGED <<task, batches, retro, now, ids, faults>>

-----------------------------------------------------------------------------
(* The environment *)

Tick ==
    /\ now < MaxTime
    /\ now' = now + 1
    /\ UNCHANGED <<files, mu, call, ids, faults>>

(* A process is killed between two file operations and started again. *)
Crash(p) ==
    /\ faults < MaxFaults
    /\ faults' = faults + 1
    /\ Die(p)
    /\ UNCHANGED <<files, now, ids>>

FileSteps == {"taskWrite", "batchWrite", "completeMerge", "reportWrite",
              "taskRemove", "eventsList", "eventsRemove", "chainWrite",
              "forgetRemove", "retroWrite", "grantRemove", "sweepRead",
              "sweepRemove", "evict"}

(* A file operation fails without effect; the request returns its error. *)
FileError(t) ==
    /\ faults < MaxFaults
    /\ faults' = faults + 1
    /\ call[t].pc \in FileSteps
    /\ Return(t) /\ Unlock(t)
    /\ UNCHANGED <<files, now, ids>>

(* atomicWriteJSON renames the new file into place and then fails to sync  *)
(* the directory: the write took effect, the client is told it failed.     *)
(* For a report file this is the write followed by FileError.              *)
SyncError(t) ==
    LET c == call[t] IN
    /\ faults < MaxFaults
    /\ faults' = faults + 1
    /\ \/ /\ c.pc = "taskWrite"
          /\ task' = [task EXCEPT ![c.owner] = c.rec]
          /\ UNCHANGED batches
       \/ /\ c.pc = "batchWrite"
          /\ batches' = [batches EXCEPT ![c.owner] =
                @ \cup {[grant |-> c.handle.grant, events |-> c.events]}]
          /\ UNCHANGED task
    /\ Return(t) /\ Unlock(t)
    /\ UNCHANGED <<report, retro, now, ids>>

(* Clients may stop sending requests. *)
Quiet ==
    /\ now = MaxTime
    /\ \A t \in Threads : call[t].pc = "idle"
    /\ UNCHANGED vars

(* A request arrives at thread t. *)
Arrive(t) ==
    \/ Sweep(t)
    \/ \E o \in Owners :
        \/ Begin(t, o)
        \/ \E es \in SUBSET Events : AppendEvents(t, o, es)
        \/ \E g \in GrantIDs, life \in 1..ExecutorLife :
               DelegateOwnedExecutor(t, o, g, life)
        \/ \E h \in issued[o], es \in SUBSET Events :
               AppendOwnedExecutorEvents(t, o, h, es)
        \/ LoadOwnedTaskForEnd(t, o)
        \/ \E present \in SUBSET Candidates : Verify(t, o, present)
        \/ RetainOwnedReport(t, o)
        \/ ForgetOwnedReport(t, o)
        \/ \E revision \in 0..MaxRevisions : Summarize(t, o, revision)
        \/ GrantRetrospective(t, o)
        \/ \E es \in SUBSET Events, found \in SUBSET Candidates :
               InspectCompletedAuthorized(t, o, es, found)

(* Steps that wait for Store.mu, and steps that already hold it. *)
Acquire(t) ==
    \/ AppendOwnedEvents(t)
    \/ CompleteOwnedTask(t)
    \/ AppendOwnedRevision(t)
    \/ GetCandidatePage(t)
    \/ SummarizePanics(t)
    \/ CompleteRetrospectiveGrant(t)

Continue(t) ==
    \/ WriteTask(t)
    \/ WriteBatch(t)
    \/ MergeAndObserve(t)
    \/ CompleteMerge(t)
    \/ WriteReport(t)
    \/ RemoveTask(t)
    \/ ListBatches(t)
    \/ \E b \in call[t].todo : RemoveBatch(t, b)
    \/ RemoveBatchDirectory(t)
    \/ WriteChain(t)
    \/ RemoveReport(t)
    \/ WriteRetrospectiveReport(t)
    \/ RemoveGrant(t)
    \/ \E o \in Owners : SweepRead(t, o)
    \/ SweepRemove(t)
    \/ SweepNextDirectory(t)
    \/ Evict(t)

Next ==
    \/ \E t \in Threads : Arrive(t) \/ Acquire(t) \/ Continue(t)
    \/ \E t \in Threads : FileError(t) \/ SyncError(t)
    \/ \E p \in Procs : Crash(p)
    \/ Tick
    \/ Quiet

Spec == Init /\ [][Next]_vars

(* Go's scheduler runs every runnable handler, and sync.Mutex hands the    *)
(* lock to a waiter that has starved: a handler that can again and again   *)
(* take Store.mu takes it.                                                 *)
FairSpec ==
    /\ Spec
    /\ \A t \in Threads : WF_vars(Continue(t)) /\ SF_vars(Acquire(t))

-----------------------------------------------------------------------------
(* Properties *)

(* Every file, lock, request and counter has its type. *)
TypeOK ==
    /\ task \in [Owners -> TaskFile \cup {None}]
    /\ batches \in [Owners -> SUBSET Batch]
    /\ report \in [Owners -> ReportFile \cup {None}]
    /\ retro \in [Owners -> GrantFile \cup {None}]
    /\ mu \in [Procs -> Threads \cup {None}]
    /\ call \in [Threads -> Call]
    /\ now \in Nat
    /\ used \subseteq Owners
    /\ minted \subseteq GrantIDs
    /\ issued \in [Owners -> SUBSET Handle]
    /\ acked \in [Owners -> SUBSET Events]
    /\ faults \in Nat

(* Revision i of r is numbered i, names the digest of the link before it   *)
(* and carries its own digest.                                             *)
LinkedAt(r, i) ==
    LET rev == r.revisions[i]
        previous == IF i = 1 THEN reportDigest(r.body)
                    ELSE r.revisions[i - 1].digest
    IN  /\ rev.snapshot.revision = i
        /\ rev.previousDigest = previous
        /\ rev.digest = verificationDigest(previous, rev.snapshot)

(* AppendOwnedRevision and the report writers only ever put a digest       *)
(* chained report on disk: every stored revision names the digest of the   *)
(* link before it back to the stored report, whichever processes           *)
(* interleave and wherever they crash.                                     *)
ChainLinked ==
    \A o \in Owners : report[o] # None =>
        \A i \in 1..Len(report[o].revisions) : LinkedAt(report[o], i)

(* Verification does not widen a report (docs/report-contract.md): every   *)
(* stored revision is about exactly the candidates of the stored report,   *)
(* even when Verify read a report that was replaced before it appended.    *)
SameCandidates ==
    \A o \in Owners : report[o] # None =>
        \A i \in 1..Len(report[o].revisions) :
            report[o].revisions[i].snapshot.candidates
                = report[o].body.candidates

(* An append that was answered with success stays on disk as long as the   *)
(* task does: AppendOwnedEvents, DelegateOwnedExecutor and the executor    *)
(* batches of one process never lose each other's events, crashes and      *)
(* failing file operations included.                                       *)
AckedOnDisk ==
    \A o \in Owners : task[o] # None =>
        acked[o] \subseteq task[o].events \cup BatchEvents(batches[o])

(* mergeExecutorEvents never denies an End because of a stored batch: the  *)
(* grant of every batch is in the task record.                             *)
BatchesGranted ==
    \A o \in Owners : task[o] # None => Merges(task[o], batches[o])

(* The request of t is between writing a report and the end of its cleanup. *)
Completing(o) ==
    \E t \in Threads :
        /\ call[t].owner = o
        /\ call[t].pc \in {"taskRemove", "eventsList", "eventsRemove"}

(* Ending an observation revokes its executors: outside CompleteOwnedTask  *)
(* no report has an active task beside it for an executor to append to.    *)
ExecutorsRevoked ==
    \A o \in Owners : ~Completing(o) =>
        (report[o] # None => task[o] = None)

(* Ending an observation is final: outside CompleteOwnedTask a report and  *)
(* an active task never coexist, so no executor can append any more, and   *)
(* no event batch outlives the task it belongs to.                         *)
EndIsFinal ==
    /\ ExecutorsRevoked
    /\ \A o \in Owners : ~Completing(o) =>
           (task[o] = None => batches[o] = {})

(* A retrospective grant is single-use: when CompleteRetrospectiveGrant    *)
(* is about to publish, no report was published for that grant before.     *)
GrantSingleUse ==
    \A t \in Threads : call[t].pc = "retroWrite" =>
        report[call[t].owner] = None

(* Summarize finds the revision its second read allowed in its first. *)
SummaryInRange ==
    \A t \in Threads :
        call[t].pc = "page" /\ PageExists(call[t].owner, call[t].page)
            => call[t].page <= Len(call[t].rep.revisions)

KeepsRevisions(r1, r2) ==
    /\ Len(r1.revisions) <= Len(r2.revisions)
    /\ \A i \in 1..Len(r1.revisions) : r2.revisions[i] = r1.revisions[i]

(* r2 continues the chain r1: same report, r1's revisions first, expiry    *)
(* and retention never taken back.                                         *)
Continues(r1, r2) ==
    /\ r2.body = r1.body
    /\ KeepsRevisions(r1, r2)
    /\ r1.expires <= r2.expires
    /\ r1.retained => r2.retained

(* Reports and revisions are immutable: a rewrite of a report file keeps   *)
(* the report and every revision it holds (Verify, Retain, End).           *)
HistoryAppendOnly ==
    [][\A o \in Owners : report[o] # None /\ report'[o] # None
          => Continues(report[o], report'[o])]_report

(* Verification revisions are immutable: the rewrite of a report file by   *)
(* Verify or Retain keeps every revision the file holds.                   *)
RevisionsKept ==
    [][\A t \in Threads : WriteChain(t) /\ report[call[t].owner] # None
          => KeepsRevisions(report[call[t].owner], report'[call[t].owner])
      ]_report

(* A sweep takes nothing from an active observation: as long as a task     *)
(* loads, its record and the executor batches beside it stay as they are.  *)
SweepSparesActive ==
    [][(\E t \in Threads : call[t].sweep # None) =>
          \A o \in Owners : Loads(o) => /\ task'[o] = task[o]
                                       /\ batches'[o] = batches[o]]_files

Reports == {o \in Owners : report[o] # None}

DiskUse == MapThenSumSet(LAMBDA o : 1 + Len(report[o].revisions), Reports)

(* The capacity costs no report too many and never a retained one: when    *)
(* Evict removes a report, the reports on disk exceed the capacity, the    *)
(* report is not retained, and no unretained report is older.              *)
EvictsOldest ==
    [][\A t \in Threads, o \in Reports :
          call[t].pc = "evict" /\ report'[o] = None =>
              /\ DiskUse > Capacity
              /\ ~report[o].retained
              /\ \A q \in Reports : ~report[q].retained
                    => report[o].created <= report[q].created]_report

(* A sweep does its work: once it is through with the reports, none that   *)
(* had expired is left, and they fit the capacity unless all are retained. *)
SweepBoundsReports ==
    \A t \in Threads :
        call[t].sweep # None /\ call[t].sweep.dir = "grants" =>
            /\ \A o \in Reports : ~Expired(call[t].sweep.at, report[o])
            /\ \/ DiskUse <= Capacity
               \/ \A o \in Reports : report[o].retained

(* A report of a successful observation holds every event that had been    *)
(* acknowledged when LoadOwnedTaskForEnd merged the executor batches.      *)
EndSeesAcked ==
    [][\A t \in Threads :
          call[t].pc = "endMerge" /\ call'[t].pc = "complete"
          /\ call'[t].rep.body.mode = "OBSERVED"
              => acked[call[t].owner] \subseteq call'[t].rep.body.events]_vars

(* Every request returns: no handler waits for Store.mu for ever, and no   *)
(* path leaves it locked.                                                  *)
RequestsReturn ==
    \A t \in Threads : call[t].pc # "idle" ~> call[t].pc = "idle"

-----------------------------------------------------------------------------
(* The promise of ReportChain, read off the files. *)

PhaseOf(o) ==
    IF report[o] # None THEN "published"
    ELSE IF task[o] # None \/ retro[o] # None THEN "open"
    ELSE IF o \in used THEN "gone"
    ELSE "new"

ChainOf(o) ==
    IF report[o] = None THEN <<>>
    ELSE <<report[o].body>> \o [i \in 1..Len(report[o].revisions) |->
                                  report[o].revisions[i].snapshot]

Chain == INSTANCE ReportChain WITH
    phase <- [o \in Owners |-> PhaseOf(o)],
    chain <- [o \in Owners |-> ChainOf(o)]

(* The store of one process in which no file operation fails implements    *)
(* ReportChain: concurrent Ends publish one report, concurrent Verifies    *)
(* extend it one at a time, and a forgotten report never comes back.       *)
ImplementsReportChain == Chain!Spec

=============================================================================
