------------------------------- MODULE Intake -------------------------------
(***************************************************************************)
(* How the events of one observation become the summary a client reads:    *)
(* internal/event, internal/group, internal/pathalias, and how the service *)
(* of internal/app uses them with internal/correlate.                      *)
(*                                                                         *)
(* The owner names files by path, an executor by alias, within the roots   *)
(* and types it was given.  End expands the aliases, binds events to the   *)
(* candidates that were found and hides their paths behind aliases again;  *)
(* Verify adds revisions, and a client reads groups of candidates page by  *)
(* page.  Meanwhile the roots are replaced and a link is put on a path.    *)
(* The store's files, locks and clock are in OwnedStore, the scans in      *)
(* FsScan and Attribution.                                                 *)
(***************************************************************************)
EXTENDS Grouping

CONSTANTS
    Scopes,         \* the lists of roots a client may ask for
    Home,           \* the user's home directory
    Task,           \* the task's identifier
    OwnerInputs,    \* the events the owner may submit
    ExecutorInputs, \* the events an executor may submit
    Grants,         \* the executors that may be delegated: [types, roots]
    Links,          \* the links there may be, one at a time
    Names,          \* the names of files, in their order
    Tree,           \* the paths that may have candidates: [path, dir]
    Identities,     \* the identities a root may have, 0 when it is gone
    Found,          \* the statuses Verify finds
    MaxOutputs,     \* limit of outputs an event declares
    MaxBatch,       \* limit of events in a batch
    MaxProvenance,  \* limit of events a candidate cites
    MaxPage,        \* limit of groups on a page
    MaxStored,      \* bound: events stored
    MaxRevisions,   \* bound: verification revisions
    None

ASSUME LimitsAssumption ==
    /\ MaxOutputs \in Nat /\ MaxBatch \in Nat
    /\ MaxProvenance \in Nat /\ MaxPage \in Nat \ {0}
    /\ MaxStored \in Nat /\ MaxRevisions \in Nat

ASSUME IdentitiesAssumption == Identities \subseteq Nat /\ 1 \in Identities

ASSUME PathsAssumption ==
    /\ \A scope \in Scopes : scope \in Seq(Path)
    /\ \A n \in Tree : n.path \in Path /\ n.dir \in BOOLEAN
    /\ \A m, n \in Tree : m.path = n.path => m = n
    /\ IsFiniteSet(Tree)

ASSUME NamesAssumption ==
    /\ Names \in Seq(Name)
    /\ \A i, j \in DOMAIN Names : Names[i] = Names[j] => i = j
    /\ \A n \in Tree : Range(n.path) \subseteq Range(Names)

ASSUME InputsAssumption ==
    /\ \A e \in OwnerInputs \cup ExecutorInputs :
          e.outputs \subseteq Texts /\ e.wd \in Texts \cup {None}
    /\ \A g \in Grants : g.roots \subseteq Texts
    /\ None \notin Grants

ASSUME LinksAssumption == <<>> \in Links

VARIABLES
    identity,   \* the identity of the directory at each root's path
    links,      \* the links there are
    phase,      \* "idle", "active" or "completed"
    roots,      \* the validated scope
    aliases,    \* the alias table of the task or of the report
    grants,     \* the executors delegated so far
    events,     \* the event summaries stored, with who appended them
    report,     \* the candidates of the report
    targets,    \* ExactTargets: the path of each candidate that has one
    revisions,  \* the candidates of each verification revision
    reader      \* a client that reads pages: revision, limit, cursor, groups

world == <<identity, links>>
task == <<phase, roots, aliases, grants, events>>
chain == <<report, targets, revisions>>
vars == <<world, task, chain, reader>>

RootPaths == UNION {Range(s) : s \in {s \in Scopes : Validate(s, Home)}}

Owner == None

Init ==
    /\ identity = [r \in RootPaths |-> 1] /\ links = <<>>
    /\ phase = "idle" /\ roots = <<>> /\ aliases = <<>>
    /\ grants = {} /\ events = {}
    /\ report = {} /\ targets = <<>> /\ revisions = <<>>
    /\ reader = None

-----------------------------------------------------------------------------
(* The file system *)

ReplaceRoot(r) ==
    /\ \E i \in Identities \ {identity[r]} :
          identity' = [identity EXCEPT ![r] = i]
    /\ UNCHANGED <<links, task, chain, reader>>

Relink ==
    /\ phase # "completed"
    /\ links' \in Links \ {links}
    /\ UNCHANGED <<identity, task, chain, reader>>

-----------------------------------------------------------------------------
(* Events on their way in *)

Begin(scope) ==
    /\ phase = "idle"
    /\ Validate(scope, Home)
    /\ \A r \in Range(scope) : identity[r] # 0
    /\ phase' = "active" /\ roots' = scope /\ aliases' = New(scope, identity)
    /\ UNCHANGED <<world, grants, events, chain, reader>>

EventTypes ==
    {"command_started", "command_completed", "process_started",
     "process_exited", "artifact_declared", "test_phase_started",
     "test_phase_completed", "cleanup_attempted"}

(* Validate of an event; wellFormed stands for the fields that are text    *)
(* and for the process, which no property tells apart.                     *)
ValidEvent(e) ==
    /\ e.wellFormed /\ e.type \in EventTypes
    /\ Cardinality(e.outputs) <= MaxOutputs

(* What Normalize and normalizeExecutorEvents both ask of a batch *)
Acceptable(batch) ==
    /\ Cardinality(batch) <= MaxBatch
    /\ \A e \in batch : ValidEvent(e)
    /\ \A e, f \in batch : e.id = f.id => e = f

(* Batches up to one event too many *)
Batches(inputs) ==
    UNION {kSubset(n, inputs) : n \in 0..(MaxBatch + 1)}

OwnerBatches == Batches(OwnerInputs)

ExecutorBatches == Batches(ExecutorInputs)

Summary(e, by, wd, outputs) ==
    [id |-> e.id, type |-> e.type, by |-> by, wd |-> wd, outputs |-> outputs]

Exact(path) == Text("absolute", 0, path)

(* A path below a root that has gone is refused. *)
ScopedPath(text, base, scope) ==
    LET path == NormalizeScopedPath(text, base, scope, links)
    IN  IF \E r \in Range(scope) : PathWithin(r, path) /\ identity[r] = 0
        THEN NoPath ELSE path

(* Mutant: an alias is kept as it is written. *)
OutputKeepingAlias(text, base, scope) ==
    IF text.form = "alias" THEN text
    ELSE Exact(ScopedPath(text, base, scope))

Output(text, base, scope) == Exact(ScopedPath(text, base, scope))

(* Normalize of one event: its paths as exact ones, outputs relative to    *)
(* the working directory or else to the workspace.  None is an error.      *)
Normalize(e, scope) ==
    LET wd == IF e.wd = None THEN None
              ELSE Exact(ScopedPath(e.wd, NoPath, scope))
        base == IF e.wd = None THEN scope[1] ELSE wd.parts
        outputs == {Output(text, base, scope) : text \in e.outputs}
    IN  IF e.task # Task \/ Exact(NoPath) \in outputs \cup {wd} THEN None
        ELSE Summary(e, Owner, wd, outputs)

(* The order of the events matters to nothing that follows. *)
Store(summaries) ==
    /\ Cardinality(events \cup summaries) <= MaxStored
    /\ events' = events \cup summaries
    /\ UNCHANGED <<world, phase, roots, aliases, grants, chain, reader>>

AppendEvents ==
    /\ phase = "active"
    /\ \E batch \in OwnerBatches :
          LET summaries == {Normalize(e, roots) : e \in batch}
          IN  /\ Acceptable(batch) /\ None \notin summaries
              /\ Store(summaries)

DelegateExecutor(g) ==
    /\ phase = "active"
    /\ grants' = grants \cup {g}
    /\ UNCHANGED <<world, phase, roots, aliases, events, chain, reader>>

Paths(e) == e.outputs \cup (IF e.wd = None THEN {} ELSE {e.wd})

SafeAlias(text) == text.form = "alias" /\ ~HasTraversal(text.parts)

(* Without the slash it ends in *)
TrimSuffix(parts) ==
    IF parts # <<>> /\ parts[Len(parts)] = Empty
    THEN SubSeq(parts, 1, Len(parts) - 1) ELSE parts

(* Mutant: an executor without a root may name any. *)
AllowedAliasByDefault(allowed, text) ==
    \/ allowed = {}
    \/ \E root \in allowed :
          text.root = root.root /\ PathWithin(root.parts, text.parts)

(* The word `workspace' in a grant is its alias. *)
AllowedAlias(allowed, text) ==
    \E root \in allowed :
        /\ text.root = root.root
        /\ \/ text.parts = root.parts
           \/ Descendant(TrimSuffix(root.parts), text.parts)

(* An executor without named types may use every type. *)
ExecutorAllows(types, e) == types # {} => e.type \in types

(* normalizeExecutorEvents; an executor without named roots may name no    *)
(* path.  The task's identifier is not looked at.                          *)
AppendExecutorEvents(g) ==
    /\ phase = "active" /\ g \in grants
    /\ \E batch \in ExecutorBatches :
          /\ Acceptable(batch)
          /\ \A e \in batch :
                /\ ExecutorAllows(g.types, e)
                /\ \A text \in Paths(e) :
                      SafeAlias(text) /\ AllowedAlias(g.roots, text)
          /\ Store({Summary(e, g, e.wd, e.outputs) : e \in batch})

-----------------------------------------------------------------------------
(* The report *)

Expand(text) ==
    IF text.form = "alias" THEN Resolve(aliases, identity, text)
    ELSE text.parts

(* expandAliasedEvents succeeds *)
Expandable(evs) == \A e \in evs : \A text \in Paths(e) : Expand(text) # NoPath

Matching(evs, path) ==
    {e \in evs : \E text \in e.outputs : Expand(text) = path}

(* BuildReport, for files: the events that declare a candidate's path are  *)
(* cited, and an attempted cleanup of what is still there is a conflict.   *)
(* The digest a candidate is known by commits to its exact path.           *)
BuildReport(found, evs, baseline) ==
    {LET m == Matching(evs, f.path)
     IN  [id |-> f.path, path |-> f.path, dir |-> f.dir, status |-> f.status,
          conflict |-> \E e \in m : e.type = "cleanup_attempted",
          level |-> IF baseline THEN "BASELINE_OBSERVED"
                    ELSE IF m = {} THEN "UNATTRIBUTED" ELSE "EVENT_BOUND"] :
        f \in found}

(* Validate of the report and its candidates: none cites more events than  *)
(* fit.  What else it asks holds of every report BuildReport makes.        *)
ValidReport(found, evs) ==
    \A f \in found :
        Cardinality({e.id : e \in Matching(evs, f.path)}) <= MaxProvenance

(* projectReportPaths, and the report that is stored with its targets *)
Complete(candidates, table) ==
    /\ \A c \in candidates : Project(table, c.path).form = "alias"
    /\ phase' = "completed" /\ aliases' = table
    /\ grants' = {} /\ events' = {}
    /\ report' = {[c EXCEPT !.path = Project(table, @)] : c \in candidates}
    /\ targets' = [id \in {c.id : c \in candidates} |-> id]
    /\ UNCHANGED <<world, roots, revisions, reader>>

(* What a scan of a scope finds: some of its tree, a status for each. *)
Scans ==
    [scope \in Scopes |->
        LET nodes == {n \in Tree :
                         \E r \in Range(scope) : PathWithin(r, n.path)}
        IN  UNION {{{[path |-> n.path, dir |-> n.dir, status |-> st[n]] :
                         n \in found} :
                    st \in [found -> {"PRESENT", "CHANGED_SINCE_REPORT"}]} :
                   found \in SUBSET nodes}]

SameRoots == \A i \in DOMAIN aliases :
                 identity[aliases[i].path] = aliases[i].identity

(* End.  When an alias cannot be expanded, or the report is not valid, it  *)
(* returns an error and the task stays as it is.                           *)
End ==
    /\ phase = "active" /\ Expandable(events) /\ SameRoots
    /\ \E found \in Scans[roots] :
          /\ ValidReport(found, events)
          /\ Complete(BuildReport(found, events, TRUE), aliases)

(* Compare fails, because a root was replaced or for another reason: the   *)
(* task is completed with a failure report, without targets or aliases.    *)
EndFailed ==
    /\ phase = "active" /\ Expandable(events)
    /\ Complete({}, <<>>)

(* InspectCompletedAuthorized *)
Inspect(scope) ==
    /\ phase = "idle"
    /\ Validate(scope, Home)
    /\ \A r \in Range(scope) : identity[r] # 0
    /\ \E batch \in OwnerBatches, found \in Scans[scope] :
          LET summaries == {Normalize(e, scope) : e \in batch}
          IN  /\ Acceptable(batch) /\ None \notin summaries
              /\ \A f \in found : f.status = "PRESENT"
              /\ ValidReport(found, summaries)
              /\ Complete(BuildReport(found, summaries, FALSE),
                          New(scope, identity))

-----------------------------------------------------------------------------
(* What clients do with the report *)

Latest == IF revisions = <<>> THEN report ELSE revisions[Len(revisions)]

(* Verify gives every candidate its current status, by its exact target. *)
Verify ==
    /\ phase = "completed" /\ Len(revisions) < MaxRevisions
    /\ \E status \in [{c.id : c \in Latest} -> Found] :
          revisions' = Append(revisions,
              {[c EXCEPT !.status = status[c.id]] : c \in Latest})
    /\ UNCHANGED <<world, task, report, targets, reader>>

Denied == <<"denied">>

(* Mutant: the target is told without looking at the root. *)
ResolveStored(id) ==
    IF id \notin DOMAIN targets THEN Denied ELSE targets[id]

(* ResolveCandidate *)
ResolveCandidate(id) ==
    IF id \notin DOMAIN targets THEN Denied
    ELSE LET c == CHOOSE c \in report : c.id = id
         IN  IF Resolve(aliases, identity, c.path) # targets[id] THEN Denied
             ELSE targets[id]

Rank(name) == CHOOSE i \in DOMAIN Names : Names[i] = name

(* Aliases are compared as they are written: `temp://0' to `temp://9' come *)
(* before `workspace://', and then the names decide.                       *)
Before(p, q) ==
    \/ p.root # 1 /\ (q.root = 1 \/ p.root < q.root)
    \/ /\ p.root = q.root
       /\ \/ Descendant(p.parts, q.parts)
          \/ \E i \in DOMAIN p.parts \cap DOMAIN q.parts :
                /\ \A j \in 1..(i - 1) : p.parts[j] = q.parts[j]
                /\ Rank(p.parts[i]) < Rank(q.parts[i])

Sorted(candidates) ==
    CHOOSE s \in [1..Cardinality(candidates) -> candidates] :
        /\ Range(s) = candidates
        /\ \A i, j \in DOMAIN s : i < j => Before(s[i].path, s[j].path)

Groups(candidates) == Candidates(Sorted(candidates))

(* Mutant: the newest candidates are paged, whichever revision was asked. *)
LatestOf(revision) == Latest

(* The candidates of a revision; 0 is the report (GetCandidatePage). *)
CandidatesOf(revision) ==
    IF revision = 0 THEN report ELSE revisions[revision]

(* Summarize, for a client that starts to read and for one that goes on *)
ReadPage(revision, start, limit, before) ==
    /\ phase = "completed" /\ revision <= Len(revisions)
    /\ limit \in 1..MaxPage
    /\ LET groups == Groups(CandidatesOf(revision))
           page == Page(groups, start, limit)
       IN  /\ start <= Len(groups)
           /\ reader' = [revision |-> revision, limit |-> limit,
                         next |-> page.next, total |-> page.total,
                         groups |-> before \o page.items]
    /\ UNCHANGED <<world, task, chain>>

FirstPage(revision, limit) ==
    /\ (reader # None => reader.next = 0)
    /\ ReadPage(revision, 0, limit, <<>>)

NextPage ==
    /\ reader # None /\ reader.next # 0
    /\ ReadPage(reader.revision, reader.next, reader.limit, reader.groups)

Next ==
    \/ \E r \in RootPaths : ReplaceRoot(r)
    \/ Relink
    \/ \E scope \in Scopes : Begin(scope) \/ Inspect(scope)
    \/ AppendEvents
    \/ \E g \in Grants : DelegateExecutor(g) \/ AppendExecutorEvents(g)
    \/ End \/ EndFailed
    \/ Verify
    \/ \E revision \in 0..MaxRevisions, limit \in 1..MaxPage :
          FirstPage(revision, limit)
    \/ NextPage

Spec == Init /\ [][Next]_vars

-----------------------------------------------------------------------------
(* Properties *)

Candidate ==
    [id: {n.path : n \in Tree}, dir: BOOLEAN, conflict: BOOLEAN,
     status: {"PRESENT", "CHANGED_SINCE_REPORT"} \cup Found,
     level: {"BASELINE_OBSERVED", "EVENT_BOUND", "UNATTRIBUTED"},
     path: {Project(aliases, n.path) : n \in Tree}]

(* The types of the task, of the report and its revisions; stored paths    *)
(* are clean, and paths of candidates are aliases of bound roots           *)
(* (normalizeScopedPath, projectReportPaths).                              *)
TypeOK ==
    /\ identity \in [RootPaths -> Identities] /\ links \in Links
    /\ phase \in {"idle", "active", "completed"}
    /\ grants \subseteq Grants
    /\ \A e \in events : \A text \in Paths(e) :
          text.form = "absolute" => text.parts = Clean(text.parts)
    /\ report \subseteq Candidate
    /\ DOMAIN targets = {c.id : c \in report}
    /\ \A n \in DOMAIN revisions : revisions[n] \subseteq Candidate

(* What an executor declares is evidence only for candidates below a root  *)
(* it was given, in the directory that was bound to that root at Begin,    *)
(* however the text of its aliases and of its grant is spelt               *)
(* (normalizeExecutorEvents, allowedAlias, expandAliasedEvents, Resolve).  *)
(* The directory is the one of Begin when aliases are expanded; End is one *)
(* step here, and what replaces a root during its scan is in FsScan.       *)
BoundWithinGrant ==
    [][phase = "active" =>
          \A c \in report' :
              \A e \in {e \in Matching(events, c.id) : e.by # Owner} :
                  \E g \in e.by.roots :
                      /\ g.root \in DOMAIN aliases
                      /\ PathWithin(Clean(aliases[g.root].path \o g.parts), c.id)
                      /\ identity[aliases[g.root].path]
                             = aliases[g.root].identity]_report

(* No path the owner declares stops End by failing to expand, whatever     *)
(* happens to the roots; an executor's does only when it names a root that *)
(* is not bound or was replaced, or an absolute path behind the alias      *)
(* (Normalize, safeAlias, expandAliasedEvents).                            *)
EndStoppedBy ==
    \A e \in events : \A text \in Paths(e) :
        Expand(text) = NoPath =>
            /\ e.by # Owner
            /\ \/ text.root \notin DOMAIN aliases
               \/ identity[aliases[text.root].path]
                      # aliases[text.root].identity
               \/ IsAbs(text.parts)

(* A path that an event of the owner names lies below a root when it is    *)
(* stored, by its names and where links lead (normalizeScopedPath).        *)
StoredInScope ==
    [][\A e \in events' \ events : e.by = Owner =>
          \A text \in Paths(e) : \E i \in DOMAIN roots :
              /\ PathWithin(roots[i], text.parts)
              /\ PathWithin(EvalSymlinks(links, roots[i]),
                            EvalSymlinks(links, text.parts))]_events

(* The path told for a candidate is the one that was observed, and it is   *)
(* told exactly while its root is the directory that was bound: hiding a   *)
(* path behind an alias loses nothing (Project, Resolve, ResolveCandidate).*)
ResolvesToTarget ==
    \A c \in report :
        LET bound == CHOOSE i \in DOMAIN aliases :
                         PathWithin(aliases[i].path, c.id)
        IN  ResolveCandidate(c.id) =
                IF identity[aliases[bound].path] = aliases[bound].identity
                THEN c.id ELSE Denied

(* A summary covers every candidate, with its own level and status, and    *)
(* counts it once, except below a directory whose cleanup failed: that has *)
(* a group of its own, and what is in it may be counted with the directory *)
(* above as well (Candidates).                                             *)
CoveredOnce ==
    \A n \in 0..Len(revisions) :
        LET candidates == CandidatesOf(n)
            groups == Range(Groups(candidates))
        IN  \A c \in candidates :
                LET holding == {g \in groups : c \in g.members}
                IN  /\ holding # {}
                    /\ \A g \in holding : /\ g.head.level = c.level
                                          /\ g.head.status = c.status
                    /\ \A g, h \in holding :
                          g # h => g.head.conflict \/ h.head.conflict

(* A client that follows the cursors to the end has read every group of    *)
(* the revision it asked for once and in order, with the total every page  *)
(* told, though revisions are added while it reads (Page, Summarize).      *)
PagesComplete ==
    reader # None =>
        LET groups == Groups(CandidatesOf(reader.revision))
        IN  /\ reader.total = Len(groups)
            /\ Len(reader.groups) <= Len(groups)
            /\ reader.groups = SubSeq(groups, 1, Len(reader.groups))
            /\ reader.next = 0 => reader.groups = groups

=============================================================================
