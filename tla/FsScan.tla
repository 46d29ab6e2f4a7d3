------------------------------- MODULE FsScan -------------------------------
(***************************************************************************)
(* What a report says of the files of a task: internal/fsobserve, the file *)
(* part of internal/correlate, and how End, InspectCompletedAuthorized and *)
(* Verify of internal/app use them.                                        *)
(*                                                                         *)
(* A scan identifies the root, lists a directory, and asks for one entry   *)
(* at a time; the task's files are created, written and deleted, and the   *)
(* root itself replaced, between any two of these steps.                   *)
(***************************************************************************)
EXTENDS Integers, FiniteSets

CONSTANTS
    Paths,       \* the paths below the root
    ParentOf,    \* the directory of each path
    Root,        \* the root directory
    Inodes,      \* inode numbers; one is used again once its file has gone
    RootInodes,  \* those a directory at the root's path may have
    Sizes,       \* file sizes
    Events,      \* events that may name a path: [path, receipt, cleanup]
    Window,      \* the times of the retrospective window
    MaxEntries,  \* limit of a scan
    MaxChanges,  \* bound: changes to the file system
    None         \* no file

ASSUME ParentAssumption == ParentOf \in [Paths -> (Paths \cup {Root})]

ASSUME LimitsAssumption == MaxEntries \in Nat /\ MaxChanges \in Nat

ASSUME EventsAssumption ==
    Events \subseteq [path: Paths, receipt: BOOLEAN, cleanup: BOOLEAN]

ASSUME RootAssumption ==
    Root \notin Paths /\ None \notin Paths /\ None \notin RootInodes

(* Every path lies below the root: who goes up from a path meets the root. *)
ASSUME BelowAssumption ==
    \A S \in SUBSET (Paths \cup {Root}) :
        S # {} /\ (\A p \in S \cap Paths : ParentOf[p] \in S) => Root \in S

VARIABLES
    tree,      \* the files that exist now
    rootID,    \* the identity of the directory at the root's path
    clock,     \* changes so far; a change gives a file the next time
    phase,     \* what the service is doing
    rootSeen,  \* root identity read by the scan, None before
    todo,      \* paths listed and not yet visited
    entries,   \* what the scan has recorded
    base,      \* the baseline: root identity and entries
    report,    \* status and candidates
    ghost      \* times: scan began, baseline scan began and ended, root made

service == <<phase, rootSeen, todo, entries, base, report>>
vars == <<tree, rootID, clock, service, ghost>>

Object == [ino: Inodes, size: Sizes, mtime: 1..MaxChanges]

ASSUME NoneAssumption == None \notin Object

IsDir(p) == \E q \in Paths : ParentOf[q] = p

Children(tr, dir) == {p \in Paths : ParentOf[p] = dir /\ tr[p] # None}

Nothing == [p \in Paths |-> None]

Recorded(es) == {p \in Paths : es[p] # None}

Levels == {"UNATTRIBUTED", "EVENT_BOUND", "RECEIPT_BOUND", "BASELINE_OBSERVED"}

Status == {"PRESENT", "CHANGED_SINCE_REPORT", "NO_LONGER_PRESENT", "UNKNOWN"}

Candidate == [ino: Inodes, size: Sizes, level: Levels, cites: SUBSET Events,
              conflict: BOOLEAN, status: Status]

NoReport == [status |-> "NONE", candidates |-> <<>>]

(* Mutant: a failure report has what the scan had recorded. *)
PartialReport == [status |-> "OBSERVATION_FAILED", candidates |-> entries]

(* failureReport *)
FailureReport == [status |-> "OBSERVATION_FAILED", candidates |-> <<>>]

Init ==
    /\ tree = Nothing /\ rootID \in RootInodes /\ clock = 0
    /\ phase = "idle" /\ rootSeen = None /\ todo = {} /\ entries = Nothing
    /\ base = [root |-> None, entries |-> Nothing]
    /\ report = NoReport
    /\ ghost = [scan |-> 0, baseFrom |-> 0, baseTo |-> 0, root |-> 0]

-----------------------------------------------------------------------------
(* The file system.  Adding or removing an entry changes its directory.    *)

Touched(tr, p) ==
    IF p \in Paths /\ tr[p] # None
    THEN [tr EXCEPT ![p].mtime = clock + 1] ELSE tr

Changes == clock < MaxChanges /\ clock' = clock + 1

Create(p, ino, size) ==
    /\ Changes
    /\ tree[p] = None
    /\ ParentOf[p] \in Recorded(tree) \cup {Root}
    /\ \A q \in Paths : tree[q] # None => tree[q].ino # ino
    /\ tree' = Touched([tree EXCEPT ![p] = [ino |-> ino, size |-> size,
                                            mtime |-> clock + 1]], ParentOf[p])
    /\ UNCHANGED <<rootID, service, ghost>>

WriteFile(p, size) ==
    /\ Changes
    /\ tree[p] # None /\ ~IsDir(p)
    /\ tree' = [tree EXCEPT ![p].size = size, ![p].mtime = clock + 1]
    /\ UNCHANGED <<rootID, service, ghost>>

Delete(p) ==
    /\ Changes
    /\ tree[p] # None /\ Children(tree, p) = {}
    /\ tree' = Touched([tree EXCEPT ![p] = None], ParentOf[p])
    /\ UNCHANGED <<rootID, service, ghost>>

(* The root is removed and made again, empty.  The new directory may have  *)
(* the inode number of the old one.                                        *)
ReplaceRoot(ino) ==
    /\ Changes
    /\ rootID' = ino
    /\ tree' = Nothing
    /\ ghost' = [ghost EXCEPT !.root = clock + 1]
    /\ UNCHANGED service

-----------------------------------------------------------------------------
(* snapshot *)

Scanning == phase \in {"capture", "compare", "inspect"}

StartScan(next) ==
    /\ phase' = next
    /\ rootSeen' = rootID
    /\ todo' = {Root} /\ entries' = Nothing
    /\ ghost' = [ghost EXCEPT !.scan = clock]
    /\ UNCHANGED <<tree, rootID, clock, base, report>>

(* WalkDir: the function records an entry, then its directory is listed.   *)
(* The order among siblings is left open.                                  *)
Visit(p) ==
    /\ Scanning /\ p \in todo
    /\ p \in Recorded(tree) \cup {Root}
    /\ p # Root => Cardinality(Recorded(entries)) < MaxEntries
    /\ todo' = (todo \ {p}) \cup Children(tree, p)
    /\ entries' = IF p = Root THEN entries ELSE [entries EXCEPT ![p] = tree[p]]
    /\ UNCHANGED <<tree, rootID, clock, phase, rootSeen, base, report, ghost>>

Done(next, newBase, newReport) ==
    /\ phase' = next
    /\ base' = newBase /\ report' = newReport
    /\ rootSeen' = None /\ todo' = {} /\ entries' = Nothing
    /\ UNCHANGED <<tree, rootID, clock>>

NoBase == [root |-> None, entries |-> Nothing]

(* A scan fails as a whole: a listed entry that has gone, the entry and    *)
(* byte limits, the time limit, an unreadable directory.  Begin and        *)
(* InspectCompletedAuthorized then return the error; End completes the     *)
(* task with a failure report.                                             *)
ScanFails ==
    /\ Scanning /\ todo # {}
    /\ IF phase = "compare" THEN Done("reported", NoBase, FailureReport)
       ELSE Done("idle", NoBase, NoReport)
    /\ UNCHANGED ghost

Begin ==
    /\ phase = "idle"
    /\ StartScan("capture")

Capture ==
    /\ phase = "capture" /\ todo = {}
    /\ Done("active", [root |-> rootSeen, entries |-> entries], NoReport)
    /\ ghost' = [ghost EXCEPT !.baseFrom = ghost.scan, !.baseTo = clock]

End ==
    /\ phase = "active"
    /\ StartScan("compare")

-----------------------------------------------------------------------------
(* Candidates and their evidence *)

EventMatchesCandidate(e, p) == e.path = p

(* Mutant: a receipt counts as any other event. *)
BoundAsEvent(e) == "EVENT_BOUND"

Bound(e) == IF e.receipt THEN "RECEIPT_BOUND" ELSE "EVENT_BOUND"

Rank(level) ==
    CASE level = "UNATTRIBUTED" -> 0
      [] level = "EVENT_BOUND" -> 2
      [] level = "RECEIPT_BOUND" -> 3
      [] level = "BASELINE_OBSERVED" -> 4

(* strongerEvidence over all matching events *)
StrongerEvidence(level, evs) ==
    LET found == {level} \cup {Bound(e) : e \in evs}
    IN  CHOOSE l \in found : \A m \in found : Rank(m) <= Rank(l)

(* BuildReport makes the candidates of a scan, given which paths they are, *)
(* the level and the status each starts with.  Cleaning up an object that  *)
(* is still there is a conflict.                                           *)
BuildReport(paths, evs, level, status, limited) ==
    [status |-> IF limited THEN "PARTIAL_EVIDENCE"
                ELSE IF paths = {} THEN "NO_CANDIDATES" ELSE "REVIEW_REQUIRED",
     candidates |->
        [p \in paths |->
            LET matching == {e \in evs : EventMatchesCandidate(e, p)}
            IN  [ino |-> entries[p].ino, size |-> entries[p].size,
                 level |-> StrongerEvidence(level, matching),
                 cites |-> matching,
                 conflict |-> \E e \in matching : e.cleanup,
                 status |-> status[p]]]]

(* Mutant: the modification time is not compared. *)
ChangedIdentity(p) ==
    \/ base.entries[p] = None
    \/ entries[p].ino # base.entries[p].ino
    \/ entries[p].size # base.entries[p].size

(* The entries Compare reports: new ones, and those whose identity, size,  *)
(* or modification time is another one.                                    *)
Changed(p) == base.entries[p] = None \/ entries[p] # base.entries[p]

(* Mutant: the root is not compared. *)
AnyRoot == TRUE

SameRoot == rootSeen = base.root

(* limited: the processes could not all be looked at. *)
Compare(evs, limited) ==
    /\ phase = "compare" /\ todo = {}
    /\ Done("reported", NoBase,
            IF ~SameRoot THEN FailureReport
            ELSE BuildReport({p \in Recorded(entries) : Changed(p)}, evs,
                    "BASELINE_OBSERVED",
                    [p \in Paths |-> IF base.entries[p] = None THEN "PRESENT"
                                     ELSE "CHANGED_SINCE_REPORT"],
                    limited))
    /\ UNCHANGED ghost

StartInspect ==
    /\ phase = "idle"
    /\ StartScan("inspect")

(* retrospectiveCandidates: what was modified within the window; such a    *)
(* report is always partial.                                               *)
InspectCompletedAuthorized(evs) ==
    /\ phase = "inspect" /\ todo = {}
    /\ Done("reported", NoBase,
            BuildReport({p \in Recorded(entries) : entries[p].mtime \in Window},
                        evs, "UNATTRIBUTED", [p \in Paths |-> "PRESENT"], TRUE))
    /\ UNCHANGED ghost

(* Mutant: the sizes are compared the wrong way round. *)
VerifyGrown(p) ==
    IF tree[p] = None THEN "NO_LONGER_PRESENT"
    ELSE IF \/ tree[p].ino # report.candidates[p].ino
            \/ tree[p].size >= report.candidates[p].size
    THEN "CHANGED_SINCE_REPORT" ELSE "PRESENT"

VerifyCandidate(p) ==
    IF tree[p] = None THEN "NO_LONGER_PRESENT"
    ELSE IF \/ tree[p].ino # report.candidates[p].ino
            \/ tree[p].size # report.candidates[p].size
    THEN "CHANGED_SINCE_REPORT" ELSE "PRESENT"

(* Verify looks at one candidate after the other; one it cannot look at is *)
(* unknown.                                                                *)
Verify(p) ==
    /\ phase = "reported" /\ p \in DOMAIN report.candidates
    /\ \E status \in {VerifyCandidate(p), "UNKNOWN"} :
          report' = [report EXCEPT !.candidates[p].status = status]
    /\ UNCHANGED <<tree, rootID, clock, phase, rootSeen, todo, entries, base,
                   ghost>>

Next ==
    \/ \E p \in Paths, ino \in Inodes, size \in Sizes : Create(p, ino, size)
    \/ \E p \in Paths, size \in Sizes : WriteFile(p, size)
    \/ \E p \in Paths : Delete(p)
    \/ \E ino \in RootInodes : ReplaceRoot(ino)
    \/ Begin
    \/ Capture
    \/ End
    \/ \E p \in Paths \cup {Root} : Visit(p)
    \/ ScanFails
    \/ \E evs \in SUBSET Events, limited \in BOOLEAN : Compare(evs, limited)
    \/ StartInspect
    \/ \E evs \in SUBSET Events : InspectCompletedAuthorized(evs)
    \/ \E p \in Paths : Verify(p)

Spec == Init /\ [][Next]_vars

-----------------------------------------------------------------------------
(* Properties *)

(* The types of the tree, of both scans and of the report, whose           *)
(* candidates are complete whichever scan it comes from (candidateFor).    *)
TypeOK ==
    /\ tree \in [Paths -> Object \cup {None}]
    /\ rootID \in RootInodes /\ clock \in 0..MaxChanges
    /\ phase \in {"idle", "capture", "active", "compare", "inspect", "reported"}
    /\ rootSeen \in RootInodes \cup {None}
    /\ todo \subseteq Paths \cup {Root}
    /\ entries \in [Paths -> Object \cup {None}]
    /\ base.entries \in [Paths -> Object \cup {None}]
    /\ DOMAIN report.candidates \subseteq Paths
    /\ \A p \in DOMAIN report.candidates : report.candidates[p] \in Candidate
    /\ ghost \in [{"scan", "baseFrom", "baseTo", "root"} -> 0..MaxChanges]

Reported == phase' = "reported" /\ report'.status # "OBSERVATION_FAILED"

(* A comparison that succeeds is exact for all that holds still: what was  *)
(* created or changed after Begin and before End is a candidate, what has  *)
(* not been touched since Begin is not, however the rest of the tree moves *)
(* during both scans and whichever inodes are used again (Compare).        *)
DiffExact ==
    [][phase = "compare" /\ Reported =>
          \A p \in Paths : tree[p] # None =>
              /\ tree[p].mtime \in (ghost.baseTo + 1)..ghost.scan
                     => p \in DOMAIN report'.candidates
              /\ tree[p].mtime <= ghost.baseFrom
                     => p \notin DOMAIN report'.candidates]_phase

(* When the root was replaced after Begin, End makes a report only if the  *)
(* new directory has the inode number of the one Begin saw, and then no    *)
(* file of the new directory passes for one of the baseline: all that was  *)
(* there when End began, and still is, is a candidate (Compare).           *)
ReplacedRootShown ==
    [][phase = "compare" /\ Reported /\ ghost.root > ghost.baseTo =>
          /\ rootSeen = base.root
          /\ \A p \in Paths : tree[p] # None /\ tree[p].mtime <= ghost.scan
                 => p \in DOMAIN report'.candidates]_phase

(* The level of a candidate is the strongest that a baseline, or else the  *)
(* events it cites, support: a comparison claims the baseline, whatever    *)
(* the limitations of the report; an inspection never does; and Verify     *)
(* changes neither the level nor what is cited (BuildReport,               *)
(* strongerEvidence).                                                      *)
StrongestEvidence ==
    [][\A p \in DOMAIN report'.candidates :
          LET c == report'.candidates[p] IN
          /\ phase = "compare" => c.level = "BASELINE_OBSERVED"
          /\ phase = "inspect" =>
                /\ c.level = "UNATTRIBUTED" <=> c.cites = {}
                /\ c.level = "RECEIPT_BOUND" <=> \E e \in c.cites : e.receipt
          /\ phase \notin {"compare", "inspect"} =>
                /\ p \in DOMAIN report.candidates
                /\ c.level = report.candidates[p].level
                /\ c.cites = report.candidates[p].cites]_report

(* A candidate nobody touched since End or the inspection began is still   *)
(* present when it is verified: what the report recorded of it is what     *)
(* Verify finds (candidateFor, VerifyCandidate).                           *)
UntouchedIsPresent ==
    [][phase = "reported" =>
          \A p \in DOMAIN report.candidates :
              /\ report'.candidates[p] # report.candidates[p]
              /\ tree[p] # None /\ tree[p].mtime <= ghost.scan
              => report'.candidates[p].status \in {"PRESENT", "UNKNOWN"}]_report

=============================================================================
