----------------------------- MODULE Attribution -----------------------------
(***************************************************************************)
(* Which processes and ports a report is about (internal/process, and the  *)
(* parts of internal/app and internal/correlate that use it).              *)
(*                                                                         *)
(* The operating system goes on while it is observed: processes start,     *)
(* exit and their identifiers are used again, between any two of the       *)
(* queries of Resolve.  Begin records the processes that already run, End  *)
(* resolves the processes of the task and reports them, Verify resolves    *)
(* the reported identities again.                                          *)
(***************************************************************************)
EXTENDS Integers, FiniteSets

CONSTANTS
    PIDs,       \* process identifiers
    Ports,      \* local ports a process may listen on
    Kinds,      \* the processes that may start: what they work in, hold open
                \* and listen on
    MaxStarts,  \* bound: processes started in all
    Failing,    \* the queries that may fail: "snapshot", "query", "holds",
                \* "ports"
    None        \* no process, no attribution

ASSUME BoundsAssumption ==
    /\ MaxStarts \in Nat
    /\ Failing \subseteq {"snapshot", "query", "holds", "ports"}

ASSUME KindsAssumption ==
    Kinds \subseteq [inRoot: BOOLEAN, holds: BOOLEAN, ports: SUBSET Ports]

ASSUME NoneAssumption == None \notin PIDs \cup Ports \cup {0}

ASSUME PIDsAssumption == 0 \notin PIDs /\ IsFiniteSet(PIDs)

VARIABLES
    procs,     \* the processes that run now, by identifier
    starts,    \* processes started so far; also the clock of creation times
    phase,     \* where the observation is
    base,      \* identities recorded by Begin
    events,    \* identities declared by an event without a receipt
    receipts,  \* identities declared by an event with a receipt
    step,      \* where the call of Resolve is
    todo,      \* identifiers the current loop of Resolve has yet to visit
    snap,      \* what Snapshot returned
    attr,      \* attributed: why a process belongs to the task
    listed,    \* processes started by the time Snapshot listed them (ghost)
    matched,   \* the process found unchanged and about to be asked
    evidence,  \* the processes found, with their ports
    limited,   \* Resolve returned a limitation
    report,    \* the process and port candidates of the report
    partial,   \* the report says that its evidence is partial
    status     \* the current status of each candidate, once Verify is done

world == <<procs, starts>>
hints == <<base, events, receipts>>
work == <<step, todo, snap, listed, attr, matched, evidence, limited>>
result == <<report, partial, status>>
vars == <<world, phase, hints, work, result>>

Process == [created: 1..MaxStarts, parent: PIDs \cup {0}, kind: Kinds]

(* What Snapshot returns of a process *)
Metadata == [created: 1..MaxStarts, parent: PIDs \cup {0}, inRoot: BOOLEAN]

Identity == PIDs \X (1..MaxStarts)

Reasons == {"receipt", "event", "working_directory", "open_candidate_path",
            "descendant"}

ASSUME NoValueAssumption == None \notin Process \cup Metadata \cup Reasons

Evidence == [id: Identity, reason: Reasons, ports: SUBSET Ports]

Levels == {"RECEIPT_BOUND", "EVENT_BOUND", "INFERRED"}

Candidate == [id: Identity, port: Ports \cup {None}, level: Levels]

Status == {"ACTIVE_REFERENCE", "NO_LONGER_PRESENT"}

Nothing == [p \in PIDs |-> None]

Running(table) == {p \in PIDs : table[p] # None}

IdentityIn(table, p) == <<p, table[p].created>>

(* processStillMatches *)
Alive(id) == procs[id[1]] # None /\ procs[id[1]].created = id[2]

Init ==
    /\ procs = Nothing
    /\ starts = 0
    /\ phase = "idle"
    /\ base = {} /\ events = {} /\ receipts = {}
    /\ step = "none" /\ todo = {} /\ snap = Nothing /\ attr = Nothing
    /\ listed = 0 /\ matched = None /\ evidence = {} /\ limited = FALSE
    /\ report = {} /\ partial = FALSE /\ status = <<>>

-----------------------------------------------------------------------------
(* The operating system *)

Start(p, parent, kind) ==
    /\ procs[p] = None /\ starts < MaxStarts
    /\ parent \in Running(procs) \cup {0}
    /\ starts' = starts + 1
    /\ procs' = [procs EXCEPT ![p] = [created |-> starts + 1, parent |-> parent,
                                      kind |-> kind]]
    /\ UNCHANGED <<phase, hints, work, result>>

(* Unix gives the children of p to init; Windows leaves them p's number. *)
Exit(p) ==
    /\ procs[p] # None
    /\ \E heir \in {0, p} :
          procs' = [q \in PIDs |->
                      IF q = p THEN None
                      ELSE IF procs[q] # None /\ procs[q].parent = p
                      THEN [procs[q] EXCEPT !.parent = heir]
                      ELSE procs[q]]
    /\ UNCHANGED <<starts, phase, hints, work, result>>

-----------------------------------------------------------------------------
(* Resolve *)

Resolving == phase \in {"end", "verify"}

(* Resolve starts by listing the identifiers in use; when that fails it    *)
(* returns no evidence and a limitation.                                   *)
Snapshot(next) ==
    /\ phase' = next
    /\ snap' = Nothing /\ attr' = Nothing /\ matched' = None /\ evidence' = {}
    /\ listed' = starts
    /\ \/ /\ step' = "query" /\ todo' = Running(procs) /\ limited' = FALSE
       \/ /\ "snapshot" \in Failing
          /\ step' = "build" /\ todo' = {} /\ limited' = TRUE

(* Each process is asked for its owner, creation time, parent and working  *)
(* directory.  One that has gone or does not answer is left out of the     *)
(* snapshot without a limitation, an unknown directory is no directory.    *)
Answers(p) ==
    IF procs[p] = None THEN {None}
    ELSE {[created |-> procs[p].created, parent |-> procs[p].parent,
           inRoot |-> inRoot] :
             inRoot \in {procs[p].kind.inRoot} \cup
                       (IF "query" \in Failing THEN {FALSE} ELSE {})}
         \cup (IF "query" \in Failing THEN {None} ELSE {})

Query(p) ==
    /\ Resolving /\ step = "query" /\ p \in todo
    /\ todo' = todo \ {p}
    /\ \E answer \in Answers(p) : snap' = [snap EXCEPT ![p] = answer]
    /\ UNCHANGED <<world, phase, hints, step, listed, attr, matched, evidence,
                   limited, result>>

(* The identities Verify asks for are those of the report's candidates. *)
HintedEvents == IF phase = "end" THEN events ELSE {c.id : c \in report}

HintedReceipts == IF phase = "end" THEN receipts ELSE {}

(* Mutant: a hint is bound to whatever process has its identifier now. *)
BindByPID(p, hinted) == \E id \in hinted : id[1] = p

(* bindStableHints: a hint is bound to a process of the same identity. *)
BindStableHints(p, hinted) == IdentityIn(snap, p) \in hinted

(* Only the observer of End is given the task roots. *)
WithinTaskRoot(p) == phase = "end" /\ snap[p].inRoot

Bind(paths) ==
    /\ Resolving /\ step = "query" /\ todo = {}
    /\ paths => phase = "end"
    /\ attr' = [p \in PIDs |->
                  IF snap[p] = None THEN None
                  ELSE IF BindStableHints(p, HintedReceipts) THEN "receipt"
                  ELSE IF BindStableHints(p, HintedEvents) THEN "event"
                  ELSE IF WithinTaskRoot(p) THEN "working_directory"
                  ELSE None]
    /\ step' = "holds"
    /\ todo' = IF paths THEN Running(snap) \ Running(attr') ELSE {}
    /\ UNCHANGED <<world, phase, hints, snap, listed, matched, evidence,
                   limited, result>>

(* The processes attributed after k passes of the loop over the snapshot. *)
DescendantsIn(k) ==
    LET reach[i \in 0..k] ==
            IF i = 0 THEN Running(attr)
            ELSE reach[i - 1] \cup
                 {p \in Running(snap) : snap[p].parent \in reach[i - 1]}
    IN  reach[k]

(* Mutant: one pass over the snapshot. *)
DescendOnce ==
    /\ Resolving /\ step = "holds" /\ todo = {}
    /\ attr' = [p \in PIDs |-> IF p \in DescendantsIn(1) /\ attr[p] = None
                               THEN "descendant" ELSE attr[p]]
    /\ step' = "ports" /\ todo' = Running(attr')
    /\ UNCHANGED <<world, phase, hints, snap, listed, matched, evidence,
                   limited, result>>

(* Passes are made until one changes nothing. *)
Descend ==
    /\ Resolving /\ step = "holds" /\ todo = {}
    /\ attr' = [p \in PIDs |-> IF p \in DescendantsIn(Cardinality(PIDs))
                                  /\ attr[p] = None
                               THEN "descendant" ELSE attr[p]]
    /\ step' = "ports" /\ todo' = Running(attr')
    /\ UNCHANGED <<world, phase, hints, snap, listed, matched, evidence,
                   limited, result>>

Found(p, ports) ==
    evidence' = evidence \cup {[id |-> IdentityIn(snap, p), reason |-> attr[p],
                                ports |-> ports]}

(* Mutant: an error while a process is asked is swallowed. *)
UnansweredSilently(p) ==
    /\ todo' = todo \ {p}
    /\ IF step = "ports" THEN Found(p, {}) ELSE UNCHANGED evidence
    /\ UNCHANGED limited

(* What becomes of a process that could not be asked: a limitation, and in *)
(* the loop over the attributed ones evidence without ports.               *)
Unanswered(p) ==
    /\ limited' = TRUE
    /\ todo' = todo \ {p}
    /\ IF step = "ports" THEN Found(p, {}) ELSE UNCHANGED evidence

(* HoldsAnyPath and ListeningPorts first make sure that a process is still *)
(* the same ...                                                            *)
ProcessStillMatches(p) ==
    /\ Resolving /\ step \in {"holds", "ports"} /\ matched = None /\ p \in todo
    /\ IF Alive(IdentityIn(snap, p))
       THEN matched' = p /\ UNCHANGED <<todo, evidence, limited>>
       ELSE Unanswered(p) /\ UNCHANGED matched
    /\ UNCHANGED <<world, phase, hints, step, snap, listed, attr, result>>

(* ... and then ask whatever has its identifier for its open files ...     *)
HoldsAnyPath ==
    /\ Resolving /\ step = "holds" /\ matched # None
    /\ matched' = None
    /\ \/ /\ procs[matched] # None
          /\ todo' = todo \ {matched}
          /\ attr' = IF procs[matched].kind.holds
                     THEN [attr EXCEPT ![matched] = "open_candidate_path"]
                     ELSE attr
          /\ UNCHANGED <<evidence, limited>>
       \/ /\ procs[matched] = None \/ "holds" \in Failing
          /\ Unanswered(matched) /\ UNCHANGED attr
    /\ UNCHANGED <<world, phase, hints, step, snap, listed, result>>

(* ... or for the ports it listens on.                                     *)
ListeningPorts ==
    /\ Resolving /\ step = "ports" /\ matched # None
    /\ matched' = None
    /\ \/ /\ procs[matched] # None
          /\ todo' = todo \ {matched}
          /\ Found(matched, procs[matched].kind.ports) /\ UNCHANGED limited
       \/ /\ procs[matched] = None \/ "ports" \in Failing
          /\ Unanswered(matched)
    /\ UNCHANGED <<world, phase, hints, step, snap, listed, attr, result>>

EndOfPorts ==
    /\ Resolving /\ step = "ports" /\ todo = {} /\ matched = None
    /\ step' = "build"
    /\ UNCHANGED <<world, phase, hints, todo, snap, listed, attr, matched,
                   evidence, limited, result>>

-----------------------------------------------------------------------------
(* Begin, the task's events, End and Verify *)

Begin ==
    /\ phase = "idle"
    /\ phase' = "active"
    /\ \E seen \in [Running(procs) -> BOOLEAN] :
          /\ "query" \notin Failing => \A p \in DOMAIN seen : seen[p]
          /\ base' = {IdentityIn(procs, p) : p \in {q \in DOMAIN seen : seen[q]}}
    /\ UNCHANGED <<world, events, receipts, work, result>>

(* An event names a process that runs; with a receipt it is stronger. *)
Declare(p, receipt) ==
    /\ phase = "active" /\ procs[p] # None
    /\ IF receipt THEN /\ receipts' = receipts \cup {IdentityIn(procs, p)}
                       /\ UNCHANGED events
       ELSE /\ events' = events \cup {IdentityIn(procs, p)}
            /\ UNCHANGED receipts
    /\ UNCHANGED <<world, phase, base, work, result>>

End ==
    /\ phase = "active"
    /\ Snapshot("end")
    /\ UNCHANGED <<world, hints, result>>

(* Mutant: a process is left out when its identifier was in use before. *)
ExcludeByPID(e) ==
    \/ e.id \in events \cup receipts
    \/ \A id \in base : id[1] # e.id[1]

(* excludeBaselineOnlyProcesses keeps a process that an event names or     *)
(* that did not run when the observation began.                            *)
ExcludeBaselineOnly(e) == e.id \in events \cup receipts \/ e.id \notin base

(* Mutant: the reason is taken for the level. *)
ReasonAsLevel(reason) == reason

ProcessEvidenceLevel(reason) ==
    CASE reason = "receipt" -> "RECEIPT_BOUND"
      [] reason = "event" -> "EVENT_BOUND"
      [] OTHER -> "INFERRED"

ProcessCandidates(e) ==
    {[id |-> e.id, port |-> port, level |-> ProcessEvidenceLevel(e.reason)] :
        port \in e.ports \cup {None}}

(* The locals of Resolve go out of scope *)
Discard ==
    /\ step' = "none" /\ snap' = Nothing /\ attr' = Nothing
    /\ evidence' = {} /\ listed' = 0
    /\ UNCHANGED <<todo, matched>>

(* End saves the report and removes the task with its events. *)
BuildReport ==
    /\ phase = "end" /\ step = "build"
    /\ phase' = "reported"
    /\ report' = UNION {ProcessCandidates(e) :
                          e \in {x \in evidence : ExcludeBaselineOnly(x)}}
    /\ partial' = limited /\ limited' = FALSE
    /\ base' = {} /\ events' = {} /\ receipts' = {}
    /\ Discard
    /\ UNCHANGED <<world, status>>

StartVerify ==
    /\ phase \in {"reported", "verified"}
    /\ Snapshot("verify")
    /\ status' = <<>>
    /\ UNCHANGED <<world, hints, report, partial>>

(* Mutant: everything Resolve finds is taken for a reported process. *)
AllEvidence == evidence

(* Observer.Verify keeps what Resolve found of the reported identities,    *)
(* and files it by process identifier.                                     *)
VerifiedProcesses == {e \in evidence : e.id \in {c.id : c \in report}}

(* The status of a process candidate, and of a port candidate (verifyPort) *)
StatusOf(c) ==
    IF \E e \in VerifiedProcesses :
          e.id[1] = c.id[1] /\ (c.port # None => c.port \in e.ports)
    THEN "ACTIVE_REFERENCE" ELSE "NO_LONGER_PRESENT"

Verify ==
    /\ phase = "verify" /\ step = "build"
    /\ phase' = "verified"
    /\ status' = [c \in report |-> StatusOf(c)]
    /\ Discard
    /\ UNCHANGED <<world, hints, limited, report, partial>>

Next ==
    \/ \E p \in PIDs, parent \in PIDs \cup {0}, kind \in Kinds :
          Start(p, parent, kind)
    \/ \E p \in PIDs : Exit(p)
    \/ Begin
    \/ \E p \in PIDs, receipt \in BOOLEAN : Declare(p, receipt)
    \/ End
    \/ \E p \in PIDs : Query(p)
    \/ \E paths \in BOOLEAN : Bind(paths)
    \/ \E p \in PIDs : ProcessStillMatches(p)
    \/ HoldsAnyPath
    \/ Descend
    \/ ListeningPorts
    \/ EndOfPorts
    \/ BuildReport
    \/ StartVerify
    \/ Verify

Spec == Init /\ [][Next]_vars

-----------------------------------------------------------------------------
(* Properties *)

(* The types of the process table, of the locals of Resolve and of the     *)
(* report it leads to.                                                     *)
TypeOK ==
    /\ procs \in [PIDs -> Process \cup {None}]
    /\ starts \in 0..MaxStarts
    /\ phase \in {"idle", "active", "end", "reported", "verify", "verified"}
    /\ base \subseteq Identity /\ events \subseteq Identity
    /\ receipts \subseteq Identity
    /\ step \in {"none", "query", "holds", "ports", "build"}
    /\ todo \subseteq PIDs
    /\ snap \in [PIDs -> Metadata \cup {None}]
    /\ attr \in [PIDs -> Reasons \cup {None}]
    /\ listed \in 0..MaxStarts
    /\ matched \in PIDs \cup {None}
    /\ evidence \subseteq Evidence
    /\ limited \in BOOLEAN /\ partial \in BOOLEAN
    /\ report \subseteq Candidate
    /\ phase = "verified" => status \in [report -> Status]

(* A candidate is event or receipt bound only if an event named that very  *)
(* process, not another one that has its identifier by the time of End     *)
(* (bindStableHints).                                                      *)
BoundIsDeclared ==
    [][\A c \in report' \ report :
          /\ c.level = "EVENT_BOUND" => c.id \in events
          /\ c.level = "RECEIPT_BOUND" => c.id \in receipts]_report

(* A report that does not say its evidence is partial misses no process of *)
(* the task: one in a task root that started after Begin and has run since *)
(* before End listed the processes is reported, whatever identifiers were  *)
(* used again (Resolve, excludeBaselineOnlyProcesses).                     *)
NewProcessesReported ==
    [][phase' = "reported" /\ ~partial' =>
          \A p \in Running(procs) :
              /\ procs[p].kind.inRoot /\ procs[p].created <= listed
              /\ IdentityIn(procs, p) \notin base
              => IdentityIn(procs, p) \in {c.id : c \in report'}]_<<phase>>

(* Descendants are attributed exactly: with a process all its children in  *)
(* the snapshot are attributed, and no process is attributed but by a      *)
(* chain of parents that ends in one attributed for itself.                *)
Ancestors(p) ==
    LET up[k \in 0..Cardinality(PIDs)] ==
            IF k = 0 THEN {p}
            ELSE up[k - 1] \cup
                 {snap[q].parent : q \in up[k - 1] \cap Running(snap)}
    IN  up[Cardinality(PIDs)]

AttributionClosed ==
    step = "ports" =>
        \A p \in Running(snap) :
            /\ snap[p].parent \in Running(attr) => attr[p] # None
            /\ (attr[p] # None) <=>
                   \E a \in Ancestors(p) \cap Running(snap) :
                       attr[a] \notin {None, "descendant"}

(* A candidate is an active reference only if Verify saw that very process *)
(* run: the results are filed by identifier, which a child of another      *)
(* candidate may have taken over.                                          *)
ActiveIsSame ==
    [][phase' = "verified" =>
          \A c \in report : status'[c] = "ACTIVE_REFERENCE" =>
              snap[c.id[1]] # None /\ IdentityIn(snap, c.id[1]) = c.id]_<<phase>>

(* Verify says that a process or a port is no longer present, and mentions *)
(* no limitation, only if the process has gone or does not listen (docs:   *)
(* missing permissions and scan races are not taken for the absence of     *)
(* residue).                                                               *)
AbsenceIsReal ==
    phase = "verified" /\ ~limited =>
        \A c \in DOMAIN status : status[c] = "NO_LONGER_PRESENT" =>
            ~Alive(c.id) \/ c.port \notin procs[c.id[1]].kind.ports \cup {None}

=============================================================================
