-------------------------- MODULE AttributionProofs --------------------------
(***************************************************************************)
(* Proofs about Attribution, for every set of identifiers, ports and kinds *)
(* of processes and every choice of the queries that may fail: candidates  *)
(* are bound to the process an event named, Verify takes no other process  *)
(* for a reported one, and descendants are attributed exactly.  When the   *)
(* queries about a process do not fail, no process of the task is missed   *)
(* and none is said to have gone while it runs.                            *)
(***************************************************************************)
EXTENDS Attribution, Induction, FiniteSetTheorems

(* Creation times, of what runs or was recorded, are those of processes    *)
(* that have started.                                                      *)
TimesOK ==
    /\ listed <= starts
    /\ \A p \in Running(procs) : procs[p].created <= starts
    /\ \A p \in Running(snap) : snap[p].created <= starts
    /\ \A c \in report : c.id[2] <= starts
    /\ phase = "verify" => \A c \in report : c.id[2] <= listed

(* The locals of Resolve: which processes its loops are about. *)
LocalsOK ==
    /\ Resolving <=> step # "none"
    /\ step = "holds" => todo \subseteq Running(snap)
    /\ step = "ports" => todo \subseteq Running(attr)
    /\ step = "query" => Running(attr) = {} /\ evidence = {}
    /\ Running(attr) \subseteq Running(snap)
    /\ matched # None => matched \in todo /\ step \in {"holds", "ports"}
    /\ step \in {"query", "holds"} => \A p \in PIDs : attr[p] # "descendant"

(* Evidence is about processes of the snapshot, and a report is about at   *)
(* most one process of an identifier.                                      *)
EvidenceOK ==
    /\ \A e \in evidence :
          e.id[1] \in Running(snap) /\ e.id = IdentityIn(snap, e.id[1])
    /\ \A c, d \in report : c.id[1] = d.id[1] => c.id = d.id

(* What End takes for declared was declared. *)
ReasonsOK ==
    phase = "end" =>
        /\ \A p \in Running(attr) :
              /\ attr[p] = "event" => IdentityIn(snap, p) \in events
              /\ attr[p] = "receipt" => IdentityIn(snap, p) \in receipts
        /\ \A e \in evidence :
              /\ e.reason = "event" => e.id \in events
              /\ e.reason = "receipt" => e.id \in receipts

(* A process that has been running since the snapshot was listed. *)
Old(p) == procs[p] # None /\ procs[p].created <= listed

Seen(p) ==
    /\ snap[p] # None /\ snap[p].created = procs[p].created
    /\ snap[p].inRoot = procs[p].kind.inRoot

(* One that the call of Resolve has to find: End those in a task root,     *)
(* Verify those reported.                                                  *)
Wanted(p) ==
    /\ Old(p)
    /\ \/ phase = "end" /\ procs[p].kind.inRoot
       \/ phase = "verify" /\ \E c \in report : c.id = IdentityIn(procs, p)

InEvidence(p) ==
    \E e \in evidence :
        /\ e.id = IdentityIn(procs, p)
        /\ limited \/ e.ports = procs[p].kind.ports

(* Nothing of this gets lost on the way from the list to the report. *)
FoundOK ==
    Resolving =>
        \A p \in PIDs :
            /\ step = "query" /\ Old(p) => p \in todo \/ Seen(p)
            /\ step \in {"holds", "ports"} /\ Old(p) => Seen(p)
            /\ step \in {"holds", "ports"} /\ Wanted(p) => attr[p] # None
            /\ step = "ports" /\ Wanted(p) => p \in todo \/ InEvidence(p)
            /\ step = "build" /\ Wanted(p) => limited \/ InEvidence(p)

(* The inductive invariant. *)
Inv ==
    /\ TypeOK /\ TimesOK /\ LocalsOK /\ EvidenceOK /\ ReasonsOK
    /\ AttributionClosed
    /\ "query" \notin Failing => FoundOK /\ AbsenceIsReal

-----------------------------------------------------------------------------
(* The operating system *)

(* What starts has a new creation time, what stays is as it was but for    *)
(* its parent.                                                             *)
Moves ==
    /\ procs' \in [PIDs -> Process \cup {None}]
    /\ starts' \in 0..MaxStarts /\ starts <= starts'
    /\ \A p \in PIDs : procs'[p] # None =>
          \/ /\ procs[p] # None
             /\ procs'[p].created = procs[p].created
             /\ procs'[p].kind = procs[p].kind
          \/ starts < procs'[p].created /\ procs'[p].created <= starts'
    /\ UNCHANGED <<phase, base, events, receipts, step, todo, snap, listed, attr,
                   matched, evidence, limited, report, partial, status>>

(* Numbers that proofs compare. *)
LEMMA Numbers ==
    ASSUME TypeOK
    PROVE  /\ MaxStarts \in Nat /\ starts \in Nat /\ listed \in Nat
           /\ \A p \in Running(procs) : procs[p] \in Process /\ procs[p].created \in Nat
           /\ \A p \in Running(snap) : snap[p] \in Metadata /\ snap[p].created \in Nat
           /\ \A c \in report : c \in Candidate /\ c.id \in Identity /\ c.id[1] \in PIDs
                                /\ c.id[2] \in Nat /\ c.id = <<c.id[1], c.id[2]>>
<1> USE BoundsAssumption
<1>1. MaxStarts \in Nat /\ starts \in Nat /\ listed \in Nat
  BY DEF TypeOK
<1>2. \A p \in Running(procs) : procs[p] \in Process /\ procs[p].created \in Nat
  BY DEF TypeOK, Running, Process
<1>3. \A p \in Running(snap) : snap[p] \in Metadata /\ snap[p].created \in Nat
  BY DEF TypeOK, Running, Metadata
<1>4. \A c \in report : c \in Candidate /\ c.id \in Identity
  BY DEF TypeOK, Candidate
<1>5. \A id \in Identity : id[1] \in PIDs /\ id[2] \in Nat /\ id = <<id[1], id[2]>>
  BY DEF Identity
<1> QED BY <1>1, <1>2, <1>3, <1>4, <1>5

(* Attribution is about the snapshot alone. *)
LEMMA ClosedSame ==
    ASSUME AttributionClosed, step' = "ports" => step = "ports", UNCHANGED <<snap, attr>>
    PROVE  AttributionClosed'
<1>1. \A p : Ancestors(p)' = Ancestors(p)
  BY DEF Ancestors, Running
<1> QED BY <1>1 DEF AttributionClosed, Running

(* Resolve is right about what runs on, and a process that runs on keeps   *)
(* its identity: its moves cannot make an observation wrong.               *)
LEMMA MovesOK ==
    ASSUME Inv, Moves
    PROVE  Inv'
<1> USE DEF Inv
<1>0. UNCHANGED <<phase, base, events, receipts, step, todo, snap, listed, attr,
                  matched, evidence, limited, report, partial, status>>
  BY DEF Moves
<1>1. TypeOK'
  BY <1>0 DEF Moves, TypeOK
<1>2. TimesOK'
  <2>1. listed <= starts' /\ \A p \in Running(snap) : snap[p].created <= starts'
    BY Numbers, BoundsAssumption DEF Moves, TimesOK
  <2>2. \A c \in report : c.id[2] <= starts'
    BY Numbers, BoundsAssumption DEF Moves, TimesOK
  <2>3. \A p \in Running(procs)' : procs'[p].created <= starts'
    BY Numbers, BoundsAssumption DEF Moves, TimesOK, Running
  <2> QED BY <1>0, <2>1, <2>2, <2>3 DEF TimesOK, Running
<1>3. LocalsOK' /\ EvidenceOK' /\ ReasonsOK' /\ AttributionClosed'
  <2>1. LocalsOK'
    BY <1>0 DEF LocalsOK, Running, Resolving
  <2>2. EvidenceOK' /\ ReasonsOK'
    BY <1>0 DEF EvidenceOK, ReasonsOK, Running, IdentityIn
  <2>3. AttributionClosed'
    BY <1>0, ClosedSame
  <2> QED BY <2>1, <2>2, <2>3
<1>4. ASSUME NEW p \in PIDs, procs'[p] # None, procs'[p].created <= starts
      PROVE  /\ procs[p] # None /\ procs'[p].created = procs[p].created
             /\ procs'[p].kind = procs[p].kind
             /\ IdentityIn(procs, p)' = IdentityIn(procs, p)
  <2>1. procs'[p].created \in Nat
    BY <1>1, <1>4, BoundsAssumption DEF TypeOK, Process
  <2> QED BY <1>4, <2>1, Numbers DEF Moves, IdentityIn
<1>5. ASSUME "query" \notin Failing PROVE FoundOK'
  <2>1. ASSUME NEW p \in PIDs, Old(p)'
        PROVE  /\ Old(p) /\ Seen(p)' = Seen(p) /\ Wanted(p)' = Wanted(p)
               /\ InEvidence(p)' = InEvidence(p)
    <3>1. procs'[p].created \in Nat /\ procs'[p] # None
      BY <1>1, <2>1, BoundsAssumption DEF TypeOK, Process, Old
    <3>2. procs'[p].created <= starts
      BY <1>0, <2>1, <3>1, Numbers DEF Old, TimesOK
    <3>3. /\ procs[p] # None /\ procs'[p].created = procs[p].created
          /\ procs'[p].kind = procs[p].kind
          /\ IdentityIn(procs, p)' = IdentityIn(procs, p)
      BY <1>4, <3>1, <3>2
    <3>4. Old(p)
      BY <1>0, <2>1, <3>3 DEF Old
    <3>5. Seen(p)' = Seen(p)
      BY <1>0, <3>3 DEF Seen
    <3>6. Wanted(p)' = Wanted(p)
      BY <1>0, <2>1, <3>3, <3>4 DEF Wanted
    <3>7. InEvidence(p)' = InEvidence(p)
      BY <1>0, <3>3 DEF InEvidence
    <3> QED BY <3>4, <3>5, <3>6, <3>7
  <2>2. \A p \in PIDs : Wanted(p)' => Old(p)'
    BY DEF Wanted
  <2> QED BY <1>0, <1>5, <2>1, <2>2 DEF FoundOK, Resolving
<1>6. ASSUME "query" \notin Failing PROVE AbsenceIsReal'
  <2> SUFFICES ASSUME phase = "verified", ~limited, NEW c \in DOMAIN status,
                      status[c] = "NO_LONGER_PRESENT", Alive(c.id)',
                      c.port \in procs'[c.id[1]].kind.ports \cup {None}
               PROVE  FALSE
    BY <1>0 DEF AbsenceIsReal
  <2>1. c \in report
    BY DEF TypeOK
  <2>2. procs'[c.id[1]] # None /\ procs'[c.id[1]].created = c.id[2] /\ c.id[1] \in PIDs
    BY <2>1, Numbers DEF Alive
  <2>3. c.id[2] <= starts
    BY <2>1 DEF TimesOK
  <2>4. Alive(c.id) /\ procs'[c.id[1]].kind = procs[c.id[1]].kind
    BY <1>4, <2>2, <2>3 DEF Alive
  <2> QED BY <1>6, <2>4 DEF AbsenceIsReal
<1> QED BY <1>1, <1>2, <1>3, <1>5, <1>6

(* A process starts. *)
LEMMA StartOK ==
    ASSUME Inv, NEW p \in PIDs, NEW parent \in PIDs \cup {0}, NEW kind \in Kinds,
           Start(p, parent, kind)
    PROVE  Inv'
<1> DEFINE new == [created |-> starts + 1, parent |-> parent, kind |-> kind]
<1>1. /\ starts < MaxStarts /\ starts' = starts + 1
      /\ procs' = [procs EXCEPT ![p] = new]
      /\ UNCHANGED <<phase, base, events, receipts, step, todo, snap, listed, attr,
                     matched, evidence, limited, report, partial, status>>
  BY DEF Start, hints, work, result
<1>2. starts \in 0..MaxStarts /\ MaxStarts \in Nat /\ procs \in [PIDs -> Process \cup {None}]
  BY BoundsAssumption DEF Inv, TypeOK
<1>3. new \in Process /\ new.created = starts + 1
  BY <1>1, <1>2 DEF Process
<1> HIDE DEF new
<1>4. Moves
  BY <1>1, <1>2, <1>3 DEF Moves
<1> QED BY <1>4, MovesOK

(* A process exits, and its children get another parent or keep it. *)
LEMMA ExitOK ==
    ASSUME Inv, NEW p \in PIDs, Exit(p)
    PROVE  Inv'
<1>1. PICK heir \in {0, p} :
          procs' = [q \in PIDs |->
                      IF q = p THEN None
                      ELSE IF procs[q] # None /\ procs[q].parent = p
                      THEN [procs[q] EXCEPT !.parent = heir]
                      ELSE procs[q]]
  BY DEF Exit
<1>2. starts \in 0..MaxStarts /\ MaxStarts \in Nat /\ procs \in [PIDs -> Process \cup {None}]
  BY BoundsAssumption DEF Inv, TypeOK
<1>3. ASSUME NEW q \in PIDs, procs'[q] # None
      PROVE  /\ procs[q] # None /\ procs'[q] \in Process
             /\ procs'[q].created = procs[q].created
             /\ procs'[q].kind = procs[q].kind
  <2>1. procs[q] \in Process /\ procs[q] # None
    BY <1>1, <1>2, <1>3, NoValueAssumption
  <2>2. [procs[q] EXCEPT !.parent = heir] \in Process
        /\ [procs[q] EXCEPT !.parent = heir].created = procs[q].created
        /\ [procs[q] EXCEPT !.parent = heir].kind = procs[q].kind
    BY <2>1 DEF Process
  <2>3. procs'[q] = procs[q] \/ procs'[q] = [procs[q] EXCEPT !.parent = heir]
    BY <1>1, <1>3
  <2> QED BY <2>1, <2>2, <2>3
<1>4. procs' \in [PIDs -> Process \cup {None}]
  <2>1. procs' = [q \in PIDs |-> procs'[q]]
    BY <1>1
  <2> QED BY <1>3, <2>1
<1>5. UNCHANGED <<starts, phase, base, events, receipts, step, todo, snap, listed,
                  attr, matched, evidence, limited, report, partial, status>>
  BY DEF Exit, hints, work, result
<1>6. Moves
  BY <1>2, <1>3, <1>4, <1>5 DEF Moves
<1> QED BY <1>6, MovesOK

-----------------------------------------------------------------------------
(* Begin and the events *)

(* The identity of a process that runs is one. *)
LEMMA RunningIdentity ==
    ASSUME TypeOK, NEW p \in PIDs
    PROVE  /\ procs[p] # None => IdentityIn(procs, p) \in Identity
           /\ snap[p] # None => IdentityIn(snap, p) \in Identity
BY DEF TypeOK, IdentityIn, Identity, Process, Metadata

(* While no call of Resolve is made only the types can be disturbed. *)
LEMMA OutsideResolve ==
    ASSUME Inv, TypeOK', phase \in {"idle", "active"}, phase' \in {"idle", "active"},
           UNCHANGED <<procs, starts, step, todo, snap, listed, attr, matched,
                       evidence, limited, report, partial, status>>
    PROVE  Inv'
<1>1. TimesOK'
  BY DEF Inv, TimesOK, Running
<1>2. LocalsOK'
  BY DEF Inv, LocalsOK, Running, Resolving
<1>3. EvidenceOK' /\ ReasonsOK'
  BY DEF Inv, EvidenceOK, ReasonsOK, Running, IdentityIn
<1>4. AttributionClosed'
  BY ClosedSame DEF Inv
<1>5. FoundOK' /\ AbsenceIsReal'
  BY DEF FoundOK, AbsenceIsReal, Resolving
<1> QED BY <1>1, <1>2, <1>3, <1>4, <1>5 DEF Inv

(* Begin records identities. *)
LEMMA BeginOK ==
    ASSUME Inv, Begin
    PROVE  Inv'
<1>1. PICK seen \in [Running(procs) -> BOOLEAN] :
          base' = {IdentityIn(procs, p) : p \in {q \in DOMAIN seen : seen[q]}}
  BY DEF Begin
<1>2. base' \subseteq Identity
  BY <1>1, RunningIdentity DEF Running, Inv
<1>3. /\ phase = "idle" /\ phase' = "active"
      /\ UNCHANGED <<procs, starts, events, receipts, step, todo, snap, listed, attr,
                     matched, evidence, limited, report, partial, status>>
  BY DEF Begin, world, work, result
<1>4. TypeOK'
  BY <1>2, <1>3 DEF Inv, TypeOK
<1> QED BY <1>3, <1>4, OutsideResolve

(* An event declares one. *)
LEMMA DeclareOK ==
    ASSUME Inv, NEW p \in PIDs, NEW receipt \in BOOLEAN, Declare(p, receipt)
    PROVE  Inv'
<1>1. events' \subseteq Identity /\ receipts' \subseteq Identity
  BY RunningIdentity DEF Declare, Inv, TypeOK
<1>2. /\ phase = "active" /\ phase' = "active"
      /\ UNCHANGED <<procs, starts, base, step, todo, snap, listed, attr, matched,
                     evidence, limited, report, partial, status>>
  BY DEF Declare, world, work, result
<1>3. TypeOK'
  BY <1>1, <1>2 DEF Inv, TypeOK
<1> QED BY <1>2, <1>3, OutsideResolve

-----------------------------------------------------------------------------
(* Resolve *)

(* No process runs in the empty table. *)
LEMMA NothingIsEmpty ==
    /\ Nothing \in [PIDs -> Metadata \cup {None}]
    /\ Nothing \in [PIDs -> Reasons \cup {None}]
    /\ Running(Nothing) = {} /\ \A p \in PIDs : Nothing[p] = None
BY DEF Nothing, Running

(* The list has whatever runs. *)
LEMMA SnapshotOK ==
    ASSUME Inv, NEW next \in {"end", "verify"}, Snapshot(next),
           UNCHANGED <<procs, starts, base, events, receipts, report, partial>>
    PROVE  Inv'
<1>0. /\ phase' = next /\ snap' = Nothing /\ attr' = Nothing /\ matched' = None
      /\ evidence' = {} /\ listed' = starts
      /\ \/ step' = "query" /\ todo' = Running(procs) /\ limited' = FALSE
         \/ step' = "build" /\ todo' = {} /\ limited' = TRUE
  BY DEF Snapshot
<1>1. TypeOK'
  BY <1>0, NothingIsEmpty DEF Inv, TypeOK, Running
<1>2. TimesOK'
  <2>1. starts <= starts
    BY Numbers DEF Inv
  <2> QED BY <1>0, <2>1, NothingIsEmpty DEF Inv, TimesOK, Running
<1>3. LocalsOK'
  <2>1. Running(attr)' = {} /\ Running(snap)' = {} /\ \A p \in PIDs : attr'[p] = None
    BY <1>0, NothingIsEmpty DEF Running
  <2>2. None # "descendant"
    BY NoValueAssumption DEF Reasons
  <2>3. Resolving'
    BY <1>0 DEF Resolving
  <2> QED BY <1>0, <2>1, <2>2, <2>3 DEF LocalsOK
<1>4. EvidenceOK' /\ ReasonsOK'
  <2>1. Running(attr)' = {}
    BY <1>0, NothingIsEmpty DEF Running
  <2> QED BY <1>0, <2>1 DEF Inv, EvidenceOK, ReasonsOK
<1>5. AttributionClosed' /\ AbsenceIsReal'
  BY <1>0 DEF AttributionClosed, AbsenceIsReal
<1>6. FoundOK'
  BY <1>0 DEF FoundOK, Old, Running
<1> QED BY <1>1, <1>2, <1>3, <1>4, <1>5, <1>6 DEF Inv

(* An answer is about the process that has the identifier now. *)
LEMMA AnswersOK ==
    ASSUME Inv, NEW p \in PIDs, NEW answer \in Answers(p)
    PROVE  /\ answer = None => procs[p] = None \/ "query" \in Failing
           /\ answer # None =>
                 /\ answer \in Metadata /\ procs[p] # None
                 /\ answer.created = procs[p].created
                 /\ "query" \notin Failing => answer.inRoot = procs[p].kind.inRoot
<1>1. CASE procs[p] = None \/ (answer = None /\ "query" \in Failing)
  BY <1>1 DEF Answers
<1>2. CASE procs[p] # None /\ ~ (answer = None /\ "query" \in Failing)
  <2>1. procs[p] \in Process
    BY <1>2 DEF Inv, TypeOK
  <2>2. PICK inRoot \in {procs[p].kind.inRoot, FALSE} :
            /\ answer = [created |-> procs[p].created, parent |-> procs[p].parent,
                         inRoot |-> inRoot]
            /\ "query" \notin Failing => inRoot = procs[p].kind.inRoot
    BY <1>2 DEF Answers
  <2>3. procs[p].kind \in Kinds
    BY <2>1 DEF Process
  <2>4. procs[p].kind.inRoot \in BOOLEAN
    BY <2>3, KindsAssumption
  <2>5. answer \in Metadata
    BY <2>1, <2>2, <2>4 DEF Process, Metadata
  <2>6. answer # None
    BY <2>5, NoValueAssumption
  <2> QED BY <1>2, <2>2, <2>5, <2>6
<1> QED BY <1>1, <1>2

(* With no failing query the list becomes the snapshot. *)
LEMMA QueryOK ==
    ASSUME Inv, NEW p \in PIDs, Query(p)
    PROVE  Inv'
<1>1. PICK answer \in Answers(p) : snap' = [snap EXCEPT ![p] = answer]
  BY DEF Query
<1>2. /\ Resolving /\ step = "query" /\ p \in todo /\ todo' = todo \ {p}
      /\ UNCHANGED <<procs, starts, phase, base, events, receipts, step, listed,
                     attr, matched, evidence, limited, report, partial, status>>
  BY DEF Query, world, hints, result
<1>3. /\ snap' \in [PIDs -> Metadata \cup {None}] /\ snap'[p] = answer
      /\ \A q \in PIDs : q # p => snap'[q] = snap[q]
  BY <1>1, AnswersOK DEF Inv, TypeOK
<1>4. TypeOK'
  BY <1>2, <1>3 DEF Inv, TypeOK
<1>5. TimesOK'
  BY <1>2, <1>3, AnswersOK DEF Inv, TimesOK, Running
<1>6. LocalsOK'
  BY <1>2 DEF Inv, LocalsOK, Resolving, Running
<1>7. EvidenceOK' /\ ReasonsOK'
  BY <1>2 DEF Inv, EvidenceOK, ReasonsOK, LocalsOK, Running
<1>8. AttributionClosed' /\ AbsenceIsReal'
  BY <1>2 DEF AttributionClosed, AbsenceIsReal, Resolving
<1>9. ASSUME "query" \notin Failing PROVE FoundOK'
  <2> SUFFICES ASSUME NEW q \in PIDs, Old(q), q \notin todo'
               PROVE  Seen(q)'
    BY <1>2 DEF FoundOK, Old
  <2>1. CASE q # p
    BY <1>2, <1>3, <1>9, <2>1 DEF Inv, FoundOK, Seen
  <2>2. CASE q = p
    <3>1. answer # None
      BY <1>9, <2>2, AnswersOK DEF Old
    <3> QED BY <1>2, <1>3, <1>9, <2>2, <3>1, AnswersOK DEF Seen
  <2> QED BY <2>1, <2>2
<1> QED BY <1>4, <1>5, <1>6, <1>7, <1>8, <1>9 DEF Inv

(* Hints are bound by identity, and whatever is wanted is attributed. *)
LEMMA BindOK ==
    ASSUME Inv, NEW paths \in BOOLEAN, Bind(paths)
    PROVE  Inv'
<1>0. /\ Resolving /\ step = "query" /\ todo = {} /\ step' = "holds"
      /\ attr' = [p \in PIDs |->
                    IF snap[p] = None THEN None
                    ELSE IF BindStableHints(p, HintedReceipts) THEN "receipt"
                    ELSE IF BindStableHints(p, HintedEvents) THEN "event"
                    ELSE IF WithinTaskRoot(p) THEN "working_directory"
                    ELSE None]
      /\ todo' \subseteq Running(snap)
      /\ UNCHANGED <<procs, starts, phase, base, events, receipts, snap, listed,
                     matched, evidence, limited, report, partial, status>>
  BY DEF Bind, world, hints, result
<1>1. /\ attr' \in [PIDs -> Reasons \cup {None}]
      /\ \A p \in PIDs :
            /\ snap[p] = None => attr'[p] = None
            /\ attr'[p] = "receipt" => IdentityIn(snap, p) \in HintedReceipts
            /\ attr'[p] = "event" => IdentityIn(snap, p) \in HintedEvents
            /\ attr'[p] # "descendant"
            /\ snap[p] # None /\ attr'[p] = None =>
                  ~WithinTaskRoot(p) /\ IdentityIn(snap, p) \notin HintedEvents
  <2>1. None \notin Reasons
    BY NoValueAssumption
  <2> QED BY <1>0, <2>1 DEF Reasons, BindStableHints
<1>2. TypeOK'
  BY <1>0, <1>1 DEF Inv, TypeOK, Running
<1>3. TimesOK'
  BY <1>0 DEF Inv, TimesOK, Running
<1>4. LocalsOK'
  BY <1>0, <1>1 DEF Inv, LocalsOK, Resolving, Running
<1>5. EvidenceOK'
  BY <1>0 DEF Inv, EvidenceOK, Running, IdentityIn
<1>6. ReasonsOK'
  BY <1>0, <1>1 DEF Inv, ReasonsOK, LocalsOK, Running, IdentityIn, HintedEvents,
                    HintedReceipts
<1>7. AttributionClosed' /\ AbsenceIsReal'
  BY <1>0 DEF AttributionClosed, AbsenceIsReal, Resolving
<1>8. ASSUME "query" \notin Failing PROVE FoundOK'
  <2>1. \A p \in PIDs : Old(p)' = Old(p) /\ Seen(p)' = Seen(p) /\ Wanted(p)' = Wanted(p)
    BY <1>0 DEF Old, Seen, Wanted, IdentityIn
  <2>2. \A p \in PIDs : Old(p) => Seen(p)
    BY <1>0, <1>8 DEF Inv, FoundOK
  <2>3. ASSUME NEW p \in PIDs, Wanted(p) PROVE attr'[p] # None
    <3>1. Seen(p) /\ Old(p)
      BY <2>2, <2>3 DEF Wanted
    <3>2. IdentityIn(snap, p) = IdentityIn(procs, p)
      BY <3>1 DEF Seen, IdentityIn
    <3>3. CASE phase = "end" /\ procs[p].kind.inRoot
      BY <1>1, <3>1, <3>3 DEF Seen, WithinTaskRoot
    <3>4. CASE phase = "verify" /\ \E c \in report : c.id = IdentityIn(procs, p)
      BY <1>1, <3>1, <3>2, <3>4 DEF Seen, HintedEvents
    <3> QED BY <2>3, <3>3, <3>4 DEF Wanted
  <2> QED BY <1>0, <2>1, <2>2, <2>3 DEF FoundOK
<1> QED BY <1>2, <1>3, <1>4, <1>5, <1>6, <1>7, <1>8 DEF Inv

(* The loop over the processes that are not attributed yet. *)
LEMMA HoldsStepOK ==
    ASSUME Inv, Resolving, step = "holds", NEW m \in todo,
           todo' = todo \ {m}, matched' = None, limited' \in BOOLEAN,
           attr' = attr \/ attr' = [attr EXCEPT ![m] = "open_candidate_path"],
           UNCHANGED <<procs, starts, phase, base, events, receipts, step, snap,
                       listed, evidence, report, partial, status>>
    PROVE  Inv'
<1>1. m \in PIDs /\ snap[m] # None
  BY DEF Inv, LocalsOK, Running
<1>2. /\ attr' \in [PIDs -> Reasons \cup {None}]
      /\ \A p \in PIDs : attr'[p] = attr[p] \/ (p = m /\ attr'[p] = "open_candidate_path")
  BY <1>1 DEF Inv, TypeOK, Reasons
<1>3. TypeOK'
  BY <1>2 DEF Inv, TypeOK
<1>4. TimesOK'
  BY DEF Inv, TimesOK, Running
<1>5. LocalsOK'
  BY <1>1, <1>2 DEF Inv, LocalsOK, Resolving, Running
<1>6. EvidenceOK'
  BY DEF Inv, EvidenceOK, Running, IdentityIn
<1>7. ReasonsOK'
  BY <1>2 DEF Inv, ReasonsOK, Running, IdentityIn
<1>8. AttributionClosed' /\ AbsenceIsReal'
  BY DEF AttributionClosed, AbsenceIsReal, Resolving
<1>9. ASSUME "query" \notin Failing PROVE FoundOK'
  <2>1. \A p \in PIDs : Old(p)' = Old(p) /\ Seen(p)' = Seen(p) /\ Wanted(p)' = Wanted(p)
    BY DEF Old, Seen, Wanted, IdentityIn
  <2>2. \A p \in PIDs : attr[p] # None => attr'[p] # None
    BY <1>2, NoValueAssumption DEF Reasons
  <2> QED BY <1>9, <2>1, <2>2 DEF Inv, FoundOK
<1> QED BY <1>3, <1>4, <1>5, <1>6, <1>7, <1>8, <1>9 DEF Inv

(* The loop over the attributed ones: each becomes evidence. *)
LEMMA PortsStepOK ==
    ASSUME Inv, Resolving, step = "ports", NEW m \in todo, NEW ports \in SUBSET Ports,
           Found(m, ports), todo' = todo \ {m}, matched' = None, limited' \in BOOLEAN,
           limited => limited', limited' \/ (Old(m) => ports = procs[m].kind.ports),
           UNCHANGED <<procs, starts, phase, base, events, receipts, step, snap,
                       listed, attr, report, partial, status>>
    PROVE  Inv'
<1> DEFINE e == [id |-> IdentityIn(snap, m), reason |-> attr[m], ports |-> ports]
<1>1. m \in PIDs /\ snap[m] # None /\ attr[m] # None
  BY DEF Inv, LocalsOK, Running
<1>2. e \in Evidence /\ e.id = IdentityIn(snap, m) /\ e.reason = attr[m] /\ e.ports = ports
      /\ e.id[1] = m
  BY <1>1, RunningIdentity DEF Inv, TypeOK, Evidence, IdentityIn
<1>3. evidence' = evidence \cup {e}
  BY DEF Found
<1> HIDE DEF e
<1>4. TypeOK'
  BY <1>2, <1>3 DEF Inv, TypeOK
<1>5. TimesOK'
  BY DEF Inv, TimesOK, Running
<1>6. LocalsOK'
  BY <1>1 DEF Inv, LocalsOK, Resolving, Running
<1>7. EvidenceOK'
  BY <1>1, <1>2, <1>3 DEF Inv, EvidenceOK, Running, IdentityIn
<1>8. ReasonsOK'
  BY <1>1, <1>2, <1>3 DEF Inv, ReasonsOK, Running, IdentityIn
<1>9. AttributionClosed' /\ AbsenceIsReal'
  BY ClosedSame DEF Inv, AbsenceIsReal, Resolving
<1>10. ASSUME "query" \notin Failing PROVE FoundOK'
  <2>1. \A p \in PIDs : Old(p)' = Old(p) /\ Seen(p)' = Seen(p) /\ Wanted(p)' = Wanted(p)
    BY DEF Old, Seen, Wanted, IdentityIn
  <2>2. \A p \in PIDs : InEvidence(p) => InEvidence(p)'
    BY <1>3 DEF InEvidence, IdentityIn
  <2>3. ASSUME Wanted(m) PROVE InEvidence(m)'
    <3>1. Old(m) /\ Seen(m)
      BY <1>1, <1>10, <2>3 DEF Inv, FoundOK, Wanted
    <3>2. IdentityIn(snap, m) = IdentityIn(procs, m)
      BY <3>1 DEF Seen, IdentityIn
    <3> QED BY <1>2, <1>3, <3>1, <3>2 DEF InEvidence, IdentityIn
  <2> QED BY <1>10, <2>1, <2>2, <2>3 DEF Inv, FoundOK
<1> QED BY <1>4, <1>5, <1>6, <1>7, <1>8, <1>9, <1>10 DEF Inv

-----------------------------------------------------------------------------
(* Descendants.  The passes of the loop go down from the attributed        *)
(* processes, Ancestors goes up from one process: after as many passes as  *)
(* steps, both see the same.                                               *)

Some == PIDs \cup {0}

Parents(S) == {snap[q].parent : q \in S \cap Running(snap)}

(* Up[i][x] is what is reached from x in i steps up. *)
IsUp(Up) ==
    /\ Up \in [0..Cardinality(PIDs) -> [Some -> SUBSET Some]]
    /\ \A x \in Some : Up[0][x] = {x}
    /\ \A i \in 1..Cardinality(PIDs), x \in Some :
          Up[i][x] = Up[i - 1][x] \cup Parents(Up[i - 1][x])

(* There is a number of identifiers. *)
LEMMA CountOfPIDs == Cardinality(PIDs) \in Nat
BY PIDsAssumption, FS_CardinalityType

(* Parents are identifiers, or 0. *)
LEMMA ParentsType ==
    ASSUME TypeOK, NEW S
    PROVE  Parents(S) \subseteq Some
BY DEF TypeOK, Parents, Running, Some, Metadata

(* The steps up can be made from all processes at once. *)
LEMMA UpExists ==
    ASSUME TypeOK
    PROVE  \E Up : IsUp(Up)
<1> DEFINE N == Cardinality(PIDs)
           D == [Some -> SUBSET Some]
           G == [u \in D |-> [x \in Some |-> u[x] \cup Parents(u[x])]]
           F == [i \in 1..N |-> G]
           first == [x \in Some |-> {x}]
<1>1. N \in Nat
  BY CountOfPIDs
<1>2. first \in D
  OBVIOUS
<1>3. G \in [D -> D]
  <2>1. ASSUME NEW u \in D
        PROVE  [x \in Some |-> u[x] \cup Parents(u[x])] \in D
    BY ParentsType
  <2> QED BY <2>1
<1> HIDE DEF N, D
<1>4. F \in [1..N -> [D -> D]]
  BY <1>3
<1>5. \A i \in 1..N : F[i] = G
  OBVIOUS
<1> HIDE DEF F, G, first
<1>6. PICK Up \in [0..N -> D] : Up[0] = first /\ \A i \in 1..N : Up[i] = F[i][Up[i - 1]]
  BY <1>1, <1>2, <1>4, IterationExists
<1>7. ASSUME NEW i \in 1..N, NEW x \in Some
      PROVE  Up[i][x] = Up[i - 1][x] \cup Parents(Up[i - 1][x])
  <2>1. i - 1 \in 0..N
    BY <1>1
  <2>2. Up[i - 1] \in D /\ Up[i] = G[Up[i - 1]]
    BY <1>5, <1>6, <2>1
  <2>3. Up[i] = [y \in Some |-> Up[i - 1][y] \cup Parents(Up[i - 1][y])]
    BY <2>2 DEF G
  <2> QED BY <2>3
<1>8. \A x \in Some : Up[0][x] = {x}
  BY <1>6 DEF first
<1>9. \A i \in 1..N, x \in Some : Up[i][x] = Up[i - 1][x] \cup Parents(Up[i - 1][x])
  BY <1>7
<1>10. IsUp(Up)
  BY <1>8, <1>9 DEF IsUp, N, D
<1> QED BY <1>10

(* Ancestors makes these steps. *)
LEMMA AncestorsAreUp ==
    ASSUME NEW Up, IsUp(Up), NEW p \in Some
    PROVE  Ancestors(p) = Up[Cardinality(PIDs)][p]
<1> DEFINE N == Cardinality(PIDs)
           Eq(g) == g = [k \in 0..N |->
                           IF k = 0 THEN {p}
                           ELSE g[k - 1] \cup
                                {snap[q].parent : q \in g[k - 1] \cap Running(snap)}]
           up == CHOOSE g : Eq(g)
           h == [k \in 0..N |-> Up[k][p]]
<1>1. N \in Nat
  BY CountOfPIDs
<1>2. Ancestors(p) = up[N]
  BY DEF Ancestors
<1> HIDE DEF N
<1>3. Eq(h)
  <2>1. ASSUME NEW k \in 0..N
        PROVE  h[k] = IF k = 0 THEN {p}
                      ELSE h[k - 1] \cup
                           {snap[q].parent : q \in h[k - 1] \cap Running(snap)}
    <3>1. CASE k = 0
      BY <1>1, <3>1 DEF IsUp
    <3>2. CASE k # 0
      <4>1. k \in 1..N /\ k - 1 \in 0..N
        BY <1>1, <3>2
      <4>2. Up[k][p] = Up[k - 1][p] \cup Parents(Up[k - 1][p])
        BY <4>1 DEF IsUp, N
      <4>3. h[k] = Up[k][p] /\ h[k - 1] = Up[k - 1][p]
        BY <4>1
      <4> QED BY <3>2, <4>2, <4>3 DEF Parents
    <3> QED BY <3>1, <3>2
  <2> DEFINE B(k) == IF k = 0 THEN {p}
                     ELSE h[k - 1] \cup
                          {snap[q].parent : q \in h[k - 1] \cap Running(snap)}
  <2>2. \A k \in 0..N : h[k] = B(k)
    BY <2>1
  <2>3. h = [k \in 0..N |-> h[k]]
    OBVIOUS
  <2> HIDE DEF h, B
  <2>4. h = [k \in 0..N |-> B(k)]
    BY <2>2, <2>3
  <2> QED BY <2>4 DEF B
<1> HIDE DEF Eq
<1>4. Eq(up)
  BY <1>3
<1> HIDE DEF up
<1> DEFINE S == {k \in 0..N : up[k] = Up[k][p]}
<1>5. 0 \in S
  BY <1>1, <1>4 DEF Eq, IsUp
<1>6. ASSUME NEW k \in 0..(N - 1), k \in S
      PROVE  k + 1 \in S
  <2>1. k + 1 \in 1..N /\ k + 1 \in 0..N /\ k + 1 # 0 /\ (k + 1) - 1 = k
    BY <1>1
  <2>2. up[k + 1] = up[k] \cup {snap[q].parent : q \in up[k] \cap Running(snap)}
    BY <1>4, <2>1 DEF Eq
  <2>3. Up[k + 1][p] = Up[k][p] \cup Parents(Up[k][p])
    BY <2>1 DEF IsUp, N
  <2> QED BY <1>6, <2>1, <2>2, <2>3 DEF Parents
<1> HIDE DEF S
<1>7. \A k \in 0..(N - 1) : k \in S => k + 1 \in S
  BY <1>6
<1>8. \A k \in 0..N : k \in S
  BY <1>1, <1>5, <1>7, BoundedInduction
<1>9. up[N] = Up[N][p]
  BY <1>1, <1>8 DEF S
<1> QED BY <1>2, <1>9 DEF N

(* A step up from x, and then i more, reach x and what i steps reach from  *)
(* its parent; there is no step from what is not in the snapshot.          *)
LEMMA UpFromParent ==
    ASSUME TypeOK, NEW Up, IsUp(Up)
    PROVE  \A i \in 0..Cardinality(PIDs), x \in Some :
               /\ x \in Up[i][x]
               /\ x \notin Running(snap) => Up[i][x] = {x}
               /\ x \in Running(snap) /\ i < Cardinality(PIDs) =>
                     Up[i + 1][x] = {x} \cup Up[i][snap[x].parent]
<1> DEFINE N == Cardinality(PIDs)
           P(i) == \A x \in Some :
                       /\ x \in Up[i][x]
                       /\ x \notin Running(snap) => Up[i][x] = {x}
                       /\ x \in Running(snap) /\ i < N =>
                             Up[i + 1][x] = {x} \cup Up[i][snap[x].parent]
           S == {i \in 0..N : P(i)}
<1>1. N \in Nat
  BY CountOfPIDs
<1>2. \A x \in Running(snap) : x \in Some /\ snap[x].parent \in Some
  BY DEF TypeOK, Running, Some, Metadata
<1>3. /\ \A x \in Some : Up[0][x] = {x}
      /\ \A i \in 1..N, x \in Some : Up[i][x] = Up[i - 1][x] \cup Parents(Up[i - 1][x])
  BY DEF IsUp
<1> HIDE DEF N
<1>4. 0 \in S
  <2>1. ASSUME NEW x \in Running(snap), 0 < N
        PROVE  Up[0 + 1][x] = {x} \cup Up[0][snap[x].parent]
    <3>1. Up[1][x] = Up[0][x] \cup Parents(Up[0][x])
      <4>1. 1 \in 1..N /\ 1 - 1 = 0
        BY <1>1, <2>1
      <4> QED BY <1>2, <1>3, <4>1
    <3>2. Up[0][x] = {x} /\ Up[0][snap[x].parent] = {snap[x].parent}
      BY <1>2, <1>3
    <3>3. Parents({x}) = {snap[x].parent}
      BY DEF Parents
    <3> QED BY <3>1, <3>2, <3>3
  <2> QED BY <1>1, <1>3, <2>1
<1>5. ASSUME NEW i \in 0..(N - 1), i \in S
      PROVE  i + 1 \in S
  <2>1. i \in 0..N /\ i + 1 \in 1..N /\ i + 1 \in 0..N /\ i < N /\ (i + 1) - 1 = i
    BY <1>1
  <2>2. \A x \in Some : Up[i + 1][x] = Up[i][x] \cup Parents(Up[i][x])
    BY <1>3, <2>1
  <2>3. P(i)
    BY <1>5
  <2>4. ASSUME NEW x \in Some, x \notin Running(snap)
        PROVE  Up[i + 1][x] = {x}
    <3>1. Up[i][x] = {x}
      BY <2>3, <2>4
    <3>2. Parents({x}) = {}
      BY <2>4 DEF Parents
    <3> QED BY <2>2, <3>1, <3>2
  <2>5. ASSUME NEW x \in Running(snap), i + 1 < N
        PROVE  Up[(i + 1) + 1][x] = {x} \cup Up[i + 1][snap[x].parent]
    <3> DEFINE y == snap[x].parent
    <3>1. y \in Some /\ x \in Some
      BY <1>2
    <3>2. Up[(i + 1) + 1][x] = Up[i + 1][x] \cup Parents(Up[i + 1][x])
      <4>1. (i + 1) + 1 \in 1..N /\ ((i + 1) + 1) - 1 = i + 1
        BY <1>1, <2>5
      <4> QED BY <1>3, <3>1, <4>1
    <3>3. Up[i + 1][x] = {x} \cup Up[i][y]
      BY <2>1, <2>3, <3>1
    <3>4. Parents({x} \cup Up[i][y]) = {y} \cup Parents(Up[i][y])
      BY DEF Parents
    <3>5. y \in Up[i][y]
      BY <2>3, <3>1
    <3>6. Up[i + 1][y] = Up[i][y] \cup Parents(Up[i][y])
      BY <2>2, <3>1
    <3> HIDE DEF y
    <3>7. Up[(i + 1) + 1][x] = {x} \cup Up[i + 1][y]
      BY <3>2, <3>3, <3>4, <3>5, <3>6
    <3> QED BY <3>7 DEF y
  <2>6. \A x \in Some : x \in Up[i + 1][x]
    BY <2>2, <2>3
  <2>7. P(i + 1)
    BY <2>4, <2>5, <2>6
  <2> HIDE DEF P
  <2> QED BY <2>1, <2>7
<1> HIDE DEF S
<1>6. \A i \in 0..(N - 1) : i \in S => i + 1 \in S
  BY <1>5
<1>7. \A i \in 0..N : i \in S
  BY <1>1, <1>4, <1>6, BoundedInduction
<1>8. \A i \in 0..N : P(i)
  BY <1>7 DEF S
<1> QED BY <1>8 DEF N

(* What the passes over the snapshot go through *)
Passes(reach) ==
    /\ reach[0] = Running(attr)
    /\ \A i \in 1..Cardinality(PIDs) :
          reach[i] = reach[i - 1] \cup
                     {q \in Running(snap) : snap[q].parent \in reach[i - 1]}

(* DescendantsIn is the end of that. *)
LEMMA DescendantsRun ==
    \E reach : Passes(reach) /\ DescendantsIn(Cardinality(PIDs)) = reach[Cardinality(PIDs)]
<1> DEFINE N == Cardinality(PIDs)
           A == Running(attr)
           Eq(g) == g = [i \in 0..N |->
                           IF i = 0 THEN Running(attr)
                           ELSE g[i - 1] \cup
                                {q \in Running(snap) : snap[q].parent \in g[i - 1]}]
           reach == CHOOSE g : Eq(g)
           D == SUBSET PIDs
           G == [s \in D |-> s \cup {q \in Running(snap) : snap[q].parent \in s}]
           F == [i \in 1..N |-> G]
<1>1. N \in Nat
  BY CountOfPIDs
<1>2. DescendantsIn(N) = reach[N]
  BY DEF DescendantsIn
<1>3. A \in D /\ G \in [D -> D]
  BY DEF Running
<1>4. F \in [1..N -> [D -> D]] /\ \A i \in 1..N : F[i] = G
  BY <1>3
<1> HIDE DEF F, G, D, A, N, reach
<1>5. PICK f \in [0..N -> D] : f[0] = A /\ \A i \in 1..N : f[i] = F[i][f[i - 1]]
  BY <1>1, <1>3, <1>4, IterationExists
<1> DEFINE B(i) == IF i = 0 THEN A
                   ELSE f[i - 1] \cup {q \in Running(snap) : snap[q].parent \in f[i - 1]}
<1>6. ASSUME NEW i \in 0..N PROVE f[i] = B(i)
  <2>1. CASE i = 0
    BY <1>5, <2>1
  <2>2. CASE i # 0
    <3>1. i \in 1..N /\ i - 1 \in 0..N
      BY <1>1, <2>2
    <3>2. f[i - 1] \in D /\ f[i] = G[f[i - 1]]
      BY <1>4, <1>5, <3>1
    <3> QED BY <2>2, <3>2 DEF G
  <2> QED BY <2>1, <2>2
<1>7. f = [i \in 0..N |-> f[i]]
  OBVIOUS
<1> HIDE DEF B
<1>8. f = [i \in 0..N |-> B(i)]
  BY <1>6, <1>7
<1>9. Eq(f)
  BY <1>8 DEF B, A
<1> HIDE DEF Eq
<1>10. Eq(reach)
  BY <1>9 DEF reach
<1>11. /\ reach[0] = A
       /\ \A i \in 1..N : reach[i] = reach[i - 1] \cup
                             {q \in Running(snap) : snap[q].parent \in reach[i - 1]}
  BY <1>1, <1>10 DEF Eq, A
<1> QED BY <1>2, <1>11 DEF Passes, A, N

(* As many passes as there are identifiers are enough: until one changes   *)
(* nothing, each adds a process.                                           *)
LEMMA PassesSuffice ==
    ASSUME NEW p \in Running(snap), snap[p].parent \in DescendantsIn(Cardinality(PIDs))
    PROVE  p \in DescendantsIn(Cardinality(PIDs))
<1> DEFINE N == Cardinality(PIDs)
<1>1. PICK reach : Passes(reach) /\ DescendantsIn(N) = reach[N]
  BY DescendantsRun
<1>2. N \in Nat /\ Running(snap) \subseteq PIDs /\ Running(attr) \subseteq PIDs
  BY CountOfPIDs DEF Running
<1> DEFINE Closed(s) == \A q \in Running(snap) : snap[q].parent \in s => q \in s
           T == {i \in 0..N : /\ reach[i] \subseteq PIDs
                              /\ i <= Cardinality(reach[i]) \/ Closed(reach[i])}
<1>3. \A s \in SUBSET PIDs : IsFiniteSet(s) /\ Cardinality(s) \in Nat
  BY PIDsAssumption, FS_Subset, FS_CardinalityType
<1> HIDE DEF N
<1>4. 0 \in T
  <2>1. reach[0] \in SUBSET PIDs
    BY <1>1, <1>2 DEF Passes
  <2>2. 0 <= Cardinality(reach[0])
    BY <1>3, <2>1
  <2> QED BY <1>2, <2>1, <2>2
<1>5. ASSUME NEW i \in 0..(N - 1), i \in T
      PROVE  i + 1 \in T
  <2> DEFINE r == reach[i]
             s == reach[i + 1]
  <2>1. i + 1 \in 1..N /\ i + 1 \in 0..N /\ (i + 1) - 1 = i
    BY <1>2
  <2>2. s = r \cup {q \in Running(snap) : snap[q].parent \in r}
    BY <1>1, <2>1 DEF Passes, N
  <2>3. r \in SUBSET PIDs /\ s \in SUBSET PIDs
    BY <1>2, <1>5, <2>2
  <2> HIDE DEF r, s
  <2>4. CASE Closed(r)
    <3>1. s = r
      BY <2>2, <2>4
    <3> QED BY <2>1, <2>3, <2>4, <3>1 DEF s
  <2>5. CASE ~Closed(r)
    <3>1. PICK q \in Running(snap) : snap[q].parent \in r /\ q \notin r
      BY <2>5
    <3>2. Cardinality(r \cup {q}) = Cardinality(r) + 1
      BY <1>3, <2>3, <3>1, FS_AddElement
    <3>3. r \cup {q} \subseteq s
      BY <2>2, <3>1
    <3>4. Cardinality(r \cup {q}) <= Cardinality(s)
      BY <1>3, <2>3, <3>3, FS_Subset
    <3>5. i <= Cardinality(r)
      BY <1>5, <2>5 DEF r
    <3>6. i + 1 <= Cardinality(s)
      BY <1>2, <1>3, <2>3, <3>2, <3>4, <3>5
    <3> QED BY <2>1, <2>3, <3>6 DEF s
  <2> QED BY <2>4, <2>5
<1>6. N \in T
  <2> HIDE DEF T
  <2>1. \A i \in 0..(N - 1) : i \in T => i + 1 \in T
    BY <1>5
  <2> QED BY <1>2, <1>4, <2>1, BoundedInduction
<1>7. Closed(reach[N])
  <2>1. CASE N <= Cardinality(reach[N])
    <3>1. reach[N] \in SUBSET PIDs
      BY <1>6
    <3>2. reach[N] = PIDs
      BY <1>2, <1>3, <2>1, <3>1, FS_Subset, PIDsAssumption DEF N
    <3> QED BY <1>2, <3>2
  <2> QED BY <1>6, <2>1
<1> QED BY <1>1, <1>7 DEF N

(* The loop attributes a process exactly when one of its ancestors is      *)
(* attributed.                                                             *)
LEMMA DescendantsByAncestors ==
    ASSUME TypeOK, NEW p \in PIDs
    PROVE  p \in DescendantsIn(Cardinality(PIDs)) <=>
               Ancestors(p) \cap Running(attr) # {}
<1> DEFINE N == Cardinality(PIDs)
           A == Running(attr)
<1>1. N \in Nat
  BY CountOfPIDs
<1>2. PICK reach : Passes(reach) /\ DescendantsIn(N) = reach[N]
  BY DescendantsRun
<1>3. PICK Up : IsUp(Up)
  BY UpExists
<1>5. /\ reach[0] = A
      /\ \A i \in 1..N : reach[i] = reach[i - 1] \cup
                            {q \in Running(snap) : snap[q].parent \in reach[i - 1]}
  BY <1>2 DEF Passes
<1> HIDE DEF N
<1> DEFINE P(i) == \A x \in Some : x \in reach[i] <=> Up[i][x] \cap A # {}
           S == {i \in 0..N : P(i)}
<1>6. 0 \in S
  BY <1>1, <1>3, <1>5 DEF IsUp
<1>7. ASSUME NEW i \in 0..(N - 1), i \in S
      PROVE  i + 1 \in S
  <2>1. i \in 0..N /\ i + 1 \in 1..N /\ i + 1 \in 0..N /\ i < N /\ (i + 1) - 1 = i
    BY <1>1
  <2>2. reach[i + 1] = reach[i] \cup {q \in Running(snap) : snap[q].parent \in reach[i]}
    BY <1>5, <2>1
  <2>3. P(i)
    BY <1>7
  <2>4. \A x \in Running(snap) : x \in Some /\ snap[x].parent \in Some
    BY DEF TypeOK, Running, Some, Metadata
  <2> HIDE DEF A
  <2>5. ASSUME NEW x \in Some
        PROVE  x \in reach[i + 1] <=> Up[i + 1][x] \cap A # {}
    <3>1. CASE x \notin Running(snap)
      <4>1. Up[i][x] = {x} /\ Up[i + 1][x] = {x}
        BY <1>3, <2>1, <3>1, UpFromParent DEF N
      <4>2. x \in reach[i + 1] <=> x \in reach[i]
        BY <2>2, <3>1
      <4>3. x \in reach[i] <=> Up[i][x] \cap A # {}
        BY <2>3
      <4> QED BY <4>1, <4>2, <4>3
    <3>2. CASE x \in Running(snap)
      <4> DEFINE y == snap[x].parent
      <4>1. y \in Some
        BY <2>4, <3>2
      <4>2. Up[i + 1][x] = {x} \cup Up[i][y] /\ x \in Up[i][x]
        BY <1>3, <2>1, <3>2, UpFromParent DEF N
      <4>3. Up[i][x] \subseteq Up[i + 1][x]
        BY <1>3, <2>1 DEF IsUp, N
      <4>4. x \in reach[i + 1] <=> x \in reach[i] \/ y \in reach[i]
        BY <2>2, <3>2
      <4>5. /\ x \in reach[i] <=> Up[i][x] \cap A # {}
            /\ y \in reach[i] <=> Up[i][y] \cap A # {}
        BY <2>3, <4>1
      <4> HIDE DEF y, P, S
      <4> QED BY <4>2, <4>3, <4>4, <4>5
    <3> QED BY <3>1, <3>2
  <2>6. P(i + 1)
    BY <2>5
  <2> HIDE DEF P
  <2> QED BY <2>1, <2>6
<1> HIDE DEF S
<1>8. \A i \in 0..(N - 1) : i \in S => i + 1 \in S
  BY <1>7
<1>9. \A i \in 0..N : i \in S
  BY <1>1, <1>6, <1>8, BoundedInduction
<1>10. p \in reach[N] <=> Up[N][p] \cap A # {}
  BY <1>1, <1>9 DEF S, Some
<1>11. Ancestors(p) = Up[N][p]
  BY <1>3, AncestorsAreUp DEF N, Some
<1> QED BY <1>2, <1>10, <1>11 DEF N

(* Nothing outside of the snapshot is a descendant. *)
LEMMA DescendantsInSnapshot ==
    ASSUME TypeOK, Running(attr) \subseteq Running(snap),
           NEW p \in PIDs, p \in DescendantsIn(Cardinality(PIDs))
    PROVE  p \in Running(snap)
<1>1. PICK Up : IsUp(Up)
  BY UpExists
<1>2. Ancestors(p) = Up[Cardinality(PIDs)][p]
  BY <1>1, AncestorsAreUp DEF Some
<1>3. p \notin Running(snap) => Up[Cardinality(PIDs)][p] = {p}
  BY <1>1, UpFromParent, CountOfPIDs DEF Some
<1> QED BY <1>2, <1>3, DescendantsByAncestors

(* With a process all its children in the snapshot are attributed. *)
LEMMA DescendOK ==
    ASSUME Inv, Descend
    PROVE  Inv'
<1> DEFINE D == DescendantsIn(Cardinality(PIDs))
<1>0. /\ Resolving /\ step = "holds" /\ todo = {} /\ step' = "ports"
      /\ attr' = [p \in PIDs |-> IF p \in D /\ attr[p] = None
                                 THEN "descendant" ELSE attr[p]]
      /\ todo' = Running(attr')
      /\ UNCHANGED <<procs, starts, phase, base, events, receipts, snap, listed,
                     matched, evidence, limited, report, partial, status>>
  BY DEF Descend, world, hints, result
<1>1. None # "descendant" /\ None \notin Reasons /\ "descendant" \in Reasons
  BY NoValueAssumption DEF Reasons
<1>2. TypeOK /\ Running(attr) \subseteq Running(snap)
      /\ \A p \in PIDs : attr[p] # "descendant"
  BY <1>0 DEF Inv, LocalsOK
<1>3. \A p \in PIDs : /\ p \in D => snap[p] # None
                      /\ p \in D <=> Ancestors(p) \cap Running(attr) # {}
  BY <1>2, DescendantsInSnapshot, DescendantsByAncestors DEF Running
<1>4. \A p \in PIDs : attr[p] # None => p \in Ancestors(p)
  <2>1. PICK Up : IsUp(Up)
    BY <1>2, UpExists
  <2> QED BY <1>2, <2>1, AncestorsAreUp, UpFromParent, CountOfPIDs DEF Some
<1> HIDE DEF D
<1>5. /\ attr' \in [PIDs -> Reasons \cup {None}]
      /\ \A p \in PIDs : attr'[p] = IF p \in D /\ attr[p] = None
                                    THEN "descendant" ELSE attr[p]
  BY <1>0, <1>1, <1>2 DEF TypeOK
<1>6. TypeOK'
  BY <1>0, <1>5 DEF Inv, TypeOK, Running
<1>7. TimesOK'
  BY <1>0 DEF Inv, TimesOK, Running
<1>8. LocalsOK'
  BY <1>0, <1>2, <1>3, <1>5 DEF Inv, LocalsOK, Resolving, Running
<1>9. EvidenceOK'
  BY <1>0 DEF Inv, EvidenceOK, Running, IdentityIn
<1>10. ReasonsOK'
  BY <1>0, <1>5 DEF Inv, ReasonsOK, Running, IdentityIn
<1>11. AttributionClosed'
  <2>1. \A p : Ancestors(p)' = Ancestors(p)
    BY <1>0 DEF Ancestors, Running
  <2>2. Running(snap)' = Running(snap)
    BY <1>0 DEF Running
  <2>3. \A a \in PIDs : attr'[a] \notin {None, "descendant"} <=> a \in Running(attr)
    BY <1>1, <1>2, <1>5 DEF Running
  <2>4. \A p \in PIDs : attr'[p] # None <=> p \in D
    BY <1>1, <1>3, <1>4, <1>5 DEF Running
  <2>5. ASSUME NEW p \in Running(snap)
        PROVE  attr'[p] # None <=>
                  \E a \in Ancestors(p) \cap Running(snap) :
                      attr'[a] \notin {None, "descendant"}
    <3>1. p \in PIDs /\ Running(snap) \subseteq PIDs /\ Running(attr) \subseteq PIDs
      BY DEF Running
    <3>2. attr'[p] # None <=> \E a \in Ancestors(p) : a \in Running(attr)
      BY <1>3, <2>4, <3>1
    <3> QED BY <1>2, <2>3, <3>1, <3>2
  <2>6. ASSUME NEW p \in Running(snap), snap[p].parent \in Running(attr')
        PROVE  attr'[p] # None
    <3>1. p \in PIDs /\ snap[p].parent \in PIDs /\ attr'[snap[p].parent] # None
      BY <2>6 DEF Running
    <3>2. snap[p].parent \in D
      BY <2>4, <3>1
    <3>3. p \in D
      BY <3>2, PassesSuffice DEF D
    <3> QED BY <2>4, <3>1, <3>3
  <2>7. Running(attr)' = Running(attr') /\ snap' = snap
    BY <1>0 DEF Running
  <2> QED BY <2>1, <2>2, <2>5, <2>6, <2>7 DEF AttributionClosed
<1>12. AbsenceIsReal'
  BY <1>0 DEF AbsenceIsReal, Resolving
<1>13. ASSUME "query" \notin Failing PROVE FoundOK'
  <2>1. \A p \in PIDs : Old(p)' = Old(p) /\ Seen(p)' = Seen(p) /\ Wanted(p)' = Wanted(p)
    BY <1>0 DEF Old, Seen, Wanted, IdentityIn
  <2>2. \A p \in PIDs : attr[p] # None => attr'[p] # None
    BY <1>5
  <2>3. \A p \in PIDs : attr'[p] # None => p \in todo'
    BY <1>0 DEF Running
  <2> QED BY <1>0, <1>13, <2>1, <2>2, <2>3 DEF Inv, FoundOK
<1> QED BY <1>6, <1>7, <1>8, <1>9, <1>10, <1>11, <1>12, <1>13 DEF Inv

(* A process found unchanged, or else one that has gone. *)
LEMMA ProcessStillMatchesOK ==
    ASSUME Inv, NEW p \in PIDs, ProcessStillMatches(p)
    PROVE  Inv'
<1>0. /\ Resolving /\ step \in {"holds", "ports"} /\ matched = None /\ p \in todo
      /\ UNCHANGED <<procs, starts, phase, base, events, receipts, step, snap,
                     listed, attr, report, partial, status>>
  BY DEF ProcessStillMatches, world, hints, result
<1>1. CASE Alive(IdentityIn(snap, p))
  <2>1. matched' = p /\ UNCHANGED <<todo, evidence, limited>>
    BY <1>1 DEF ProcessStillMatches
  <2>2. TypeOK'
    BY <1>0, <2>1 DEF Inv, TypeOK
  <2>3. TimesOK'
    BY <1>0 DEF Inv, TimesOK, Running
  <2>4. LocalsOK'
    BY <1>0, <2>1 DEF Inv, LocalsOK, Resolving, Running
  <2>5. EvidenceOK' /\ ReasonsOK'
    BY <1>0, <2>1 DEF Inv, EvidenceOK, ReasonsOK, Running, IdentityIn
  <2>6. AttributionClosed' /\ AbsenceIsReal'
    BY <1>0, ClosedSame DEF Inv, AbsenceIsReal, Resolving
  <2>7. ASSUME "query" \notin Failing PROVE FoundOK'
    BY <1>0, <2>1, <2>7 DEF Inv, FoundOK, Resolving, Old, Seen, Wanted, InEvidence,
                            IdentityIn
  <2> QED BY <2>2, <2>3, <2>4, <2>5, <2>6, <2>7 DEF Inv
<1>2. CASE ~Alive(IdentityIn(snap, p))
  <2>1. Unanswered(p) /\ matched' = None
    BY <1>0, <1>2 DEF ProcessStillMatches
  <2>2. CASE step = "holds"
    BY <1>0, <2>1, <2>2, HoldsStepOK DEF Unanswered
  <2>3. CASE step = "ports"
    BY <1>0, <2>1, <2>3, PortsStepOK DEF Unanswered
  <2> QED BY <1>0, <2>2, <2>3
<1> QED BY <1>1, <1>2

(* The answer about open files. *)
LEMMA HoldsAnyPathOK ==
    ASSUME Inv, HoldsAnyPath
    PROVE  Inv'
<1>0. /\ Resolving /\ step = "holds" /\ matched # None /\ matched' = None
      /\ UNCHANGED <<procs, starts, phase, base, events, receipts, step, snap,
                     listed, report, partial, status>>
  BY DEF HoldsAnyPath, world, hints, result
<1>1. matched \in todo /\ limited \in BOOLEAN
  BY <1>0 DEF Inv, LocalsOK, TypeOK
<1>2. /\ todo' = todo \ {matched} /\ limited' \in BOOLEAN /\ UNCHANGED evidence
      /\ attr' = attr \/ attr' = [attr EXCEPT ![matched] = "open_candidate_path"]
  BY <1>0, <1>1 DEF HoldsAnyPath, Unanswered
<1> QED BY <1>0, <1>1, <1>2, HoldsStepOK

(* The answer about ports. *)
LEMMA ListeningPortsOK ==
    ASSUME Inv, ListeningPorts
    PROVE  Inv'
<1>0. /\ Resolving /\ step = "ports" /\ matched # None /\ matched' = None
      /\ UNCHANGED <<procs, starts, phase, base, events, receipts, step, snap,
                     listed, attr, report, partial, status>>
  BY DEF ListeningPorts, world, hints, result
<1>1. matched \in todo /\ limited \in BOOLEAN /\ matched \in PIDs
  BY <1>0 DEF Inv, LocalsOK, TypeOK
<1>2. CASE /\ procs[matched] # None /\ todo' = todo \ {matched}
           /\ Found(matched, procs[matched].kind.ports) /\ UNCHANGED limited
  <2>1. procs[matched].kind.ports \in SUBSET Ports
    <3>1. procs[matched].kind \in Kinds
      BY <1>1, <1>2 DEF Inv, TypeOK, Process
    <3> QED BY <3>1, KindsAssumption
  <2> QED BY <1>0, <1>1, <1>2, <2>1, PortsStepOK
<1>3. CASE Unanswered(matched)
  BY <1>0, <1>1, <1>3, PortsStepOK DEF Unanswered
<1> QED BY <1>2, <1>3 DEF ListeningPorts

(* The last process has been asked. *)
LEMMA EndOfPortsOK ==
    ASSUME Inv, EndOfPorts
    PROVE  Inv'
<1>0. /\ Resolving /\ step = "ports" /\ todo = {} /\ matched = None /\ step' = "build"
      /\ UNCHANGED <<procs, starts, phase, base, events, receipts, todo, snap, listed,
                     attr, matched, evidence, limited, report, partial, status>>
  BY DEF EndOfPorts, world, hints, result
<1>1. TypeOK'
  BY <1>0 DEF Inv, TypeOK
<1>2. TimesOK'
  BY <1>0 DEF Inv, TimesOK, Running
<1>3. LocalsOK'
  BY <1>0 DEF Inv, LocalsOK, Resolving, Running
<1>4. EvidenceOK' /\ ReasonsOK'
  BY <1>0 DEF Inv, EvidenceOK, ReasonsOK, Running, IdentityIn
<1>5. AttributionClosed' /\ AbsenceIsReal'
  BY <1>0 DEF AttributionClosed, AbsenceIsReal, Resolving
<1>6. ASSUME "query" \notin Failing PROVE FoundOK'
  BY <1>0, <1>6 DEF Inv, FoundOK, Resolving, Old, Seen, Wanted, InEvidence, IdentityIn
<1> QED BY <1>1, <1>2, <1>3, <1>4, <1>5, <1>6 DEF Inv

-----------------------------------------------------------------------------
(* The report and its verification *)

(* A candidate of the report comes from evidence. *)
LEMMA CandidateFrom ==
    ASSUME Inv, BuildReport, NEW c \in report'
    PROVE  \E e \in evidence :
               /\ ExcludeBaselineOnly(e) /\ c.id = e.id /\ c \in Candidate
               /\ c.level = ProcessEvidenceLevel(e.reason)
<1>1. PICK e \in evidence : ExcludeBaselineOnly(e) /\ c \in ProcessCandidates(e)
  BY DEF BuildReport
<1>2. PICK port \in e.ports \cup {None} :
          c = [id |-> e.id, port |-> port, level |-> ProcessEvidenceLevel(e.reason)]
  BY <1>1 DEF ProcessCandidates
<1>3. e \in Evidence
  BY DEF Inv, TypeOK
<1>4. ProcessEvidenceLevel(e.reason) \in Levels
  BY DEF ProcessEvidenceLevel, Levels
<1>5. e.id \in Identity /\ port \in Ports \cup {None}
  BY <1>2, <1>3 DEF Evidence
<1>6. c \in Candidate /\ c.id = e.id /\ c.level = ProcessEvidenceLevel(e.reason)
  BY <1>2, <1>4, <1>5 DEF Candidate
<1> QED BY <1>1, <1>6

(* End *)
LEMMA BuildReportOK ==
    ASSUME Inv, BuildReport
    PROVE  Inv'
<1>0. /\ phase = "end" /\ step = "build" /\ phase' = "reported"
      /\ partial' = limited /\ limited' = FALSE
      /\ base' = {} /\ events' = {} /\ receipts' = {}
      /\ step' = "none" /\ snap' = Nothing /\ attr' = Nothing
      /\ evidence' = {} /\ listed' = 0
      /\ UNCHANGED <<procs, starts, todo, matched, status>>
  BY DEF BuildReport, Discard, world
<1>1. /\ matched = None /\ Running(attr)' = {} /\ Running(snap)' = {}
      /\ \A p \in PIDs : attr'[p] = None
  BY <1>0, NothingIsEmpty DEF Inv, LocalsOK, Running
<1>2. TypeOK'
  <2>1. report' \subseteq Candidate
    BY CandidateFrom
  <2>2. listed' \in 0..MaxStarts
    BY <1>0, BoundsAssumption
  <2> QED BY <1>0, <2>1, <2>2, NothingIsEmpty DEF Inv, TypeOK
<1>3. TimesOK'
  <2>1. \A c \in report' : c.id[2] <= starts
    <3>1. ASSUME NEW e \in evidence
          PROVE  e.id[2] <= starts
      <4>1. e.id[1] \in Running(snap) /\ e.id = <<e.id[1], snap[e.id[1]].created>>
        BY DEF Inv, EvidenceOK, IdentityIn
      <4>2. snap[e.id[1]].created <= starts
        BY <4>1 DEF Inv, TimesOK
      <4> QED BY <4>1, <4>2
    <3> QED BY <3>1, CandidateFrom
  <2>2. listed' <= starts
    <3>1. starts \in 0..MaxStarts
      BY DEF Inv, TypeOK
    <3> QED BY <1>0, <3>1, BoundsAssumption
  <2> QED BY <1>0, <1>1, <2>1, <2>2 DEF Inv, TimesOK, Running
<1>4. LocalsOK'
  <2>1. None # "descendant"
    BY NoValueAssumption DEF Reasons
  <2> QED BY <1>0, <1>1, <2>1 DEF LocalsOK, Resolving
<1>5. EvidenceOK'
  <2>1. \A d, e \in evidence : d.id[1] = e.id[1] => d.id = e.id
    BY DEF Inv, EvidenceOK
  <2>2. \A c \in report' : \E e \in evidence : c.id = e.id
    BY CandidateFrom
  <2>3. \A c, d \in report' : c.id[1] = d.id[1] => c.id = d.id
    BY <2>1, <2>2
  <2> QED BY <1>0, <2>3 DEF EvidenceOK
<1>6. ReasonsOK' /\ AttributionClosed' /\ FoundOK' /\ AbsenceIsReal'
  BY <1>0 DEF ReasonsOK, AttributionClosed, FoundOK, AbsenceIsReal, Resolving
<1> QED BY <1>2, <1>3, <1>4, <1>5, <1>6 DEF Inv

(* Verify.  A candidate that runs was found, unless there is a limitation, *)
(* so its status is that of an active reference.                           *)
LEMMA VerifyOK ==
    ASSUME Inv, Verify
    PROVE  Inv'
<1>0. /\ phase = "verify" /\ step = "build" /\ phase' = "verified"
      /\ status' = [c \in report |-> StatusOf(c)]
      /\ step' = "none" /\ snap' = Nothing /\ attr' = Nothing
      /\ evidence' = {} /\ listed' = 0
      /\ UNCHANGED <<procs, starts, base, events, receipts, todo, matched, limited,
                     report, partial>>
  BY DEF Verify, Discard, world, hints
<1>1. /\ matched = None /\ Running(attr)' = {} /\ Running(snap)' = {}
      /\ \A p \in PIDs : attr'[p] = None
  BY <1>0, NothingIsEmpty DEF Inv, LocalsOK, Running
<1>2. TypeOK'
  <2>1. status' \in [report' -> Status]
    BY <1>0 DEF StatusOf, Status
  <2>2. listed' \in 0..MaxStarts
    BY <1>0, BoundsAssumption
  <2> QED BY <1>0, <2>1, <2>2, NothingIsEmpty DEF Inv, TypeOK
<1>3. TimesOK'
  <2>1. listed' <= starts
    <3>1. starts \in 0..MaxStarts
      BY DEF Inv, TypeOK
    <3> QED BY <1>0, <3>1, BoundsAssumption
  <2> QED BY <1>0, <1>1, <2>1 DEF Inv, TimesOK, Running
<1>4. LocalsOK'
  <2>1. None # "descendant"
    BY NoValueAssumption DEF Reasons
  <2> QED BY <1>0, <1>1, <2>1 DEF LocalsOK, Resolving
<1>5. EvidenceOK'
  BY <1>0 DEF Inv, EvidenceOK
<1>6. ReasonsOK' /\ AttributionClosed' /\ FoundOK'
  BY <1>0 DEF ReasonsOK, AttributionClosed, FoundOK, Resolving
<1>7. ASSUME "query" \notin Failing PROVE AbsenceIsReal'
  <2> SUFFICES ASSUME ~limited, NEW c \in report, StatusOf(c) = "NO_LONGER_PRESENT",
                      Alive(c.id), c.port \in procs[c.id[1]].kind.ports \cup {None}
               PROVE  FALSE
    BY <1>0 DEF AbsenceIsReal, Alive
  <2> DEFINE p == c.id[1]
  <2>1. p \in PIDs /\ c.id = <<p, c.id[2]>> /\ procs[p] # None /\ procs[p].created = c.id[2]
    BY Numbers DEF Inv, Alive
  <2>2. c.id = IdentityIn(procs, p)
    BY <2>1 DEF IdentityIn
  <2>3. Old(p)
    BY <1>0, <2>1 DEF Inv, TimesOK, Old
  <2> HIDE DEF p
  <2>4. Wanted(p)
    BY <1>0, <2>2, <2>3 DEF Wanted
  <2>5. InEvidence(p)
    BY <1>0, <1>7, <2>1, <2>4 DEF Inv, FoundOK, Resolving
  <2>6. PICK e \in evidence : e.id = c.id /\ e.ports = procs[p].kind.ports
    BY <2>2, <2>5 DEF InEvidence
  <2>7. e \in VerifiedProcesses /\ e.id[1] = c.id[1]
        /\ (c.port # None => c.port \in e.ports)
    BY <2>6 DEF VerifiedProcesses, p
  <2> QED BY <2>7 DEF StatusOf
<1> QED BY <1>2, <1>3, <1>4, <1>5, <1>6, <1>7 DEF Inv

-----------------------------------------------------------------------------
(* The invariant holds at first. *)
LEMMA InitOK == Init => Inv
<1> SUFFICES ASSUME Init PROVE Inv
  OBVIOUS
<1>1. procs = Nothing /\ Running(procs) = {} /\ Running(snap) = {} /\ Running(attr) = {}
  BY NothingIsEmpty DEF Init
<1>2. TypeOK
  <2>1. procs \in [PIDs -> Process \cup {None}]
    BY DEF Init, Nothing
  <2>2. starts \in 0..MaxStarts /\ listed \in 0..MaxStarts
    BY BoundsAssumption DEF Init
  <2>3. /\ snap \in [PIDs -> Metadata \cup {None}]
        /\ attr \in [PIDs -> Reasons \cup {None}]
    BY NothingIsEmpty DEF Init
  <2>4. /\ base \subseteq Identity /\ events \subseteq Identity
        /\ receipts \subseteq Identity /\ todo \subseteq PIDs
        /\ evidence \subseteq Evidence /\ report \subseteq Candidate
    BY DEF Init
  <2>5. /\ phase = "idle" /\ step = "none" /\ matched = None
        /\ limited = FALSE /\ partial = FALSE
    BY DEF Init
  <2> QED BY <2>1, <2>2, <2>3, <2>4, <2>5 DEF TypeOK
<1>3. TimesOK
  BY <1>1 DEF Init, TimesOK
<1>4. LocalsOK /\ EvidenceOK /\ ReasonsOK
  <2>1. None # "descendant"
    BY NoValueAssumption DEF Reasons
  <2> QED BY <1>1, <2>1 DEF Init, LocalsOK, EvidenceOK, ReasonsOK, Resolving
<1>5. AttributionClosed /\ FoundOK /\ AbsenceIsReal
  BY DEF Init, AttributionClosed, FoundOK, AbsenceIsReal, Resolving
<1> QED BY <1>2, <1>3, <1>4, <1>5 DEF Inv

(* Every step keeps it. *)
LEMMA NextOK == Inv /\ [Next]_vars => Inv'
<1> SUFFICES ASSUME Inv, [Next]_vars PROVE Inv'
  OBVIOUS
<1>1. CASE \E p \in PIDs, parent \in PIDs \cup {0}, kind \in Kinds :
              Start(p, parent, kind)
  BY <1>1, StartOK
<1>2. CASE \E p \in PIDs : Exit(p)
  BY <1>2, ExitOK
<1>3. CASE Begin
  BY <1>3, BeginOK
<1>4. CASE \E p \in PIDs, receipt \in BOOLEAN : Declare(p, receipt)
  BY <1>4, DeclareOK
<1>5. CASE End
  BY <1>5, SnapshotOK DEF End, world, hints, result
<1>6. CASE \E p \in PIDs : Query(p)
  BY <1>6, QueryOK
<1>7. CASE \E paths \in BOOLEAN : Bind(paths)
  BY <1>7, BindOK
<1>8. CASE \E p \in PIDs : ProcessStillMatches(p)
  BY <1>8, ProcessStillMatchesOK
<1>9. CASE HoldsAnyPath
  BY <1>9, HoldsAnyPathOK
<1>10. CASE Descend
  BY <1>10, DescendOK
<1>11. CASE ListeningPorts
  BY <1>11, ListeningPortsOK
<1>12. CASE EndOfPorts
  BY <1>12, EndOfPortsOK
<1>13. CASE BuildReport
  BY <1>13, BuildReportOK
<1>14. CASE StartVerify
  BY <1>14, SnapshotOK DEF StartVerify, world, hints
<1>15. CASE Verify
  BY <1>15, VerifyOK
<1>16. CASE UNCHANGED vars
  <2>1. UNCHANGED <<procs, starts, phase, base, events, receipts, step, todo, snap,
                    listed, attr, matched, evidence, limited, report, partial, status>>
    BY <1>16 DEF vars, world, hints, work, result
  <2>2. Moves
    <3>1. /\ procs \in [PIDs -> Process \cup {None}]
          /\ starts \in 0..MaxStarts /\ starts <= starts
      BY BoundsAssumption DEF Inv, TypeOK
    <3> QED BY <2>1, <3>1 DEF Moves
  <2> QED BY <2>2, MovesOK
<1> QED BY <1>1, <1>2, <1>3, <1>4, <1>5, <1>6, <1>7, <1>8, <1>9, <1>10, <1>11,
           <1>12, <1>13, <1>14, <1>15, <1>16 DEF Next

(* The invariant holds in every reachable state. *)
LEMMA InvAlways == Spec => []Inv
BY InitOK, NextOK, PTL DEF Spec

-----------------------------------------------------------------------------
(* Theorems *)

(* Every variable keeps its type; a status exists for each candidate once  *)
(* Verify is done.                                                         *)
THEOREM TypeCorrect == Spec => []TypeOK
<1>1. Inv => TypeOK
  BY DEF Inv
<1> QED BY <1>1, InvAlways, PTL

(* The loop over the snapshot attributes exactly the processes that have   *)
(* an attributed ancestor, however long the chain of parents (Resolve).    *)
THEOREM DescendantsExact == Spec => []AttributionClosed
<1>1. Inv => AttributionClosed
  BY DEF Inv
<1> QED BY <1>1, InvAlways, PTL

(* A candidate of End is bound by an event or a receipt only to the very   *)
(* process that was declared (bindStableHints).                            *)
THEOREM BoundAsDeclared == Spec => BoundIsDeclared
<1> DEFINE A == \A c \in report' \ report :
                  /\ c.level = "EVENT_BOUND" => c.id \in events
                  /\ c.level = "RECEIPT_BOUND" => c.id \in receipts
<1>1. Inv /\ [Next]_vars => [A]_report
  <2> SUFFICES ASSUME Inv, [Next]_vars, report' # report, NEW c \in report' \ report
               PROVE  /\ c.level = "EVENT_BOUND" => c.id \in events
                      /\ c.level = "RECEIPT_BOUND" => c.id \in receipts
    OBVIOUS
  <2>1. BuildReport
    BY DEF Next, vars, result, Start, Exit, Begin, Declare, End, Query, Bind,
           ProcessStillMatches, HoldsAnyPath, Descend, ListeningPorts, EndOfPorts,
           StartVerify, Verify
  <2>2. phase = "end"
    BY <2>1 DEF BuildReport
  <2>3. PICK e \in evidence : c.id = e.id /\ c.level = ProcessEvidenceLevel(e.reason)
    BY <2>1, CandidateFrom
  <2>4. /\ c.level = "EVENT_BOUND" => e.reason = "event"
        /\ c.level = "RECEIPT_BOUND" => e.reason = "receipt"
    BY <2>3 DEF ProcessEvidenceLevel
  <2> QED BY <2>2, <2>3, <2>4 DEF Inv, ReasonsOK
<1> QED BY <1>1, InvAlways, PTL DEF Spec, BoundIsDeclared

(* Verify calls a candidate active only if its snapshot has that very      *)
(* process, although results are filed by identifier (Observer.Verify).    *)
THEOREM ActiveIsReported == Spec => ActiveIsSame
<1> DEFINE A == phase' = "verified" =>
                  \A c \in report : status'[c] = "ACTIVE_REFERENCE" =>
                      snap[c.id[1]] # None /\ IdentityIn(snap, c.id[1]) = c.id
<1>1. Inv /\ [Next]_vars => [A]_<<phase>>
  <2> SUFFICES ASSUME Inv, [Next]_vars, phase' # phase, phase' = "verified",
                      NEW c \in report, status'[c] = "ACTIVE_REFERENCE"
               PROVE  snap[c.id[1]] # None /\ IdentityIn(snap, c.id[1]) = c.id
    OBVIOUS
  <2>1. Verify
    BY DEF Next, vars, Start, Exit, Begin, Declare, End, Snapshot, Query, Bind,
           ProcessStillMatches, HoldsAnyPath, Descend, ListeningPorts, EndOfPorts,
           BuildReport, StartVerify
  <2>2. StatusOf(c) = "ACTIVE_REFERENCE"
    BY <2>1 DEF Verify
  <2>3. PICK e \in VerifiedProcesses : e.id[1] = c.id[1]
    BY <2>2 DEF StatusOf
  <2>4. e \in evidence /\ \E d \in report : d.id = e.id
    BY <2>3 DEF VerifiedProcesses
  <2>5. e.id = c.id
    BY <2>3, <2>4 DEF Inv, EvidenceOK
  <2> QED BY <2>3, <2>4, <2>5 DEF Inv, EvidenceOK, Running
<1> QED BY <1>1, InvAlways, PTL DEF Spec, ActiveIsSame

(* When the queries about processes do not fail, Verify mentions no        *)
(* limitation and says that a process or a port is no longer present only  *)
(* if it is not.  With failing queries it may (the run verify_absent).     *)
THEOREM AbsenceIsTrue ==
    ASSUME "query" \notin Failing
    PROVE  Spec => []AbsenceIsReal
<1>1. Inv => AbsenceIsReal
  BY DEF Inv
<1> QED BY <1>1, InvAlways, PTL

(* When those queries do not fail, a report of End that does not call its  *)
(* evidence partial has every process that started in a task root after    *)
(* Begin and runs since before the processes were listed.                  *)
THEOREM NoNewProcessMissed ==
    ASSUME "query" \notin Failing
    PROVE  Spec => NewProcessesReported
<1> DEFINE A == phase' = "reported" /\ ~partial' =>
                  \A p \in Running(procs) :
                      /\ procs[p].kind.inRoot /\ procs[p].created <= listed
                      /\ IdentityIn(procs, p) \notin base
                      => IdentityIn(procs, p) \in {c.id : c \in report'}
<1>1. Inv /\ [Next]_vars => [A]_<<phase>>
  <2> SUFFICES ASSUME Inv, [Next]_vars, phase' # phase, phase' = "reported", ~partial',
                      NEW p \in Running(procs), procs[p].kind.inRoot,
                      procs[p].created <= listed, IdentityIn(procs, p) \notin base
               PROVE  \E c \in report' : c.id = IdentityIn(procs, p)
    BY Zenon
  <2>1. BuildReport
    BY DEF Next, vars, Start, Exit, Begin, Declare, End, Snapshot, Query, Bind,
           ProcessStillMatches, HoldsAnyPath, Descend, ListeningPorts, EndOfPorts,
           StartVerify, Verify
  <2>2. phase = "end" /\ step = "build" /\ ~limited
    BY <2>1 DEF BuildReport
  <2>3. p \in PIDs /\ Wanted(p)
    BY <2>2 DEF Running, Wanted, Old
  <2>4. InEvidence(p)
    BY <2>2, <2>3 DEF Inv, FoundOK, Resolving
  <2>5. PICK e \in evidence : e.id = IdentityIn(procs, p)
    BY <2>4 DEF InEvidence
  <2>6. ExcludeBaselineOnly(e)
    BY <2>5 DEF ExcludeBaselineOnly
  <2> DEFINE c == [id |-> e.id, port |-> None, level |-> ProcessEvidenceLevel(e.reason)]
  <2>7. c \in ProcessCandidates(e) /\ c.id = e.id
    BY DEF ProcessCandidates
  <2>8. c \in report'
    BY <2>1, <2>6, <2>7 DEF BuildReport
  <2> QED BY <2>5, <2>7, <2>8
<1> QED BY <1>1, InvAlways, PTL DEF Spec, NewProcessesReported
=============================================================================
