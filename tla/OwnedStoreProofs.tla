-------------------------- MODULE OwnedStoreProofs --------------------------
(***************************************************************************)
(* The report files of the store, proved for any number of owners,         *)
(* threads, processes, crashes and file errors: every file is well typed,  *)
(* every stored report is a digest chain, and no revision is about other   *)
(* candidates than the report it verifies.                                 *)
(*                                                                         *)
(* None of this is inductive by itself.  A report is written from the copy *)
(* a request made of the file some steps before, so the invariant speaks   *)
(* of the copies the requests hold, and a revision is appended to a report *)
(* that may not be the one Verify read, so a pending revision must carry   *)
(* enough in its previous digest to fit whatever report ends in it.        *)
(***************************************************************************)
EXTENDS OwnedStore, TLAPS

(* The steps at which a request holds the report it is to write or page.   *)
RepSteps == {"complete", "completeMerge", "reportWrite", "chainWrite", "page",
             "inspect", "retroWrite"}

SweepSteps == {"sweepRead", "sweepRemove", "evict"}

(* A sweep is about no owner in particular while it reads a directory. *)
Ownerless == {"idle", "sweepRead", "evict"}

(* What a request holds at the steps that use it. *)
CallFits(c) ==
    /\ c.pc \notin Ownerless => c.owner \in Owners
    /\ c.pc \in SweepSteps => c.sweep \in SweepState
    /\ c.pc \in {"taskWrite", "endMerge", "completeMerge"} => c.rec \in TaskFile
    /\ c.pc \in RepSteps => c.rep \in ReportFile
    /\ c.pc = "revise" => c.rev \in Revision
    /\ c.pc = "batchWrite" => c.handle \in Handle

(* A digest chain whose links all commit to the report it starts with. *)
LinkSound(r, i) ==
    /\ LinkedAt(r, i)
    /\ r.revisions[i].snapshot.candidates = r.body.candidates
    /\ Len(r.revisions[i].digest) > 0
    /\ r.revisions[i].digest[1] = r.body

Sound(r) == \A i \in 1..Len(r.revisions) : LinkSound(r, i)

(* A revision that fits any sound report whose last digest it names. *)
RevisionSound(rev) ==
    /\ Len(rev.previousDigest) > 0
    /\ rev.digest = verificationDigest(rev.previousDigest, rev.snapshot)
    /\ rev.snapshot.candidates = rev.previousDigest[1].candidates

CallSound(c) ==
    /\ c.pc \in RepSteps => Sound(c.rep)
    /\ c.pc = "revise" => RevisionSound(c.rev)

USE DEF RepSteps, SweepSteps, Ownerless

CallsOK ==
    /\ call \in [Threads -> Call]
    /\ \A t \in Threads : CallFits(call[t]) /\ CallSound(call[t])

ReportsOK ==
    /\ report \in [Owners -> ReportFile \cup {None}]
    /\ \A o \in Owners : report[o] # None => Sound(report[o])

TasksOK ==
    /\ task \in [Owners -> TaskFile \cup {None}]
    /\ batches \in [Owners -> SUBSET Batch]
    /\ retro \in [Owners -> GrantFile \cup {None}]

IdsOK ==
    /\ used \subseteq Owners
    /\ minted \subseteq GrantIDs
    /\ issued \in [Owners -> SUBSET Handle]
    /\ acked \in [Owners -> SUBSET Events]

MuOK == mu \in [Procs -> Threads \cup {None}]

ClockOK == now \in Nat /\ faults \in Nat

(* The inductive invariant. *)
Inv == CallsOK /\ ReportsOK /\ TasksOK /\ IdsOK /\ MuOK /\ ClockOK

-----------------------------------------------------------------------------
(* Digest chains *)

(* The last digest of a sound report commits to the report itself, and its *)
(* last link is about the report's candidates (what Verify reads).         *)
LEMMA TipSound ==
    ASSUME NEW r \in ReportFile, Sound(r)
    PROVE  /\ TipDigest(r) \in Digest
           /\ Len(TipDigest(r)) > 0
           /\ TipDigest(r)[1] = r.body
           /\ TipCandidates(r) = r.body.candidates
<1>1. CASE r.revisions = <<>>
  BY <1>1 DEF TipDigest, TipCandidates, reportDigest, ReportFile, Digest
<1>2. CASE r.revisions # <<>>
  <2> DEFINE n == Len(r.revisions)
  <2>1. n \in 1..Len(r.revisions) /\ r.revisions[n] \in Revision
    BY <1>2 DEF ReportFile
  <2>2. LinkSound(r, n)
    BY <2>1 DEF Sound
  <2> QED
    BY <1>2, <2>1, <2>2 DEF TipDigest, TipCandidates, LinkSound, Revision
<1> QED
  BY <1>1, <1>2

(* A report that was not verified yet is sound. *)
LEMMA FreshSound ==
    ASSUME NEW r \in ReportFile, r.revisions = <<>>
    PROVE  Sound(r)
BY DEF Sound

(* A report that End or an inspection has built, and not stored yet. *)
LEMMA NewReportOK ==
    ASSUME NEW b \in Body
    PROVE  NewReport(b) \in ReportFile /\ NewReport(b).revisions = <<>>
BY DEF NewReport, ReportFile

(* Only the report and its revisions matter (Retain, the expiry). *)
LEMMA SoundByChain ==
    ASSUME NEW r, NEW q, q.body = r.body, q.revisions = r.revisions, Sound(r)
    PROVE  Sound(q)
BY DEF Sound, LinkSound, LinkedAt

(* The envelope a report is stored in leaves the report as it is. *)
LEMMA StampedOK ==
    ASSUME ClockOK, NEW r \in ReportFile, Sound(r)
    PROVE  Stamped(r) \in ReportFile /\ Sound(Stamped(r))
<1>1. now \in Nat /\ now + Retention \in Nat
  BY TimesAssumption DEF ClockOK
<1>2. /\ Stamped(r) \in ReportFile
      /\ Stamped(r).body = r.body
      /\ Stamped(r).revisions = r.revisions
  BY <1>1, Zenon DEF Stamped, ReportFile
<1> QED
  BY <1>2, SoundByChain

(* The check of AppendOwnedRevision is enough: a sound revision that names *)
(* the last digest of a sound report extends it to a sound report, even if *)
(* it was computed from another one.                                       *)
LEMMA ExtendSound ==
    ASSUME NEW r \in ReportFile, Sound(r),
           NEW rev \in Revision, RevisionSound(rev),
           ExtendsChain(rev, r)
    PROVE  LET q == [r EXCEPT !.revisions = Append(@, rev)]
           IN  q \in ReportFile /\ Sound(q)
<1> DEFINE q == [r EXCEPT !.revisions = Append(@, rev)]
           n == Len(r.revisions)
<1>1. /\ q \in ReportFile
      /\ q.body = r.body
      /\ n \in Nat
      /\ Len(q.revisions) = n + 1
      /\ q.revisions[n + 1] = rev
      /\ \A i \in 1..n : q.revisions[i] = r.revisions[i]
  BY DEF ReportFile
<1>2. ASSUME NEW i \in 1..n
      PROVE  LinkSound(q, i)
  <2>1. LinkSound(r, i)
    BY <1>2 DEF Sound
  <2>2. i = 1 \/ i - 1 \in 1..n
    BY <1>1, <1>2
  <2> HIDE DEF q, n
  <2> QED
    BY <1>1, <1>2, <2>1, <2>2 DEF LinkSound, LinkedAt
<1>3. LinkSound(q, n + 1)
  <2>1. /\ Len(TipDigest(r)) > 0
        /\ TipDigest(r)[1] = r.body
        /\ TipDigest(r) \in Digest
    BY TipSound
  <2>2. /\ rev.previousDigest = TipDigest(r)
        /\ rev.snapshot.revision = n + 1
        /\ rev.digest = Append(TipDigest(r), rev.snapshot)
        /\ rev.snapshot.candidates = r.body.candidates
    BY <2>1 DEF ExtendsChain, RevisionSound, verificationDigest
  <2>3. Len(rev.digest) > 0 /\ rev.digest[1] = r.body
    BY <2>1, <2>2 DEF Digest, Revision
  <2>4. TipDigest(r) = IF n + 1 = 1 THEN reportDigest(q.body)
                       ELSE q.revisions[n + 1 - 1].digest
    <3>1. CASE n = 0
      BY <3>1, <1>1 DEF TipDigest, ReportFile
    <3>2. CASE n # 0
      <4>1. n \in 1..n /\ r.revisions # <<>>
        BY <3>2, <1>1
      <4> QED
        BY <4>1, <1>1, <3>2 DEF TipDigest
    <3> QED
      BY <3>1, <3>2
  <2> HIDE DEF q, n
  <2> QED
    BY <1>1, <2>2, <2>3, <2>4 DEF LinkSound, LinkedAt, verificationDigest
<1>4. \A i \in 1..Len(q.revisions) : LinkSound(q, i)
  <2> HIDE DEF q, n
  <2>1. \A i \in 1..(n + 1) : i \in 1..n \/ i = n + 1
    BY <1>1
  <2> QED
    BY <1>1, <1>2, <1>3, <2>1
<1> QED
  BY <1>1, <1>4 DEF Sound

-----------------------------------------------------------------------------
(* Requests *)

(* A request that moves to a fitting, sound state keeps CallsOK. *)
LEMMA GotoOK ==
    ASSUME CallsOK, NEW t \in Threads,
           NEW c \in Call, CallFits(c), CallSound(c), Goto(t, c)
    PROVE  CallsOK'
<1>1. \A u \in Threads : call'[u] = IF u = t THEN c ELSE call[u]
  BY DEF CallsOK, Goto
<1>2. call' \in [Threads -> Call]
  BY DEF CallsOK, Goto
<1>3. \A u \in Threads : CallFits(call'[u]) /\ CallSound(call'[u])
  BY <1>1 DEF CallsOK
<1> QED
  BY <1>2, <1>3 DEF CallsOK, CallFits, CallSound

(* An idle request fits every step and holds nothing. *)
LEMMA IdleOK == IdleCall \in Call /\ CallFits(IdleCall) /\ CallSound(IdleCall)
<1>1. IdleCall \in Call
  BY DEF IdleCall, Call, Labels
<1>2. IdleCall.pc = "idle"
  BY DEF IdleCall
<1> QED
  BY <1>1, <1>2 DEF CallFits, CallSound

(* A request that returns, and all the requests of a process that dies. *)
LEMMA ReturnOK ==
    ASSUME CallsOK, NEW t \in Threads, Return(t)
    PROVE  CallsOK'
BY GotoOK, IdleOK DEF Return

(* The death of a process (Crash, a panic) leaves its requests idle. *)
LEMMA DieOK ==
    ASSUME CallsOK, MuOK, NEW p \in Procs, Die(p)
    PROVE  CallsOK' /\ MuOK'
<1>1. \A u \in Threads : call'[u] = IF ProcOf[u] = p THEN IdleCall ELSE call[u]
  BY DEF Die
<1>2. call' \in [Threads -> Call]
  BY IdleOK DEF CallsOK, Die
<1>3. \A u \in Threads : CallFits(call'[u]) /\ CallSound(call'[u])
  BY <1>1, IdleOK DEF CallsOK
<1> QED
  BY <1>2, <1>3 DEF CallsOK, CallFits, CallSound, MuOK, Die

(* Taking and releasing Store.mu keeps its type. *)
LEMMA LockOK ==
    ASSUME MuOK, NEW t \in Threads, Lock(t) \/ Unlock(t) \/ UNCHANGED mu
    PROVE  MuOK'
BY ThreadsAssumption DEF MuOK, Lock, Unlock

(* A step that leaves the requests alone keeps CallsOK. *)
LEMMA CallsUnchanged ==
    ASSUME CallsOK, UNCHANGED call
    PROVE  CallsOK'
BY DEF CallsOK, CallFits, CallSound

(* A request that writes the report it holds keeps the reports sound. *)
LEMMA WriteOK ==
    ASSUME ReportsOK, NEW o \in Owners, NEW r \in ReportFile, Sound(r),
           report' = [report EXCEPT ![o] = r]
    PROVE  ReportsOK'
<1>1. \A u \in Owners : report'[u] = IF u = o THEN r ELSE report[u]
  BY DEF ReportsOK
<1> QED
  BY <1>1 DEF ReportsOK

(* A step that leaves the report files alone keeps ReportsOK. *)
LEMMA ReportsUnchanged ==
    ASSUME ReportsOK, UNCHANGED report
    PROVE  ReportsOK'
BY DEF ReportsOK

-----------------------------------------------------------------------------
(* One step per action *)

(* The periods of the store and its bounds are numbers. *)
LEMMA TimesNat ==
    /\ Interruption \in Nat /\ Retention \in Nat /\ GrantLife \in Nat
    /\ ExecutorLife \in Nat /\ MaxRevisions \in Nat /\ MaxTime \in Nat
BY TimesAssumption

(* A sweep that enters a directory holds what it needs. *)
LEMMA EnterOK ==
    ASSUME CallsOK, NEW t \in Threads, NEW at \in Nat,
           NEW dir \in Directories, Enter(t, at, dir)
    PROVE  CallsOK'
<1> DEFINE s == [at |-> at, dir |-> dir, kept |-> {},
                 left |-> {o \in Owners : FileIn(dir, o) # None}]
           c == [IdleCall EXCEPT !.pc = "sweepRead", !.sweep = s]
<1>1. s \in SweepState
  BY DEF SweepState
<1>2. Goto(t, c)
  BY DEF Enter
<1> HIDE DEF s
<1>3. c \in Call /\ CallFits(c) /\ CallSound(c)
  BY <1>1, Zenon DEF Call, IdleCall, Labels, CallFits, CallSound
<1> QED
  BY <1>2, <1>3, GotoOK

(* A request that arrives keeps the invariant. *)
LEMMA ArriveOK ==
    ASSUME Inv, NEW t \in Threads, Arrive(t)
    PROVE  Inv'
<1> USE TimesNat
<1>s. CASE Sweep(t)
  BY <1>s, EnterOK, LockOK, ReportsUnchanged
  DEF Sweep, Directories, Inv, files, ids, TasksOK, IdsOK, ClockOK
<1> SUFFICES ASSUME ~Sweep(t)
             PROVE  Inv'
  BY <1>s
<1>0. PICK o \in Owners :
        \/ Begin(t, o)
        \/ \E es \in SUBSET Events : AppendEvents(t, o, es)
        \/ \E g \in GrantIDs, life \in 1..ExecutorLife :
               DelegateOwnedExecutor(t, o, g, life)
        \/ \E h \in issued[o], es \in SUBSET Events :
               AppendOwnedExecutorEvents(t, o, h, es)
        \/ LoadOwnedTaskForEnd(t, o)
        \/ \E present \in SUBSET Candidates : Verify(t, o, present)
        \/ RetainOwnedReport(t, o)
        \/ ForgetOwnedReport(t, o)
        \/ \E revision \in 0..MaxRevisions : Summarize(t, o, revision)
        \/ GrantRetrospective(t, o)
        \/ \E es \in SUBSET Events, found \in SUBSET Candidates :
               InspectCompletedAuthorized(t, o, es, found)
  BY DEF Arrive
<1>1. CASE Begin(t, o)
  <2>1. CallsOK' /\ ReportsOK'
    BY <1>1, CallsUnchanged, ReportsUnchanged DEF Begin, Inv
  <2>2. TasksOK'
    BY <1>1 DEF Begin, Inv, TasksOK, TaskFile, ClockOK
  <2> QED
    BY <1>1, <2>1, <2>2 DEF Begin, Inv, IdsOK, MuOK, ClockOK
<1>2. ASSUME NEW es \in SUBSET Events, AppendEvents(t, o, es)
      PROVE  Inv'
  <2> DEFINE c == [IdleCall EXCEPT !.pc = "append", !.owner = o, !.events = es]
  <2>1. c \in Call /\ CallFits(c) /\ CallSound(c)
    BY Zenon DEF Call, IdleCall, Labels, CallFits, CallSound
  <2>2. CallsOK'
    BY <1>2, <2>1, GotoOK DEF AppendEvents, Inv
  <2> QED
    BY <1>2, <2>2, ReportsUnchanged
    DEF AppendEvents, Inv, files, ids, TasksOK, IdsOK, MuOK, ClockOK
<1>3. ASSUME NEW g \in GrantIDs, NEW life \in 1..ExecutorLife,
             DelegateOwnedExecutor(t, o, g, life)
      PROVE  Inv'
  <2> DEFINE rec == [task[o] EXCEPT !.grants = @ \cup {g},
                                    !.expires = now + Interruption]
             h == [grant |-> g, expires |-> now + life]
             c == [IdleCall EXCEPT !.pc = "taskWrite", !.owner = o,
                                   !.handle = h, !.rec = rec]
  <2>1. rec \in TaskFile /\ h \in Handle
    <3>1. task[o] \in TaskFile
      BY <1>3 DEF DelegateOwnedExecutor, Loads, Inv, TasksOK
    <3>2. now \in Nat /\ life \in Nat
      BY DEF Inv, ClockOK
    <3>3. rec \in TaskFile
      <4>1. /\ task[o].grants \cup {g} \in SUBSET GrantIDs
            /\ now + Interruption \in Nat
        BY <3>1, <3>2 DEF TaskFile
      <4> QED
        BY <3>1, <4>1, Zenon DEF TaskFile
    <3>4. h \in Handle
      BY <3>2 DEF Handle
    <3> QED
      BY <3>3, <3>4
  <2>2. Goto(t, c)
    BY <1>3 DEF DelegateOwnedExecutor
  <2> HIDE DEF rec, h
  <2>3. c \in Call /\ CallFits(c) /\ CallSound(c)
    BY <2>1, Zenon DEF Call, IdleCall, Labels, CallFits, CallSound
  <2>4. CallsOK'
    BY <2>2, <2>3, GotoOK DEF Inv
  <2>5. MuOK'
    BY <1>3, LockOK DEF DelegateOwnedExecutor, Inv
  <2>6. IdsOK'
    BY <1>3 DEF DelegateOwnedExecutor, Inv, IdsOK
  <2> QED
    BY <1>3, <2>4, <2>5, <2>6, ReportsUnchanged
    DEF DelegateOwnedExecutor, Inv, files, TasksOK, ClockOK
<1>4. ASSUME NEW h \in issued[o], NEW es \in SUBSET Events,
             AppendOwnedExecutorEvents(t, o, h, es)
      PROVE  Inv'
  <2> DEFINE c == [IdleCall EXCEPT !.pc = "batchWrite", !.owner = o,
                                   !.events = es, !.handle = h]
  <2>1. h \in Handle
    BY <1>4 DEF Inv, IdsOK
  <2>2. c \in Call /\ CallFits(c) /\ CallSound(c)
    BY <2>1, Zenon DEF Call, IdleCall, Labels, CallFits, CallSound
  <2>3. CallsOK' /\ MuOK'
    BY <1>4, <2>2, GotoOK, LockOK DEF AppendOwnedExecutorEvents, Inv
  <2> QED
    BY <1>4, <2>3, ReportsUnchanged
    DEF AppendOwnedExecutorEvents, Inv, files, ids, TasksOK, IdsOK, ClockOK
<1>5. CASE LoadOwnedTaskForEnd(t, o)
  <2> DEFINE c == [IdleCall EXCEPT !.pc = "endMerge", !.owner = o,
                                   !.rec = task[o]]
  <2>1. task[o] \in TaskFile
    BY <1>5 DEF LoadOwnedTaskForEnd, Loads, Inv, TasksOK
  <2>2. c \in Call /\ CallFits(c) /\ CallSound(c)
    BY <2>1, Zenon DEF Call, IdleCall, Labels, CallFits, CallSound
  <2>3. CallsOK' /\ MuOK'
    BY <1>5, <2>2, GotoOK, LockOK DEF LoadOwnedTaskForEnd, Inv
  <2> QED
    BY <1>5, <2>3, ReportsUnchanged
    DEF LoadOwnedTaskForEnd, Inv, files, ids, TasksOK, IdsOK, ClockOK
<1>6. ASSUME NEW present \in SUBSET Candidates, Verify(t, o, present)
      PROVE  Inv'
  <2> DEFINE r == report[o]
             s == [revision |-> Len(r.revisions) + 1, createdAt |-> now,
                   candidates |-> TipCandidates(r), present |-> present]
             rev == [snapshot |-> s, previousDigest |-> TipDigest(r),
                     digest |-> verificationDigest(TipDigest(r), s)]
             c == [IdleCall EXCEPT !.pc = "revise", !.owner = o, !.rev = rev]
  <2>1. r \in ReportFile /\ Sound(r)
    BY <1>6 DEF Verify, Readable, Inv, ReportsOK
  <2>2. /\ TipDigest(r) \in Digest
        /\ Len(TipDigest(r)) > 0
        /\ TipDigest(r)[1] = r.body
        /\ TipCandidates(r) = r.body.candidates
    BY <2>1, TipSound
  <2>3. s \in Snapshot
    BY <2>1, <2>2 DEF Snapshot, ReportFile, Body, Inv, ClockOK
  <2>4. rev \in Revision /\ RevisionSound(rev)
    BY <2>2, <2>3 DEF Revision, Digest, RevisionSound, verificationDigest
  <2>5. Goto(t, c)
    BY <1>6 DEF Verify
  <2> HIDE DEF rev
  <2>6. c \in Call /\ CallFits(c) /\ CallSound(c)
    BY <2>4, Zenon DEF Call, IdleCall, Labels, CallFits, CallSound
  <2>7. CallsOK'
    BY <2>5, <2>6, GotoOK DEF Inv
  <2> QED
    BY <1>6, <2>7, ReportsUnchanged
    DEF Verify, Inv, files, ids, TasksOK, IdsOK, MuOK, ClockOK
<1>7. CASE RetainOwnedReport(t, o)
  <2> DEFINE r == [report[o] EXCEPT !.retained = TRUE, !.expires = @ + Retention]
             c == [IdleCall EXCEPT !.pc = "chainWrite", !.owner = o, !.rep = r]
  <2>1. report[o] \in ReportFile /\ Sound(report[o])
    BY <1>7 DEF RetainOwnedReport, Inv, ReportsOK
  <2>2. r \in ReportFile /\ r.body = report[o].body
        /\ r.revisions = report[o].revisions
    <3>1. report[o].expires \in Nat /\ report[o].expires + Retention \in Nat
      BY <2>1 DEF ReportFile
    <3> QED
      BY <2>1, <3>1, Zenon DEF ReportFile
  <2>3. Goto(t, c)
    BY <1>7 DEF RetainOwnedReport
  <2> HIDE DEF r
  <2>4. Sound(r)
    BY <2>1, <2>2, SoundByChain
  <2>5. c \in Call /\ CallFits(c) /\ CallSound(c)
    BY <2>2, <2>4, Zenon DEF Call, IdleCall, Labels, CallFits, CallSound
  <2>6. CallsOK' /\ MuOK'
    BY <1>7, <2>3, <2>5, GotoOK, LockOK DEF RetainOwnedReport, Inv
  <2> QED
    BY <1>7, <2>6, ReportsUnchanged
    DEF RetainOwnedReport, Inv, files, ids, TasksOK, IdsOK, ClockOK
<1>8. CASE ForgetOwnedReport(t, o)
  <2> DEFINE c == [IdleCall EXCEPT !.pc = "forgetRemove", !.owner = o]
  <2>1. c \in Call /\ CallFits(c) /\ CallSound(c)
    BY Zenon DEF Call, IdleCall, Labels, CallFits, CallSound
  <2>2. CallsOK' /\ MuOK'
    BY <1>8, <2>1, GotoOK, LockOK DEF ForgetOwnedReport, Inv
  <2> QED
    BY <1>8, <2>2, ReportsUnchanged
    DEF ForgetOwnedReport, Inv, files, ids, TasksOK, IdsOK, ClockOK
<1>9. ASSUME NEW revision \in 0..MaxRevisions, Summarize(t, o, revision)
      PROVE  Inv'
  <2> DEFINE c == [IdleCall EXCEPT !.pc = "page", !.owner = o,
                                   !.rep = report[o], !.page = revision]
  <2>1. report[o] \in ReportFile /\ Sound(report[o])
    BY <1>9 DEF Summarize, Readable, Inv, ReportsOK
  <2>r. revision \in Nat
    OBVIOUS
  <2>2. c \in Call /\ CallFits(c) /\ CallSound(c)
    BY <2>1, <2>r, Zenon DEF Call, IdleCall, Labels, CallFits, CallSound
  <2>3. CallsOK'
    BY <1>9, <2>2, GotoOK DEF Summarize, Inv
  <2> QED
    BY <1>9, <2>3, ReportsUnchanged
    DEF Summarize, Inv, files, ids, TasksOK, IdsOK, MuOK, ClockOK
<1>10. CASE GrantRetrospective(t, o)
  <2>1. CallsOK' /\ ReportsOK'
    BY <1>10, CallsUnchanged, ReportsUnchanged DEF GrantRetrospective, Inv
  <2>2. TasksOK'
    BY <1>10 DEF GrantRetrospective, Inv, TasksOK, GrantFile, ClockOK
  <2> QED
    BY <1>10, <2>1, <2>2 DEF GrantRetrospective, Inv, IdsOK, MuOK, ClockOK
<1>11. ASSUME NEW es \in SUBSET Events, NEW found \in SUBSET Candidates,
              InspectCompletedAuthorized(t, o, es, found)
       PROVE  Inv'
  <2> DEFINE b == [mode |-> "RETROSPECTIVE", createdAt |-> now,
                   events |-> es, candidates |-> found]
             r == NewReport(b)
             c == [IdleCall EXCEPT !.pc = "inspect", !.owner = o, !.rep = r]
  <2>1. b \in Body
    BY DEF Body, Modes, Inv, ClockOK
  <2>2. r \in ReportFile /\ r.revisions = <<>>
    BY <2>1, NewReportOK
  <2>3. Goto(t, c)
    BY <1>11 DEF InspectCompletedAuthorized
  <2> HIDE DEF r
  <2>4. Sound(r)
    BY <2>2, FreshSound
  <2>5. c \in Call /\ CallFits(c) /\ CallSound(c)
    BY <2>2, <2>4, Zenon DEF Call, IdleCall, Labels, CallFits, CallSound
  <2>6. CallsOK'
    BY <2>3, <2>5, GotoOK DEF Inv
  <2> QED
    BY <1>11, <2>6, ReportsUnchanged
    DEF InspectCompletedAuthorized, Inv, files, ids, TasksOK, IdsOK, MuOK,
        ClockOK
<1> QED
  BY <1>0, <1>1, <1>2, <1>3, <1>4, <1>5, <1>6, <1>7, <1>8, <1>9, <1>10, <1>11

(* What a request holds while it is being served. *)
LEMMA Holds ==
    ASSUME CallsOK, NEW t \in Threads
    PROVE  /\ call[t] \in Call
           /\ call[t].pc \notin Ownerless => call[t].owner \in Owners
           /\ CallFits(call[t]) /\ CallSound(call[t])
BY DEF CallsOK, CallFits

(* A store operation that takes Store.mu and reads keeps the invariant. *)
LEMMA AcquireOK ==
    ASSUME Inv, NEW t \in Threads, Acquire(t)
    PROVE  Inv'
<1> USE TimesNat
<1> DEFINE c == call[t]
<1>0. /\ c \in Call /\ CallFits(c) /\ CallSound(c)
      /\ c.pc \notin Ownerless => c.owner \in Owners
  BY Holds DEF Inv
<1>1. CASE AppendOwnedEvents(t)
  <2> DEFINE rec == [task[c.owner] EXCEPT !.events = @ \cup c.events,
                                          !.expires = now + Interruption]
             d == [c EXCEPT !.pc = "taskWrite", !.rec = rec]
  <2>1. MuOK'
    BY <1>1, LockOK DEF AppendOwnedEvents, Inv
  <2>2. CASE Return(t)
    BY <1>1, <2>1, <2>2, ReturnOK, ReportsUnchanged
    DEF AppendOwnedEvents, Inv, files, ids, TasksOK, IdsOK, ClockOK
  <2>3. CASE Loads(c.owner) /\ Goto(t, d)
    <3>1. c.owner \in Owners /\ task[c.owner] \in TaskFile
      BY <1>0, <1>1, <2>3 DEF AppendOwnedEvents, Loads, Inv, TasksOK
    <3>2. /\ task[c.owner].events \cup c.events \in SUBSET Events
          /\ now + Interruption \in Nat
      BY <1>0, <3>1 DEF TaskFile, Call, Inv, ClockOK
    <3>3. rec \in TaskFile
      BY <3>1, <3>2, Zenon DEF TaskFile
    <3> HIDE DEF rec
    <3>4. d \in Call /\ CallFits(d) /\ CallSound(d)
      <4>1. d \in Call
        BY <1>0, <3>3, Zenon DEF Call, Labels
      <4>2. d.pc = "taskWrite" /\ d.owner = c.owner /\ d.rec = rec
        BY <1>0 DEF Call
      <4> QED
        BY <3>1, <3>3, <4>1, <4>2 DEF CallFits, CallSound
    <3>5. CallsOK'
      BY <2>3, <3>4, GotoOK DEF Inv
    <3> QED
      BY <1>1, <2>1, <3>5, ReportsUnchanged
      DEF AppendOwnedEvents, Inv, files, ids, TasksOK, IdsOK, ClockOK
  <2> QED
    BY <1>1, <2>2, <2>3 DEF AppendOwnedEvents
<1>2. CASE CompleteOwnedTask(t)
  <2> DEFINE d == [c EXCEPT !.pc = "completeMerge", !.rec = task[c.owner]]
  <2>1. MuOK'
    BY <1>2, LockOK DEF CompleteOwnedTask, Inv
  <2>2. CASE Return(t)
    BY <1>2, <2>1, <2>2, ReturnOK, ReportsUnchanged
    DEF CompleteOwnedTask, Inv, files, ids, TasksOK, IdsOK, ClockOK
  <2>3. CASE Loads(c.owner) /\ Goto(t, d)
    <3>1. c.owner \in Owners /\ task[c.owner] \in TaskFile
      BY <1>0, <1>2, <2>3 DEF CompleteOwnedTask, Loads, Inv, TasksOK
    <3>2. c.rep \in ReportFile /\ Sound(c.rep)
      BY <1>0, <1>2 DEF CompleteOwnedTask, CallFits, CallSound
    <3>3. d \in Call /\ CallFits(d) /\ CallSound(d)
      <4>1. d \in Call
        BY <1>0, <3>1, Zenon DEF Call, Labels
      <4>2. /\ d.pc = "completeMerge" /\ d.owner = c.owner
            /\ d.rec = task[c.owner] /\ d.rep = c.rep
        BY <1>0 DEF Call
      <4> QED
        BY <3>1, <3>2, <4>1, <4>2 DEF CallFits, CallSound
    <3>4. CallsOK'
      BY <2>3, <3>3, GotoOK DEF Inv
    <3> QED
      BY <1>2, <2>1, <3>4, ReportsUnchanged
      DEF CompleteOwnedTask, Inv, files, ids, TasksOK, IdsOK, ClockOK
  <2> QED
    BY <1>2, <2>2, <2>3 DEF CompleteOwnedTask
<1>3. CASE AppendOwnedRevision(t)
  <2> DEFINE r == report[c.owner]
             q == [r EXCEPT !.revisions = Append(@, c.rev)]
             d == [IdleCall EXCEPT !.pc = "chainWrite", !.owner = c.owner,
                                   !.rep = q]
  <2>1. MuOK'
    BY <1>3, LockOK DEF AppendOwnedRevision, Inv
  <2>2. CASE Return(t)
    BY <1>3, <2>1, <2>2, ReturnOK, ReportsUnchanged
    DEF AppendOwnedRevision, Inv, files, ids, TasksOK, IdsOK, ClockOK
  <2>3. CASE r # None /\ ExtendsChain(c.rev, r) /\ Goto(t, d)
    <3>1. c.owner \in Owners /\ c.rev \in Revision /\ RevisionSound(c.rev)
      BY <1>0, <1>3 DEF AppendOwnedRevision, CallFits, CallSound
    <3>2. r \in ReportFile /\ Sound(r)
      BY <2>3, <3>1 DEF Inv, ReportsOK
    <3>3. q \in ReportFile /\ Sound(q)
      BY <2>3, <3>1, <3>2, ExtendSound, Zenon
    <3> HIDE DEF q
    <3>4. d \in Call /\ CallFits(d) /\ CallSound(d)
      BY <3>1, <3>3, Zenon DEF Call, IdleCall, Labels, CallFits, CallSound
    <3>5. CallsOK'
      BY <2>3, <3>4, GotoOK DEF Inv
    <3> QED
      BY <1>3, <2>1, <3>5, ReportsUnchanged
      DEF AppendOwnedRevision, Inv, files, ids, TasksOK, IdsOK, ClockOK
  <2> QED
    BY <1>3, <2>2, <2>3 DEF AppendOwnedRevision
<1>4. CASE GetCandidatePage(t)
  BY <1>4, ReturnOK, ReportsUnchanged
  DEF GetCandidatePage, Inv, files, ids, TasksOK, IdsOK, MuOK, ClockOK
<1>5. CASE SummarizePanics(t)
  <2>1. CallsOK' /\ MuOK'
    BY <1>5, DieOK, ThreadsAssumption DEF SummarizePanics, Inv
  <2> QED
    BY <1>5, <2>1, ReportsUnchanged
    DEF SummarizePanics, Inv, files, ids, TasksOK, IdsOK, ClockOK
<1>6. CASE CompleteRetrospectiveGrant(t)
  <2> DEFINE q == Stamped(c.rep)
             d == [c EXCEPT !.pc = "retroWrite", !.rep = q]
  <2>1. MuOK'
    BY <1>6, LockOK DEF CompleteRetrospectiveGrant, Inv
  <2>2. CASE Return(t)
    BY <1>6, <2>1, <2>2, ReturnOK, ReportsUnchanged
    DEF CompleteRetrospectiveGrant, Inv, files, ids, TasksOK, IdsOK, ClockOK
  <2>3. CASE Goto(t, d)
    <3>1. c.owner \in Owners /\ c.rep \in ReportFile /\ Sound(c.rep)
      BY <1>0, <1>6 DEF CompleteRetrospectiveGrant, CallFits, CallSound
    <3>2. q \in ReportFile /\ Sound(q)
      BY <3>1, StampedOK DEF Inv
    <3> HIDE DEF q
    <3>3. d \in Call /\ CallFits(d) /\ CallSound(d)
      <4>1. d \in Call
        BY <1>0, <3>2, Zenon DEF Call, Labels
      <4>2. d.pc = "retroWrite" /\ d.owner = c.owner /\ d.rep = q
        BY <1>0 DEF Call
      <4> QED
        BY <3>1, <3>2, <4>1, <4>2 DEF CallFits, CallSound
    <3>4. CallsOK'
      BY <2>3, <3>3, GotoOK DEF Inv
    <3> QED
      BY <1>6, <2>1, <3>4, ReportsUnchanged
      DEF CompleteRetrospectiveGrant, Inv, files, ids, TasksOK, IdsOK, ClockOK
  <2> QED
    BY <1>6, <2>2, <2>3 DEF CompleteRetrospectiveGrant
<1> QED
  BY <1>1, <1>2, <1>3, <1>4, <1>5, <1>6 DEF Acquire

(* The reports End can build are fresh and well typed. *)
LEMMA EndReportsOK ==
    ASSUME Inv, NEW rec \in TaskFile, NEW bs \in SUBSET Batch,
           NEW r \in EndReports(rec, bs)
    PROVE  r \in ReportFile /\ Sound(r)
<1>1. rec.events \cup BatchEvents(bs) \in SUBSET Events
  BY DEF TaskFile, Batch, BatchEvents
<1>2. now \in Nat
  BY DEF Inv, ClockOK
<1>3. ASSUME NEW b \in Body, r = NewReport(b)
      PROVE  r \in ReportFile /\ r.revisions = <<>>
  BY <1>3, NewReportOK
<1>4. [mode |-> "FAILED", createdAt |-> now, events |-> {},
       candidates |-> {}] \in Body
  BY <1>2 DEF Body, Modes
<1>5. \A found \in SUBSET Candidates :
        [mode |-> "OBSERVED", createdAt |-> now,
         events |-> rec.events \cup BatchEvents(bs),
         candidates |-> found] \in Body
  BY <1>1, <1>2 DEF Body, Modes
<1>6. r \in ReportFile /\ r.revisions = <<>>
  BY <1>3, <1>4, <1>5, Zenon DEF EndReports
<1> QED
  BY <1>6, FreshSound

(* Reading an entry changes nothing but what the sweep remembers. *)
LEMMA SweepReadOK ==
    ASSUME Inv, NEW t \in Threads, NEW o \in Owners, SweepRead(t, o)
    PROVE  Inv'
<1> DEFINE c == call[t]
           next == [c.sweep EXCEPT !.left = @ \ {o}]
           more == [next EXCEPT !.kept = @ \cup {Kept(o)}]
           file == FileIn(c.sweep.dir, o)
<1>0. c \in Call /\ c.pc = "sweepRead" /\ c.sweep \in SweepState
  BY Holds DEF Inv, SweepRead, CallFits
<1>1. next \in SweepState
  BY <1>0 DEF SweepState
<1>2. MuOK'
  BY LockOK DEF SweepRead, Inv
<1>3. CallsOK'
  <2>1. CASE Return(t)
    BY <2>1, ReturnOK DEF Inv
  <2>2. CASE Goto(t, [c EXCEPT !.pc = "sweepRemove", !.owner = o,
                               !.sweep = next])
    <3> DEFINE d == [c EXCEPT !.pc = "sweepRemove", !.owner = o,
                              !.sweep = next]
    <3> HIDE DEF next
    <3>1. d \in Call /\ CallFits(d) /\ CallSound(d)
      BY <1>0, <1>1, Zenon DEF Call, Labels, CallFits, CallSound
    <3> QED
      BY <2>2, <3>1, GotoOK DEF Inv
  <2>3. CASE /\ file # None
             /\ Goto(t, [c EXCEPT !.sweep = IF c.sweep.dir = "reports"
                                            THEN more ELSE next])
    <3> DEFINE s == IF c.sweep.dir = "reports" THEN more ELSE next
               d == [c EXCEPT !.sweep = s]
    <3>1. s \in SweepState
      <4>1. CASE c.sweep.dir = "reports"
        <5>1. report[o] \in ReportFile
          BY <2>3, <4>1 DEF FileIn, Inv, ReportsOK
        <5>2. Kept(o) \in KeptReport
          BY <5>1 DEF Kept, KeptReport, ReportFile
        <5> HIDE DEF next
        <5>3. more \in SweepState
          BY <1>1, <5>2 DEF SweepState
        <5> QED
          BY <4>1, <5>3
      <4> QED
        BY <1>1, <4>1
    <3>2. Goto(t, d)
      BY <2>3
    <3> HIDE DEF s
    <3>3. d \in Call /\ CallFits(d) /\ CallSound(d)
      BY <1>0, <3>1 DEF Call, Labels, CallFits, CallSound
    <3> QED
      BY <3>2, <3>3, GotoOK DEF Inv
  <2> QED
    BY <2>1, <2>2, <2>3 DEF SweepRead
<1> QED
  BY <1>2, <1>3, ReportsUnchanged
  DEF SweepRead, Inv, files, ids, TasksOK, IdsOK, ClockOK

(* Removing an entry leaves the other files as they are. *)
LEMMA SweepRemoveOK ==
    ASSUME Inv, NEW t \in Threads, SweepRemove(t)
    PROVE  Inv'
<1> DEFINE c == call[t]
           pc == IF c.sweep.dir = "tasks" THEN "eventsList" ELSE "sweepRead"
           d == [c EXCEPT !.pc = pc]
<1>0. /\ c \in Call /\ c.pc = "sweepRemove"
      /\ c.owner \in Owners /\ c.sweep \in SweepState
  BY Holds DEF Inv, SweepRemove, CallFits
<1>1. MuOK'
  BY LockOK DEF SweepRemove, Inv
<1>2. CallsOK'
  <2>1. d \in Call /\ CallFits(d) /\ CallSound(d)
    BY <1>0 DEF Call, Labels, CallFits, CallSound
  <2> QED
    BY <2>1, GotoOK, ReturnOK DEF SweepRemove, Inv
<1>3. TasksOK'
  BY <1>0 DEF SweepRemove, Without, files, Inv, TasksOK
<1>4. ReportsOK'
  <2>1. CASE UNCHANGED report
    BY <2>1, ReportsUnchanged DEF Inv
  <2>2. CASE report' = [report EXCEPT ![c.owner] = None]
    BY <1>0, <2>2 DEF Inv, ReportsOK
  <2> QED
    BY <2>1, <2>2 DEF SweepRemove, Without, files
<1> QED
  BY <1>1, <1>2, <1>3, <1>4 DEF SweepRemove, Inv, ids, IdsOK, ClockOK

(* Moving on to the next directory, to the capacity, or to the end. *)
LEMMA SweepNextOK ==
    ASSUME Inv, NEW t \in Threads, SweepNextDirectory(t)
    PROVE  Inv'
<1> DEFINE c == call[t]
           d == [c EXCEPT !.pc = "evict"]
<1>0. c \in Call /\ c.pc = "sweepRead" /\ c.sweep \in SweepState
  BY Holds DEF Inv, SweepNextDirectory, CallFits
<1>1. MuOK'
  BY LockOK DEF SweepNextDirectory, Inv
<1>2. CallsOK'
  <2>1. CASE Enter(t, c.sweep.at, "reports")
    BY <1>0, <2>1, EnterOK DEF Inv, SweepState, Directories
  <2>2. CASE Goto(t, d)
    <3>1. d \in Call /\ CallFits(d) /\ CallSound(d)
      BY <1>0 DEF Call, Labels, CallFits, CallSound
    <3> QED
      BY <2>2, <3>1, GotoOK DEF Inv
  <2> QED
    BY <2>1, <2>2, ReturnOK DEF SweepNextDirectory, Inv
<1> QED
  BY <1>1, <1>2, ReportsUnchanged
  DEF SweepNextDirectory, Inv, files, ids, TasksOK, IdsOK, ClockOK

(* Evicting a report leaves the others as they are. *)
LEMMA EvictOK ==
    ASSUME Inv, NEW t \in Threads, Evict(t)
    PROVE  Inv'
<1> DEFINE c == call[t]
<1>0. c \in Call /\ c.pc = "evict" /\ c.sweep \in SweepState
  BY Holds DEF Inv, Evict, CallFits
<1>1. CASE Enter(t, c.sweep.at, "grants") /\ UNCHANGED <<report, mu>>
  <2>1. CallsOK'
    BY <1>0, <1>1, EnterOK DEF Inv, SweepState, Directories
  <2> QED
    BY <1>1, <2>1, ReportsUnchanged
    DEF Evict, Inv, ids, TasksOK, IdsOK, MuOK, ClockOK
<1>2. ASSUME NEW k \in c.sweep.kept,
             report' = [report EXCEPT ![k.owner] = None],
             \/ /\ Goto(t, [c EXCEPT !.sweep.kept = @ \ {k}])
                /\ UNCHANGED mu
             \/ Return(t) /\ Unlock(t)
      PROVE  Inv'
  <2> DEFINE s == [c.sweep EXCEPT !.kept = @ \ {k}]
             d == [c EXCEPT !.sweep = s]
  <2>1. s \in SweepState
    BY <1>0 DEF SweepState
  <2>2. [c EXCEPT !.sweep.kept = @ \ {k}] = d
    BY <1>0 DEF Call
  <2> HIDE DEF s
  <2>3. d \in Call /\ CallFits(d) /\ CallSound(d)
    BY <1>0, <2>1 DEF Call, Labels, CallFits, CallSound
  <2>4. CallsOK' /\ MuOK'
    BY <1>2, <2>2, <2>3, GotoOK, ReturnOK, LockOK DEF Inv
  <2>5. ReportsOK'
    BY <1>2, Zenon DEF Inv, ReportsOK
  <2> QED
    BY <2>4, <2>5 DEF Evict, Inv, ids, TasksOK, IdsOK, ClockOK
<1> QED
  BY <1>1, <1>2, Zenon DEF Evict, OldestUnprotected

(* A step of a running request keeps the invariant. *)
LEMMA ContinueOK ==
    ASSUME Inv, NEW t \in Threads, Continue(t)
    PROVE  Inv'
<1> USE TimesNat
<1> DEFINE c == call[t]
<1>0. /\ c \in Call /\ CallFits(c) /\ CallSound(c)
      /\ c.pc \notin Ownerless => c.owner \in Owners
  BY Holds DEF Inv
<1>1. CASE WriteTask(t)
  <2>1. c.owner \in Owners /\ c.rec \in TaskFile /\ c.events \in SUBSET Events
        /\ c.handle \in Handle \cup {None}
    BY <1>0, <1>1 DEF WriteTask, CallFits, Call
  <2>2. TasksOK'
    BY <1>1, <2>1 DEF WriteTask, Inv, TasksOK
  <2>3. IdsOK'
    BY <1>1, <2>1 DEF WriteTask, Inv, IdsOK
  <2>4. CallsOK' /\ MuOK'
    BY <1>1, ReturnOK, LockOK DEF WriteTask, Inv
  <2> QED
    BY <1>1, <2>2, <2>3, <2>4, ReportsUnchanged DEF WriteTask, Inv, ClockOK
<1>2. CASE WriteBatch(t)
  <2> DEFINE b == [grant |-> c.handle.grant, events |-> c.events]
  <2>1. c.owner \in Owners /\ c.events \in SUBSET Events /\ b \in Batch
    BY <1>0, <1>2 DEF WriteBatch, CallFits, Call, Handle, Batch
  <2>2. TasksOK'
    BY <1>2, <2>1 DEF WriteBatch, Inv, TasksOK
  <2>3. IdsOK'
    BY <1>2, <2>1 DEF WriteBatch, Inv, IdsOK
  <2>4. CallsOK' /\ MuOK'
    BY <1>2, ReturnOK, LockOK DEF WriteBatch, Inv
  <2> QED
    BY <1>2, <2>2, <2>3, <2>4, ReportsUnchanged DEF WriteBatch, Inv, ClockOK
<1>3. CASE MergeAndObserve(t)
  <2>0. c.pc = "endMerge" /\ Unlock(t) /\ UNCHANGED <<files, now, ids, faults>>
    BY <1>3, Zenon DEF MergeAndObserve
  <2>1. MuOK'
    BY <2>0, LockOK DEF Inv
  <2>2. CallsOK'
    <3>1. CASE Return(t)
      BY <3>1, ReturnOK DEF Inv
    <3>2. ASSUME NEW r \in EndReports(c.rec, batches[c.owner]),
                 Goto(t, [IdleCall EXCEPT !.pc = "complete",
                                          !.owner = c.owner, !.rep = r])
          PROVE  CallsOK'
      <4> DEFINE d == [IdleCall EXCEPT !.pc = "complete",
                                       !.owner = c.owner, !.rep = r]
      <4>1. c.owner \in Owners /\ c.rec \in TaskFile
        BY <1>0, <2>0 DEF CallFits
      <4>2. batches[c.owner] \in SUBSET Batch
        BY <4>1 DEF Inv, TasksOK
      <4>3. r \in ReportFile /\ Sound(r)
        BY <3>2, <4>1, <4>2, EndReportsOK
      <4>4. d \in Call /\ CallFits(d) /\ CallSound(d)
        BY <4>1, <4>3, Zenon DEF Call, IdleCall, Labels, CallFits, CallSound
      <4> QED
        BY <3>2, <4>4, GotoOK DEF Inv
    <3> QED
      BY <1>3, <3>1, <3>2, Zenon DEF MergeAndObserve
  <2> QED
    BY <2>0, <2>1, <2>2, ReportsUnchanged
    DEF Inv, files, ids, TasksOK, IdsOK, ClockOK
<1>4. CASE CompleteMerge(t)
  <2> DEFINE q == Stamped(c.rep)
             d == [IdleCall EXCEPT !.pc = "reportWrite", !.owner = c.owner,
                                   !.rep = q]
  <2>1. MuOK'
    BY <1>4, LockOK DEF CompleteMerge, Inv
  <2>2. CallsOK'
    <3>1. CASE Return(t)
      BY <3>1, ReturnOK DEF Inv
    <3>2. CASE Goto(t, d)
      <4>1. c.owner \in Owners /\ c.rep \in ReportFile /\ Sound(c.rep)
        BY <1>0, <1>4 DEF CompleteMerge, CallFits, CallSound
      <4>2. q \in ReportFile /\ Sound(q)
        BY <4>1, StampedOK DEF Inv
      <4> HIDE DEF q
      <4>3. d \in Call /\ CallFits(d) /\ CallSound(d)
        BY <4>1, <4>2, Zenon
        DEF Call, IdleCall, Labels, CallFits, CallSound
      <4> QED
        BY <3>2, <4>3, GotoOK DEF Inv
    <3> QED
      BY <1>4, <3>1, <3>2 DEF CompleteMerge
  <2> QED
    BY <1>4, <2>1, <2>2, ReportsUnchanged
    DEF CompleteMerge, Inv, files, ids, TasksOK, IdsOK, ClockOK
<1>5. CASE WriteReport(t)
  <2> DEFINE d == [IdleCall EXCEPT !.pc = "taskRemove", !.owner = c.owner]
  <2>1. c.owner \in Owners /\ c.rep \in ReportFile /\ Sound(c.rep)
    BY <1>0, <1>5 DEF WriteReport, CallFits, CallSound
  <2>2. ReportsOK'
    BY <1>5, <2>1, WriteOK, Zenon DEF WriteReport, Inv
  <2>3. d \in Call /\ CallFits(d) /\ CallSound(d)
    BY <2>1, Zenon DEF Call, IdleCall, Labels, CallFits, CallSound
  <2>4. CallsOK'
    BY <1>5, <2>3, GotoOK DEF WriteReport, Inv
  <2> QED
    BY <1>5, <2>2, <2>4
    DEF WriteReport, Inv, ids, TasksOK, IdsOK, MuOK, ClockOK
<1>6. CASE RemoveTask(t)
  <2> DEFINE d == [c EXCEPT !.pc = "eventsList"]
  <2>1. c.owner \in Owners
    BY <1>0, <1>6 DEF RemoveTask
  <2>2. d \in Call /\ CallFits(d) /\ CallSound(d)
    BY <1>0, <2>1 DEF Call, Labels, CallFits, CallSound
  <2>3. CallsOK' /\ MuOK'
    BY <1>6, <2>2, GotoOK, ReturnOK, LockOK DEF RemoveTask, Inv
  <2>4. TasksOK'
    BY <1>6, <2>1 DEF RemoveTask, Inv, TasksOK
  <2> QED
    BY <1>6, <2>3, <2>4, ReportsUnchanged
    DEF RemoveTask, Inv, ids, IdsOK, ClockOK
<1>7. CASE ListBatches(t)
  <2> DEFINE d == [c EXCEPT !.pc = "eventsRemove", !.todo = batches[c.owner]]
  <2>1. c.owner \in Owners /\ batches[c.owner] \in SUBSET Batch
    BY <1>0, <1>7 DEF ListBatches, Inv, TasksOK
  <2>2. d \in Call /\ CallFits(d) /\ CallSound(d)
    <3>1. d \in Call /\ d.pc = "eventsRemove" /\ d.owner = c.owner
      BY <1>0, <2>1, Zenon DEF Call, Labels
    <3> QED
      BY <2>1, <3>1 DEF CallFits, CallSound
  <2>3. CallsOK'
    BY <1>7, <2>2, GotoOK DEF ListBatches, Inv
  <2> QED
    BY <1>7, <2>3, ReportsUnchanged
    DEF ListBatches, Inv, files, ids, TasksOK, IdsOK, MuOK, ClockOK
<1>8. ASSUME NEW b \in call[t].todo, RemoveBatch(t, b)
      PROVE  Inv'
  <2> DEFINE d == [c EXCEPT !.todo = @ \ {b}]
  <2>1. c.owner \in Owners
    BY <1>0, <1>8 DEF RemoveBatch
  <2>2. d \in Call /\ CallFits(d) /\ CallSound(d)
    <3>1. c.todo \ {b} \in SUBSET Batch
      BY <1>0 DEF Call
    <3>2. d \in Call
      BY <1>0, <3>1 DEF Call
    <3>3. d.pc = c.pc /\ d.owner = c.owner /\ d.rec = c.rec /\ d.rep = c.rep
          /\ d.rev = c.rev /\ d.handle = c.handle
      BY <1>0 DEF Call
    <3> QED
      BY <1>0, <3>2, <3>3 DEF CallFits, CallSound
  <2>3. CallsOK' /\ MuOK'
    BY <1>8, <2>2, GotoOK, ReturnOK, LockOK DEF RemoveBatch, Inv
  <2>4. TasksOK'
    BY <1>8, <2>1 DEF RemoveBatch, Inv, TasksOK
  <2> QED
    BY <1>8, <2>3, <2>4, ReportsUnchanged
    DEF RemoveBatch, Inv, ids, IdsOK, ClockOK
<1>9. CASE RemoveBatchDirectory(t)
  <2> DEFINE d == [c EXCEPT !.pc = "sweepRead"]
  <2>1. MuOK'
    BY <1>9, LockOK DEF RemoveBatchDirectory, Inv
  <2>2. CallsOK'
    <3>1. CASE Return(t)
      BY <3>1, ReturnOK DEF Inv
    <3>2. CASE c.sweep # None /\ Goto(t, d)
      <4>1. d \in Call /\ CallFits(d) /\ CallSound(d)
        BY <1>0, <3>2 DEF Call, Labels, CallFits, CallSound
      <4> QED
        BY <3>2, <4>1, GotoOK DEF Inv
    <3> QED
      BY <1>9, <3>1, <3>2 DEF RemoveBatchDirectory
  <2> QED
    BY <1>9, <2>1, <2>2, ReportsUnchanged
    DEF RemoveBatchDirectory, Inv, files, ids, TasksOK, IdsOK, ClockOK
<1>10. CASE WriteChain(t)
  <2>1. c.owner \in Owners /\ c.rep \in ReportFile /\ Sound(c.rep)
    BY <1>0, <1>10 DEF WriteChain, CallFits, CallSound
  <2>2. ReportsOK'
    BY <1>10, <2>1, WriteOK, Zenon DEF WriteChain, Inv
  <2>3. CallsOK' /\ MuOK'
    BY <1>10, ReturnOK, LockOK DEF WriteChain, Inv
  <2> QED
    BY <1>10, <2>2, <2>3 DEF WriteChain, Inv, ids, TasksOK, IdsOK, ClockOK
<1>11. CASE RemoveReport(t)
  <2>1. ReportsOK'
    BY <1>11, Zenon DEF RemoveReport, Inv, ReportsOK
  <2>2. CallsOK' /\ MuOK'
    BY <1>11, ReturnOK, LockOK DEF RemoveReport, Inv
  <2> QED
    BY <1>11, <2>1, <2>2 DEF RemoveReport, Inv, ids, TasksOK, IdsOK, ClockOK
<1>12. CASE WriteRetrospectiveReport(t)
  <2> DEFINE d == [IdleCall EXCEPT !.pc = "grantRemove", !.owner = c.owner]
  <2>1. c.owner \in Owners /\ c.rep \in ReportFile /\ Sound(c.rep)
    BY <1>0, <1>12 DEF WriteRetrospectiveReport, CallFits, CallSound
  <2>2. ReportsOK'
    BY <1>12, <2>1, WriteOK, Zenon DEF WriteRetrospectiveReport, Inv
  <2>3. d \in Call /\ CallFits(d) /\ CallSound(d)
    BY <2>1, Zenon DEF Call, IdleCall, Labels, CallFits, CallSound
  <2>4. CallsOK'
    BY <1>12, <2>3, GotoOK DEF WriteRetrospectiveReport, Inv
  <2> QED
    BY <1>12, <2>2, <2>4
    DEF WriteRetrospectiveReport, Inv, ids, TasksOK, IdsOK, MuOK, ClockOK
<1>13. CASE RemoveGrant(t)
  <2>1. TasksOK'
    BY <1>13, Zenon DEF RemoveGrant, Inv, TasksOK
  <2>2. CallsOK' /\ MuOK'
    BY <1>13, ReturnOK, LockOK DEF RemoveGrant, Inv
  <2> QED
    BY <1>13, <2>1, <2>2, ReportsUnchanged
    DEF RemoveGrant, Inv, ids, IdsOK, ClockOK
<1>14. ASSUME NEW o \in Owners, SweepRead(t, o)
       PROVE  Inv'
  BY <1>14, SweepReadOK
<1>15. CASE SweepRemove(t) \/ SweepNextDirectory(t)
  BY <1>15, SweepRemoveOK, SweepNextOK
<1>16. CASE Evict(t)
  BY <1>16, EvictOK
<1> QED
  BY <1>1, <1>2, <1>3, <1>4, <1>5, <1>6, <1>7, <1>8, <1>9, <1>10, <1>11, <1>12,
     <1>13, <1>14, <1>15, <1>16 DEF Continue

(* Failing file operations, crashes and the clock. *)
LEMMA EnvironmentOK ==
    ASSUME Inv
    PROVE  /\ \A t \in Threads : FileError(t) \/ SyncError(t) => Inv'
           /\ \A p \in Procs : Crash(p) => Inv'
           /\ Tick \/ UNCHANGED vars => Inv'
<1>1. ASSUME NEW t \in Threads, FileError(t)
      PROVE  Inv'
  BY <1>1, ReturnOK, LockOK, ReportsUnchanged
  DEF FileError, Inv, files, ids, TasksOK, IdsOK, ClockOK
<1>2. ASSUME NEW t \in Threads, SyncError(t)
      PROVE  Inv'
  <2> DEFINE c == call[t]
             b == [grant |-> c.handle.grant, events |-> c.events]
  <2>1. c \in Call /\ CallFits(c)
    BY Holds DEF Inv
  <2>2. TasksOK'
    <3>1. CASE c.pc = "taskWrite"
      BY <1>2, <2>1, <3>1 DEF SyncError, CallFits, Inv, TasksOK
    <3>2. CASE c.pc = "batchWrite"
      <4>1. c.owner \in Owners /\ b \in Batch
        BY <2>1, <3>2 DEF CallFits, Call, Handle, Batch
      <4>2. /\ batches' = [batches EXCEPT ![c.owner] = @ \cup {b}]
            /\ UNCHANGED <<task, retro>>
        BY <1>2, <3>2 DEF SyncError
      <4> HIDE DEF b, c
      <4> QED
        BY <4>1, <4>2 DEF Inv, TasksOK
    <3> QED
      BY <1>2, <3>1, <3>2 DEF SyncError
  <2>3. CallsOK' /\ MuOK'
    BY <1>2, ReturnOK, LockOK DEF SyncError, Inv
  <2> QED
    BY <1>2, <2>2, <2>3, ReportsUnchanged
    DEF SyncError, Inv, ids, IdsOK, ClockOK
<1>3. ASSUME NEW p \in Procs, Crash(p)
      PROVE  Inv'
  <2>1. CallsOK' /\ MuOK'
    BY <1>3, DieOK DEF Crash, Inv
  <2> QED
    BY <1>3, <2>1, ReportsUnchanged
    DEF Crash, Inv, files, ids, TasksOK, IdsOK, ClockOK
<1>4. CASE Tick
  BY <1>4, CallsUnchanged, ReportsUnchanged
  DEF Tick, Inv, files, ids, TasksOK, IdsOK, MuOK, ClockOK
<1>5. CASE UNCHANGED vars
  BY <1>5, CallsUnchanged, ReportsUnchanged
  DEF vars, Inv, files, ids, TasksOK, IdsOK, MuOK, ClockOK
<1> QED
  BY <1>1, <1>2, <1>3, <1>4, <1>5

-----------------------------------------------------------------------------
(* The theorems *)

(* An empty state home satisfies the invariant. *)
LEMMA InitOK == Init => Inv
<1> SUFFICES ASSUME Init PROVE Inv
  OBVIOUS
<1>1. CallsOK
  BY IdleOK DEF Init, CallsOK
<1>2. ReportsOK /\ TasksOK /\ IdsOK /\ MuOK /\ ClockOK
  BY DEF Init, ReportsOK, TasksOK, IdsOK, MuOK, ClockOK
<1> QED
  BY <1>1, <1>2 DEF Inv

(* Every step of the store keeps the invariant. *)
LEMMA NextOK == Inv /\ [Next]_vars => Inv'
BY ArriveOK, AcquireOK, ContinueOK, EnvironmentOK DEF Next, Quiet

(* The invariant implies what the runs check of it. *)
LEMMA InvImplies == Inv => TypeOK /\ ChainLinked /\ SameCandidates
<1>1. Inv => TypeOK
  BY DEF Inv, TypeOK, CallsOK, ReportsOK, TasksOK, IdsOK, MuOK, ClockOK
<1>2. Inv => ChainLinked /\ SameCandidates
  BY Zenon DEF Inv, ReportsOK, Sound, LinkSound, ChainLinked, SameCandidates
<1> QED
  BY <1>1, <1>2

(* The invariant holds throughout: what lies on disk and what requests hold
   of it is sound, whichever processes interleave, fail and crash. *)
THEOREM InvAlways == Spec => []Inv
BY InitOK, NextOK, PTL DEF Spec

(* Every file, lock and request of the store keeps its type: no request    *)
(* writes a record it did not load, in any number of processes.            *)
THEOREM TypeCorrect == Spec => []TypeOK
BY InvAlways, InvImplies, PTL

(* Whatever processes interleave and crash, AppendOwnedRevision and the    *)
(* report writers leave only digest chained reports on disk.               *)
THEOREM ReportsAreChained == Spec => []ChainLinked
BY InvAlways, InvImplies, PTL

(* Whatever report Verify read before it was replaced, no stored revision  *)
(* is about other candidates than the report it is stored with.            *)
THEOREM VerificationNeverWidens == Spec => []SameCandidates
BY InvAlways, InvImplies, PTL

=============================================================================
