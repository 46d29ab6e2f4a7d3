-------------------------- MODULE OneProcessProofs --------------------------
(***************************************************************************)
(* What Store.mu buys: the store of one process, proved for any number of  *)
(* owners, requests and steps of the clock.  Crashes and failing file      *)
(* operations are part of it; the results that need every request to get   *)
(* to its end assume MaxFaults = 0.                                        *)
(*                                                                         *)
(* A request in a critical section acts on files it read some steps before *)
(* and leaves them in states in which no request may find them.  The       *)
(* invariant therefore says of the one request that can be in a critical   *)
(* section what it knows of the files (FilesOK, SweepOK), and which broken *)
(* promises are its own (FinalOK); a request outside has no such excuse.   *)
(***************************************************************************)
EXTENDS OwnedStoreProofs

(* All requests are served by one process, so Store.mu excludes them all. *)
SharedLock == \A s, t \in Threads : ProcOf[s] = ProcOf[t]

(* The steps of a request that holds Store.mu. *)
Held == FileSteps \cup {"endMerge"}

(* The steps that remove files, and those a sweep goes through. *)
Cleaning == {"taskRemove", "eventsList", "eventsRemove", "grantRemove"}

SweepHeld == {"sweepRead", "sweepRemove", "eventsList", "eventsRemove", "evict"}

MutexOK == \A t \in Threads : call[t].pc \in Held <=> mu[ProcOf[t]] = t

(* An owner's append carries no executor handle, a report that is          *)
(* published for the first time has no revisions, and a sweep never leaves *)
(* its critical section.                                                   *)
PendingOK(c) ==
    /\ c.pc = "append" => c.handle = None
    /\ c.pc \in {"complete", "completeMerge", "reportWrite", "inspect", "retroWrite"}
          => c.rep.revisions = <<>>
    /\ c.sweep # None => c.pc \in SweepHeld

(* An owner that was not created has nothing, and a task's record covers   *)
(* what was acknowledged, stored and granted for it.                       *)
OwnersOK ==
    \A o \in Owners :
        /\ o \notin used =>
              /\ task[o] = None /\ report[o] = None /\ retro[o] = None
              /\ batches[o] = {} /\ issued[o] = {} /\ acked[o] = {}
        /\ task[o] # None =>
              /\ retro[o] = None
              /\ acked[o] \subseteq task[o].events \cup BatchEvents(batches[o])
              /\ Merges(task[o], batches[o])
              /\ \A h \in issued[o] : h.grant \in task[o].grants
        /\ retro[o] # None => batches[o] = {}

(* What r becomes when it is retained or verified. *)
Extension(r, q) ==
    /\ q.body = r.body
    /\ \/ q.revisions = r.revisions
       \/ \E rev \in Revision : q.revisions = Append(r.revisions, rev)
    /\ r.expires <= q.expires
    /\ r.retained => q.retained

(* What a request in its critical section has read is still there. *)
FilesOK(c) ==
    LET o == c.owner IN
    /\ c.pc \in {"taskWrite", "batchWrite", "endMerge", "completeMerge",
                 "reportWrite", "taskRemove"} => task[o] # None
    /\ c.pc = "taskWrite" =>
          /\ task[o].events \cup c.events \subseteq c.rec.events
          /\ task[o].grants \subseteq c.rec.grants
          /\ c.handle # None => c.handle.grant \in c.rec.grants
    /\ c.pc = "batchWrite" => c.handle \in issued[o]
    /\ c.pc = "endMerge" => c.rec = task[o]
    /\ c.pc \in {"eventsList", "eventsRemove"} => task[o] = None
    /\ c.pc = "eventsRemove" => c.todo = batches[o]
    /\ c.pc \in {"taskRemove", "grantRemove", "chainWrite", "forgetRemove"}
          => report[o] # None
    /\ c.pc = "chainWrite" => Extension(report[o], c.rep)
    /\ c.pc \in {"retroWrite", "grantRemove"} => retro[o] # None

(* The reports a sweep is through with, and those that are on disk fit. *)
Swept(c) ==
    {q \in Reports : q \notin c.sweep.left
                     /\ ~(c.pc = "sweepRemove" /\ q = c.owner)}

ReportsFit == DiskUse <= Capacity \/ \A q \in Reports : report[q].retained

(* A sweep knows every entry it has listed and every report it kept. *)
SweepOK(c) ==
    LET s == c.sweep IN
    c.pc \in SweepHeld /\ s # None =>
        /\ s.at <= now
        /\ \A q \in s.left : FileIn(s.dir, q) # None
        /\ c.pc = "sweepRemove" =>
              /\ c.owner \notin s.left
              /\ FileIn(s.dir, c.owner) # None
              /\ Expired(s.at, FileIn(s.dir, c.owner))
        /\ c.pc \in {"eventsList", "eventsRemove"} => s.dir = "tasks"
        /\ c.pc = "evict" => s.dir = "reports" /\ s.left = {}
        /\ s.dir = "reports" =>
              /\ s.kept = {Kept(q) : q \in Swept(c)}
              /\ \A q \in Swept(c) : ~Expired(s.at, report[q])
        /\ s.dir = "grants" =>
              /\ \A q \in Reports : ~Expired(s.at, report[q])
              /\ ReportsFit

(* Only the request that is about to repair it may have left a task or a   *)
(* grant beside its report, or batches without their task.                 *)
FinalOK(c) ==
    \A o \in Owners :
        /\ task[o] # None /\ report[o] # None
              => c.pc = "taskRemove" /\ c.owner = o
        /\ retro[o] # None /\ report[o] # None
              => c.pc = "grantRemove" /\ c.owner = o
        /\ task[o] = None /\ batches[o] # {}
              => c.pc \in {"eventsList", "eventsRemove"} /\ c.owner = o

Fits(c) ==
    /\ OwnersOK /\ FilesOK(c) /\ SweepOK(c)
    /\ MaxFaults = 0 => FinalOK(c)

(* No other request is in a critical section. *)
Alone(t) == \A u \in Threads \ {t} : call[u].pc \notin Held

(* The inductive invariant. *)
OneInv ==
    /\ Inv /\ MutexOK
    /\ IsFiniteSet(used)
    /\ \A t \in Threads : PendingOK(call[t])
    /\ \A t \in Threads : Alone(t) => Fits(call[t])
    /\ (\A t \in Threads : call[t].pc \notin Held) => Fits(IdleCall)
    /\ faults <= MaxFaults

-----------------------------------------------------------------------------
(* Steps of one request *)

(* The files and identifiers the invariant speaks of, and the clock. *)
Disk == <<task, batches, report, retro, used, issued, acked, now>>

(* What a step of t must establish. *)
Moved(t) ==
    /\ MutexOK' /\ PendingOK(call[t])' /\ Fits(call[t])'
    /\ \A u \in Threads \ {t} : call'[u] = call[u]

(* A request that goes on leaves the others as they are. *)
LEMMA Went ==
    ASSUME Inv, NEW t \in Threads, NEW c, Goto(t, c)
    PROVE  call'[t] = c /\ \A u \in Threads \ {t} : call'[u] = call[u]
BY DEF Goto, Inv, CallsOK

(* Store.mu is held exactly by the requests that are in a critical section. *)
LEMMA MutexKept ==
    ASSUME Inv, MutexOK, NEW t \in Threads, NEW c, Goto(t, c),
           \/ Unlock(t) /\ call[t].pc \in Held /\ c.pc \notin Held
           \/ Lock(t) /\ Free(t) /\ c.pc \in Held
           \/ UNCHANGED mu /\ (call[t].pc \in Held <=> c.pc \in Held)
    PROVE  MutexOK'
<1>1. call'[t] = c /\ \A u \in Threads \ {t} : call'[u] = call[u]
  BY Went
<1>2. ProcOf[t] \in Procs /\ mu \in [Procs -> Threads \cup {None}]
  BY ThreadsAssumption DEF Inv, MuOK
<1> SUFFICES ASSUME NEW u \in Threads
             PROVE  call'[u].pc \in Held <=> mu'[ProcOf[u]] = u
  BY DEF MutexOK
<1>3. ProcOf[u] \in Procs /\ u # None
  BY ThreadsAssumption, NoneAssumption
<1>4. call[u].pc \in Held <=> mu[ProcOf[u]] = u
  BY DEF MutexOK
<1>5. call[t].pc \in Held <=> mu[ProcOf[t]] = t
  BY DEF MutexOK
<1> QED BY <1>1, <1>2, <1>3, <1>4, <1>5 DEF Lock, Unlock, Free

(* In one process a request that finds Store.mu free, or holds it, is the  *)
(* only one in a critical section.                                         *)
LEMMA AloneOK ==
    ASSUME SharedLock, MutexOK, NEW t \in Threads, Free(t) \/ call[t].pc \in Held
    PROVE  Alone(t)
BY NoneAssumption DEF SharedLock, MutexOK, Alone, Free

(* What the reports occupy is about nothing else. *)
LEMMA DiskSame ==
    ASSUME UNCHANGED report
    PROVE  DiskUse' = DiskUse /\ Reports' = Reports
BY DEF DiskUse, Reports, MapThenSumSet, MapThenFoldSet

(* A sweep that goes on as c over files that did not change. *)
LEMMA SweepSame ==
    ASSUME UNCHANGED <<task, report, retro, now>>, NEW t \in Threads,
           NEW c, SweepOK(c), call'[t] = c
    PROVE  SweepOK(call[t])'
<1>1. \A dir, o : FileIn(dir, o)' = FileIn(dir, o)
  BY DEF FileIn
<1>2. Swept(call[t])' = Swept(c) /\ (ReportsFit' <=> ReportsFit) /\ Reports' = Reports
  BY DiskSame DEF Swept, ReportsFit
<1>3. \A q : Kept(q)' = Kept(q)
  BY DEF Kept
<1>4. {Kept(q) : q \in Swept(call[t])}' = {Kept(q) : q \in Swept(c)}
  BY <1>2, <1>3
<1> QED BY <1>1, <1>2, <1>4 DEF SweepOK, Expired

(* Outside a critical section all requests know the same. *)
LEMMA OutsideOK ==
    ASSUME Fits(IdleCall)', NEW u \in Threads, call'[u].pc \notin Held
    PROVE  Fits(call[u])'
BY Zenon DEF Fits, FilesOK, SweepOK, FinalOK, Held, SweepHeld, FileSteps, IdleCall

(* And conversely. *)
LEMMA InsideOK ==
    ASSUME NEW u \in Threads, call'[u].pc \notin Held, Fits(call[u])'
    PROVE  Fits(IdleCall)'
BY Zenon DEF Fits, FilesOK, SweepOK, FinalOK, Held, SweepHeld, FileSteps, IdleCall

(* The invariant after a step of t. *)
LEMMA MovedOK ==
    ASSUME OneInv, Inv', NEW t \in Threads, Alone(t), Moved(t),
           IsFiniteSet(used'), faults' <= MaxFaults
    PROVE  OneInv'
<1>1. \A u \in Threads : PendingOK(call[u])'
  BY DEF OneInv, Moved, PendingOK
<1>2. ASSUME NEW u \in Threads, Alone(u)'
      PROVE  Fits(call[u])'
  <2>1. CASE u = t
    BY <2>1 DEF Moved
  <2>2. CASE u # t
    <3>1. call'[u].pc \notin Held /\ call'[t].pc \notin Held
      BY <1>2, <2>2 DEF Alone, Moved
    <3> QED BY <3>1, InsideOK, OutsideOK DEF Moved
  <2> QED BY <2>1, <2>2
<1>3. ASSUME \A u \in Threads : call'[u].pc \notin Held
      PROVE  Fits(IdleCall)'
  BY <1>3, InsideOK DEF Moved
<1> QED BY <1>1, <1>2, <1>3 DEF OneInv, Moved

(* A step outside the files after which the request holds no lock. *)
LEMMA LeaveOK ==
    ASSUME NEW t \in Threads, Fits(call[t]), UNCHANGED Disk,
           call[t].pc \notin Cleaning, call'[t].pc \notin Held
    PROVE  Fits(call[t])'
<1>0. UNCHANGED <<task, batches, report, retro, used, issued, acked, now>>
  BY DEF Disk
<1>1. OwnersOK'
  BY <1>0 DEF Fits, OwnersOK, Merges, BatchEvents
<1>2. FilesOK(call[t])' /\ SweepOK(call[t])'
  BY DEF FilesOK, SweepOK, Held, SweepHeld, FileSteps
<1>3. MaxFaults = 0 => FinalOK(call[t])'
  BY <1>0 DEF Fits, FinalOK, Cleaning
<1> QED BY <1>1, <1>2, <1>3 DEF Fits

(* A step outside the files after which it holds the lock. *)
LEMMA TakeOK ==
    ASSUME NEW t \in Threads, Fits(call[t]), UNCHANGED Disk,
           call[t].pc \notin Cleaning, FilesOK(call[t])', SweepOK(call[t])'
    PROVE  Fits(call[t])'
<1>0. UNCHANGED <<task, batches, report, retro, used, issued, acked, now>>
  BY DEF Disk
<1>1. OwnersOK'
  BY <1>0 DEF Fits, OwnersOK, Merges, BatchEvents
<1>2. MaxFaults = 0 => FinalOK(call[t])'
  BY <1>0 DEF Fits, FinalOK, Cleaning
<1> QED BY <1>1, <1>2 DEF Fits

(* What a request holds at the steps that use it. *)
LEMMA Holding ==
    ASSUME OneInv, NEW t \in Threads
    PROVE  LET c == call[t] IN
           /\ c \in Call /\ PendingOK(c)
           /\ c.pc \notin {"idle", "sweepRead", "evict"} => c.owner \in Owners
           /\ c.pc \in {"complete", "completeMerge", "reportWrite", "chainWrite",
                        "inspect", "retroWrite"} => c.rep \in ReportFile
           /\ c.pc \in {"taskWrite", "endMerge", "completeMerge"} => c.rec \in TaskFile
           /\ c.pc \in {"sweepRead", "sweepRemove", "evict"} => c.sweep \in SweepState
           /\ c.pc = "revise" => c.rev \in Revision
           /\ c.pc = "batchWrite" => c.handle \in Handle
<1>1. call[t] \in Call /\ PendingOK(call[t]) /\ CallFits(call[t])
  BY DEF OneInv, Inv, CallsOK
<1> QED BY <1>1 DEF CallFits, Ownerless, RepSteps, SweepSteps

-----------------------------------------------------------------------------
(* Requests that arrive *)

(* An idle request holds nothing. *)
LEMMA Idle ==
    /\ IdleCall.pc = "idle" /\ IdleCall.sweep = None
    /\ IdleCall.pc \notin Held /\ IdleCall.pc \notin Cleaning
    /\ PendingOK(IdleCall)
BY DEF IdleCall, Held, FileSteps, Cleaning, PendingOK

(* A request that goes on outside its critical section, as it came. *)
LEMMA GoesOn ==
    ASSUME OneInv, NEW t \in Threads, Fits(call[t]), NEW c, Goto(t, c),
           UNCHANGED <<Disk, mu>>, call[t].pc \notin Held, c.pc \notin Held,
           PendingOK(c)
    PROVE  Moved(t)
<1>1. call'[t] = c /\ \A u \in Threads \ {t} : call'[u] = call[u]
  BY Went DEF OneInv
<1>2. MutexOK'
  BY MutexKept DEF OneInv
<1>3. Fits(call[t])'
  <2>1. call[t].pc \notin Cleaning
    BY DEF Held, Cleaning, FileSteps
  <2> QED BY <1>1, <2>1, LeaveOK
<1> QED BY <1>1, <1>2, <1>3 DEF Moved

(* A request that takes Store.mu and leaves the files as they are. *)
LEMMA Takes ==
    ASSUME OneInv, NEW t \in Threads, Fits(call[t]), NEW c, Goto(t, c),
           UNCHANGED Disk, Lock(t), Free(t), call[t].pc \notin Held, c.pc \in Held,
           PendingOK(c), FilesOK(c), SweepOK(c)
    PROVE  Moved(t)
<1>0. UNCHANGED <<task, batches, report, retro, used, issued, acked, now>>
  BY DEF Disk
<1>1. call'[t] = c /\ \A u \in Threads \ {t} : call'[u] = call[u]
  BY Went DEF OneInv
<1>2. MutexOK'
  BY MutexKept DEF OneInv
<1>3. Fits(call[t])'
  <2>1. call[t].pc \notin Cleaning
    BY DEF Held, Cleaning, FileSteps
  <2>2. FilesOK(call[t])'
    BY <1>0, <1>1 DEF FilesOK
  <2>3. SweepOK(call[t])'
    BY <1>0, <1>1, SweepSame
  <2> QED BY <2>1, <2>2, <2>3, TakeOK
<1> QED BY <1>1, <1>2, <1>3 DEF Moved

(* Begin *)
LEMMA BeginMoves ==
    ASSUME OneInv, NEW t \in Threads, Fits(call[t]), NEW o \in Owners, Begin(t, o)
    PROVE  Moved(t)
<1> DEFINE new == [events |-> {}, grants |-> {}, expires |-> now + Interruption]
<1>0. /\ o \notin used /\ used' = used \cup {o} /\ call[t].pc = "idle"
      /\ task' = [task EXCEPT ![o] = new]
      /\ UNCHANGED <<batches, report, retro, mu, call, now, issued, acked>>
  BY DEF Begin, Sends
<1>1. task'[o] = new /\ \A q \in Owners \ {o} : task'[q] = task[q]
  BY <1>0 DEF OneInv, Inv, TasksOK
<1>2. batches[o] = {} /\ report[o] = None /\ retro[o] = None /\ issued[o] = {}
      /\ acked[o] = {}
  BY Zenon, <1>0 DEF Fits, OwnersOK
<1>3. OwnersOK'
  <2>1. OwnersOK
    BY DEF Fits
  <2>2. Merges(new, batches[o])
    BY <1>2 DEF Merges
  <2> HIDE DEF new
  <2> QED BY <1>0, <1>1, <1>2, <2>1, <2>2 DEF OwnersOK
<1>4. FilesOK(call[t])' /\ SweepOK(call[t])'
  BY Zenon, <1>0 DEF FilesOK, SweepOK, SweepHeld
<1>5. MaxFaults = 0 => FinalOK(call[t])'
  BY Zenon, <1>0, <1>1, <1>2 DEF Fits, FinalOK
<1>6. MutexOK' /\ PendingOK(call[t])'
  BY Zenon, <1>0 DEF OneInv, MutexOK, PendingOK
<1> QED BY Zenon, <1>0, <1>3, <1>4, <1>5, <1>6 DEF Moved, Fits

(* GrantRetrospective *)
LEMMA GrantMoves ==
    ASSUME OneInv, NEW t \in Threads, Fits(call[t]), NEW o \in Owners,
           GrantRetrospective(t, o)
    PROVE  Moved(t)
<1> DEFINE new == [expires |-> now + GrantLife]
<1>0. /\ o \notin used /\ used' = used \cup {o} /\ call[t].pc = "idle"
      /\ retro' = [retro EXCEPT ![o] = new]
      /\ UNCHANGED <<batches, report, task, mu, call, now, issued, acked>>
  BY DEF GrantRetrospective, Sends
<1>1. retro'[o] = new /\ \A q \in Owners \ {o} : retro'[q] = retro[q]
  BY <1>0 DEF OneInv, Inv, TasksOK
<1>2. batches[o] = {} /\ report[o] = None /\ task[o] = None
  BY Zenon, <1>0 DEF Fits, OwnersOK
<1>3. OwnersOK'
  BY <1>0, <1>1, <1>2 DEF Fits, OwnersOK, Merges, BatchEvents
<1>4. FilesOK(call[t])' /\ SweepOK(call[t])'
  BY Zenon, <1>0 DEF FilesOK, SweepOK, SweepHeld
<1>5. MaxFaults = 0 => FinalOK(call[t])'
  BY <1>0, <1>1, <1>2 DEF Fits, FinalOK
<1>6. MutexOK' /\ PendingOK(call[t])'
  BY <1>0 DEF OneInv, MutexOK, PendingOK
<1> QED BY Zenon, <1>0, <1>3, <1>4, <1>5, <1>6 DEF Moved, Fits

(* The requests that read a file and go on without the lock. *)
LEMMA ReadersMove ==
    ASSUME OneInv, NEW t \in Threads, Fits(call[t]), NEW o \in Owners,
           \/ \E es \in SUBSET Events : AppendEvents(t, o, es)
           \/ \E present \in SUBSET Candidates : Verify(t, o, present)
           \/ \E revision \in 0..MaxRevisions : Summarize(t, o, revision)
           \/ \E es \in SUBSET Events, found \in SUBSET Candidates :
                  InspectCompletedAuthorized(t, o, es, found)
    PROVE  Moved(t)
<1>0. UNCHANGED <<Disk, mu>> /\ call[t].pc = "idle" /\ call[t].pc \notin Held
  BY Zenon DEF AppendEvents, Verify, Summarize, InspectCompletedAuthorized, Sends,
         Disk, files, ids, Held, FileSteps
<1>1. ASSUME NEW es \in SUBSET Events, AppendEvents(t, o, es)
      PROVE  Moved(t)
  <2> DEFINE c == [IdleCall EXCEPT !.pc = "append", !.owner = o, !.events = es]
  <2>1. c.pc = "append" /\ c.sweep = None /\ c.handle = None
    BY DEF IdleCall
  <2>2. Goto(t, c)
    BY Zenon, <1>1 DEF AppendEvents
  <2> HIDE DEF c
  <2> QED BY <1>0, <2>1, <2>2, GoesOn DEF Held, FileSteps, PendingOK
<1>2. ASSUME NEW present \in SUBSET Candidates, Verify(t, o, present)
      PROVE  Moved(t)
  <2>1. PICK rev : Goto(t, [IdleCall EXCEPT !.pc = "revise", !.owner = o, !.rev = rev])
    BY <1>2, Zenon DEF Verify
  <2> DEFINE c == [IdleCall EXCEPT !.pc = "revise", !.owner = o, !.rev = rev]
  <2>2. c.pc = "revise" /\ c.sweep = None
    BY DEF IdleCall
  <2> HIDE DEF c
  <2>3. Goto(t, c)
    BY <2>1 DEF c
  <2> QED BY <1>0, <2>2, <2>3, GoesOn DEF Held, FileSteps, PendingOK
<1>3. ASSUME NEW revision \in 0..MaxRevisions, Summarize(t, o, revision)
      PROVE  Moved(t)
  <2> DEFINE c == [IdleCall EXCEPT !.pc = "page", !.owner = o,
                                   !.rep = report[o], !.page = revision]
  <2>1. c.pc = "page" /\ c.sweep = None
    BY DEF IdleCall
  <2>2. Goto(t, c)
    BY Zenon, <1>3 DEF Summarize
  <2> HIDE DEF c
  <2> QED BY <1>0, <2>1, <2>2, GoesOn DEF Held, FileSteps, PendingOK
<1>4. ASSUME NEW es \in SUBSET Events, NEW found \in SUBSET Candidates,
             InspectCompletedAuthorized(t, o, es, found)
      PROVE  Moved(t)
  <2> DEFINE r == NewReport([mode |-> "RETROSPECTIVE", createdAt |-> now,
                             events |-> es, candidates |-> found])
             c == [IdleCall EXCEPT !.pc = "inspect", !.owner = o, !.rep = r]
  <2>1. r.revisions = <<>>
    BY DEF NewReport
  <2>2. Goto(t, c)
    BY Zenon, <1>4 DEF InspectCompletedAuthorized
  <2> HIDE DEF r
  <2>3. c.pc = "inspect" /\ c.sweep = None /\ c.rep = r
    BY DEF IdleCall
  <2> HIDE DEF c
  <2> QED BY <1>0, <2>1, <2>2, <2>3, GoesOn DEF Held, FileSteps, PendingOK
<1> QED BY <1>1, <1>2, <1>3, <1>4

(* DelegateOwnedExecutor *)
LEMMA DelegateMoves ==
    ASSUME OneInv, NEW t \in Threads, Fits(call[t]), NEW o \in Owners,
           NEW g \in GrantIDs, NEW life \in 1..ExecutorLife,
           DelegateOwnedExecutor(t, o, g, life)
    PROVE  Moved(t)
<1> DEFINE rec == [task[o] EXCEPT !.grants = @ \cup {g}, !.expires = now + Interruption]
           h == [grant |-> g, expires |-> now + life]
           c == [IdleCall EXCEPT !.pc = "taskWrite", !.owner = o, !.handle = h,
                                 !.rec = rec]
<1>1. task[o] # None /\ rec.events = task[o].events /\ rec.grants = task[o].grants \cup {g}
  <2>1. task[o] # None /\ task[o] \in TaskFile
    BY DEF DelegateOwnedExecutor, Loads, OneInv, Inv, TasksOK
  <2> QED BY <2>1 DEF TaskFile
<1>2. h.grant = g /\ Goto(t, c)
  BY DEF DelegateOwnedExecutor
<1>3. UNCHANGED Disk /\ Lock(t) /\ Free(t) /\ call[t].pc \notin Held
  BY DEF DelegateOwnedExecutor, Sends, Disk, files, Held, FileSteps
<1> HIDE DEF rec, h
<1>4. /\ c.pc = "taskWrite" /\ c.owner = o /\ c.handle = h /\ c.rec = rec
      /\ c.events = {} /\ c.sweep = None
  BY DEF IdleCall
<1> HIDE DEF c
<1>5. c.pc \in Held /\ PendingOK(c) /\ FilesOK(c) /\ SweepOK(c)
  <2>1. c.pc \in Held
    BY <1>1, <1>2, <1>4 DEF Held, FileSteps
  <2>2. PendingOK(c)
    BY <1>1, <1>2, <1>4 DEF PendingOK
  <2>3. FilesOK(c)
    BY <1>1, <1>2, <1>4 DEF FilesOK
  <2>4. SweepOK(c)
    BY <1>1, <1>2, <1>4 DEF SweepOK
  <2> QED BY <2>1, <2>2, <2>3, <2>4
<1> QED BY <1>2, <1>3, <1>5, Takes

(* AppendOwnedExecutorEvents *)
LEMMA ExecuteMoves ==
    ASSUME OneInv, NEW t \in Threads, Fits(call[t]), NEW o \in Owners,
           NEW h \in issued[o], NEW es \in SUBSET Events,
           AppendOwnedExecutorEvents(t, o, h, es)
    PROVE  Moved(t)
<1> DEFINE c == [IdleCall EXCEPT !.pc = "batchWrite", !.owner = o, !.events = es,
                                 !.handle = h]
<1>1. task[o] # None /\ Goto(t, c)
  BY DEF AppendOwnedExecutorEvents, Loads
<1>2. UNCHANGED Disk /\ Lock(t) /\ Free(t) /\ call[t].pc \notin Held
  BY DEF AppendOwnedExecutorEvents, Sends, Disk, files, ids, Held, FileSteps
<1>3. c.pc = "batchWrite" /\ c.owner = o /\ c.handle = h /\ c.sweep = None
  BY DEF IdleCall
<1> HIDE DEF c
<1>4. c.pc \in Held /\ PendingOK(c) /\ FilesOK(c) /\ SweepOK(c)
  <2>1. c.pc \in Held
    BY <1>1, <1>3 DEF Held, FileSteps
  <2>2. PendingOK(c)
    BY <1>1, <1>3 DEF PendingOK
  <2>3. FilesOK(c)
    BY <1>1, <1>3 DEF FilesOK
  <2>4. SweepOK(c)
    BY <1>1, <1>3 DEF SweepOK
  <2> QED BY <2>1, <2>2, <2>3, <2>4
<1> QED BY Zenon, <1>1, <1>2, <1>4, Takes

(* LoadOwnedTaskForEnd *)
LEMMA EndMoves ==
    ASSUME OneInv, NEW t \in Threads, Fits(call[t]), NEW o \in Owners,
           LoadOwnedTaskForEnd(t, o)
    PROVE  Moved(t)
<1> DEFINE c == [IdleCall EXCEPT !.pc = "endMerge", !.owner = o, !.rec = task[o]]
<1>1. task[o] # None /\ Goto(t, c)
  BY DEF LoadOwnedTaskForEnd, Loads
<1>2. UNCHANGED Disk /\ Lock(t) /\ Free(t) /\ call[t].pc \notin Held
  BY DEF LoadOwnedTaskForEnd, Sends, Disk, files, ids, Held, FileSteps
<1>3. c.pc = "endMerge" /\ c.owner = o /\ c.rec = task[o] /\ c.sweep = None
  BY DEF IdleCall
<1> HIDE DEF c
<1>4. c.pc \in Held /\ PendingOK(c) /\ FilesOK(c) /\ SweepOK(c)
  <2>1. c.pc \in Held
    BY <1>1, <1>3 DEF Held, FileSteps
  <2>2. PendingOK(c)
    BY <1>1, <1>3 DEF PendingOK
  <2>3. FilesOK(c)
    BY <1>1, <1>3 DEF FilesOK
  <2>4. SweepOK(c)
    BY <1>1, <1>3 DEF SweepOK
  <2> QED BY <2>1, <2>2, <2>3, <2>4
<1> QED BY <1>1, <1>2, <1>4, Takes

(* RetainOwnedReport *)
LEMMA RetainMoves ==
    ASSUME OneInv, NEW t \in Threads, Fits(call[t]), NEW o \in Owners,
           RetainOwnedReport(t, o)
    PROVE  Moved(t)
<1> DEFINE r == [report[o] EXCEPT !.retained = TRUE, !.expires = @ + Retention]
           c == [IdleCall EXCEPT !.pc = "chainWrite", !.owner = o, !.rep = r]
<1>1. report[o] # None /\ Extension(report[o], r)
  <2>1. report[o] # None /\ report[o] \in ReportFile
    BY DEF RetainOwnedReport, OneInv, Inv, ReportsOK
  <2>2. /\ r.body = report[o].body /\ r.revisions = report[o].revisions
        /\ r.expires = report[o].expires + Retention /\ r.retained = TRUE
    BY <2>1 DEF ReportFile
  <2>3. report[o].expires \in Nat /\ Retention \in Nat
    BY <2>1, TimesNat DEF ReportFile
  <2> QED BY <2>1, <2>2, <2>3 DEF Extension
<1>2. Goto(t, c)
  BY DEF RetainOwnedReport
<1>3. UNCHANGED Disk /\ Lock(t) /\ Free(t) /\ call[t].pc \notin Held
  BY DEF RetainOwnedReport, Sends, Disk, files, ids, Held, FileSteps
<1> HIDE DEF r
<1>4. c.pc = "chainWrite" /\ c.owner = o /\ c.rep = r /\ c.sweep = None
  BY DEF IdleCall
<1> HIDE DEF c
<1>5. c.pc \in Held /\ PendingOK(c) /\ FilesOK(c) /\ SweepOK(c)
  <2>1. c.pc \in Held
    BY <1>1, <1>4 DEF Held, FileSteps
  <2>2. PendingOK(c)
    BY <1>1, <1>4 DEF PendingOK
  <2>3. FilesOK(c)
    BY <1>1, <1>4 DEF FilesOK
  <2>4. SweepOK(c)
    BY <1>1, <1>4 DEF SweepOK
  <2> QED BY <2>1, <2>2, <2>3, <2>4
<1> QED BY Zenon, <1>2, <1>3, <1>5, Takes

(* ForgetOwnedReport *)
LEMMA ForgetMoves ==
    ASSUME OneInv, NEW t \in Threads, Fits(call[t]), NEW o \in Owners,
           ForgetOwnedReport(t, o)
    PROVE  Moved(t)
<1> DEFINE c == [IdleCall EXCEPT !.pc = "forgetRemove", !.owner = o]
<1>1. report[o] # None /\ Goto(t, c)
  BY DEF ForgetOwnedReport
<1>2. UNCHANGED Disk /\ Lock(t) /\ Free(t) /\ call[t].pc \notin Held
  BY DEF ForgetOwnedReport, Sends, Disk, files, ids, Held, FileSteps
<1>3. c.pc = "forgetRemove" /\ c.owner = o /\ c.sweep = None
  BY DEF IdleCall
<1> HIDE DEF c
<1>4. c.pc \in Held /\ PendingOK(c) /\ FilesOK(c) /\ SweepOK(c)
  <2>1. c.pc \in Held
    BY <1>1, <1>3 DEF Held, FileSteps
  <2>2. PendingOK(c)
    BY <1>1, <1>3 DEF PendingOK
  <2>3. FilesOK(c)
    BY <1>1, <1>3 DEF FilesOK
  <2>4. SweepOK(c)
    BY <1>1, <1>3 DEF SweepOK
  <2> QED BY <2>1, <2>2, <2>3, <2>4
<1> QED BY <1>1, <1>2, <1>4, Takes

-----------------------------------------------------------------------------
(* Requests that come back for the lock *)

(* A request that gives up without having taken the lock. *)
LEMMA GivesUp ==
    ASSUME OneInv, NEW t \in Threads, Fits(call[t]), Return(t),
           UNCHANGED <<Disk, mu>>, call[t].pc \notin Held
    PROVE  Moved(t)
BY Idle, GoesOn DEF Return

(* AppendOwnedEvents *)
LEMMA AppendMoves ==
    ASSUME OneInv, NEW t \in Threads, Fits(call[t]), AppendOwnedEvents(t)
    PROVE  Moved(t)
<1> DEFINE o == call[t].owner
           es == call[t].events
           rec == [task[o] EXCEPT !.events = @ \cup es, !.expires = now + Interruption]
           c == [call[t] EXCEPT !.pc = "taskWrite", !.rec = rec]
<1>1. /\ call[t] \in Call /\ o \in Owners /\ call[t].pc = "append" /\ Free(t)
      /\ UNCHANGED Disk
  BY Holding DEF AppendOwnedEvents, Disk, files, ids
<1>2. call[t].pc \notin Held
  BY <1>1 DEF Held, FileSteps
<1>3. CASE ~Loads(o)
  BY <1>1, <1>2, <1>3, GivesUp DEF AppendOwnedEvents, Disk
<1>4. CASE Loads(o)
  <2>1. task[o] # None /\ rec.events = task[o].events \cup es /\ rec.grants = task[o].grants
    <3>1. task[o] # None /\ task[o] \in TaskFile
      BY <1>1, <1>4 DEF Loads, OneInv, Inv, TasksOK
    <3> QED BY <3>1 DEF TaskFile
  <2>2. Goto(t, c) /\ Lock(t)
    BY <1>4 DEF AppendOwnedEvents
  <2>3. call[t].sweep = None /\ call[t].handle = None
    BY <1>1, Holding DEF PendingOK, SweepHeld
  <2> HIDE DEF rec
  <2>4. /\ c.pc = "taskWrite" /\ c.owner = o /\ c.rec = rec /\ c.events = es
        /\ c.sweep = None /\ c.handle = None
    BY <1>1, <2>3 DEF Call
  <2> HIDE DEF c
  <2>5. c.pc \in Held /\ PendingOK(c) /\ SweepOK(c)
    BY <2>4 DEF Held, FileSteps, PendingOK, SweepOK
  <2>6. FilesOK(c)
    BY <2>1, <2>4 DEF FilesOK
  <2> QED BY <1>1, <1>2, <2>2, <2>5, <2>6, Takes
<1> QED BY <1>3, <1>4

(* CompleteOwnedTask *)
LEMMA CompleteMoves ==
    ASSUME OneInv, NEW t \in Threads, Fits(call[t]), CompleteOwnedTask(t)
    PROVE  Moved(t)
<1> DEFINE o == call[t].owner
           c == [call[t] EXCEPT !.pc = "completeMerge", !.rec = task[o]]
<1>1. /\ call[t] \in Call /\ o \in Owners /\ call[t].pc = "complete" /\ Free(t)
      /\ UNCHANGED Disk
  BY Holding DEF CompleteOwnedTask, Disk, files, ids
<1>2. call[t].pc \notin Held
  BY <1>1 DEF Held, FileSteps
<1>3. CASE ~Loads(o)
  BY <1>1, <1>2, <1>3, GivesUp DEF CompleteOwnedTask, Disk
<1>4. CASE Loads(o)
  <2>1. Goto(t, c) /\ Lock(t) /\ task[o] # None
    BY <1>4 DEF CompleteOwnedTask, Loads
  <2>2. call[t].sweep = None /\ call[t].rep.revisions = <<>>
    BY <1>1, Holding DEF PendingOK, SweepHeld
  <2>3. /\ c.pc = "completeMerge" /\ c.owner = o /\ c.rep = call[t].rep
        /\ c.sweep = None
    BY <1>1, <2>2 DEF Call
  <2> HIDE DEF c
  <2>4. c.pc \in Held /\ PendingOK(c) /\ FilesOK(c) /\ SweepOK(c)
    <3>1. c.pc \in Held
      BY <2>1, <2>2, <2>3 DEF Held, FileSteps
    <3>2. PendingOK(c)
      BY <2>1, <2>2, <2>3 DEF PendingOK
    <3>3. FilesOK(c)
      BY <2>1, <2>2, <2>3 DEF FilesOK
    <3>4. SweepOK(c)
      BY <2>1, <2>2, <2>3 DEF SweepOK
    <3> QED BY <3>1, <3>2, <3>3, <3>4
  <2> QED BY <1>1, <1>2, <2>1, <2>4, Takes
<1> QED BY <1>3, <1>4

(* AppendOwnedRevision *)
LEMMA ReviseMoves ==
    ASSUME OneInv, NEW t \in Threads, Fits(call[t]), AppendOwnedRevision(t)
    PROVE  Moved(t)
<1> DEFINE o == call[t].owner
           rev == call[t].rev
           r == report[o]
           q == [r EXCEPT !.revisions = Append(@, rev)]
           c == [IdleCall EXCEPT !.pc = "chainWrite", !.owner = o, !.rep = q]
<1>1. /\ o \in Owners /\ rev \in Revision /\ call[t].pc = "revise" /\ Free(t)
      /\ UNCHANGED Disk
  BY Holding DEF AppendOwnedRevision, Disk, files, ids
<1>2. call[t].pc \notin Held
  BY <1>1 DEF Held, FileSteps
<1>3. CASE Return(t) /\ UNCHANGED mu
  BY <1>1, <1>2, <1>3, GivesUp DEF Disk
<1>4. CASE r # None /\ Lock(t) /\ Goto(t, c)
  <2>1. r \in ReportFile
    BY <1>1, <1>4 DEF OneInv, Inv, ReportsOK
  <2>2. Extension(r, q)
    <3>1. /\ q.body = r.body /\ q.revisions = Append(r.revisions, rev)
          /\ q.expires = r.expires /\ q.retained = r.retained /\ r.expires \in Nat
      BY Zenon, <2>1 DEF ReportFile
    <3> HIDE DEF q, r
    <3> QED BY <1>1, <3>1 DEF Extension
  <2> HIDE DEF q
  <2>3. c.pc = "chainWrite" /\ c.owner = o /\ c.rep = q /\ c.sweep = None
    BY DEF IdleCall
  <2> HIDE DEF c
  <2>4. c.pc \in Held /\ PendingOK(c) /\ FilesOK(c) /\ SweepOK(c)
    <3>1. c.pc \in Held
      BY <1>4, <2>2, <2>3 DEF Held, FileSteps
    <3>2. PendingOK(c)
      BY <1>4, <2>2, <2>3 DEF PendingOK
    <3>3. FilesOK(c)
      BY <1>4, <2>2, <2>3 DEF FilesOK
    <3>4. SweepOK(c)
      BY <1>4, <2>2, <2>3 DEF SweepOK
    <3> QED BY <3>1, <3>2, <3>3, <3>4
  <2> QED BY Zenon, <1>1, <1>2, <1>4, <2>4, Takes
<1> QED BY <1>3, <1>4 DEF AppendOwnedRevision

(* GetCandidatePage *)
LEMMA PageMoves ==
    ASSUME OneInv, NEW t \in Threads, Fits(call[t]), GetCandidatePage(t)
    PROVE  Moved(t)
BY Zenon, GivesUp DEF GetCandidatePage, Disk, files, ids, Held, FileSteps

(* CompleteRetrospectiveGrant *)
LEMMA CompleteGrantMoves ==
    ASSUME OneInv, NEW t \in Threads, Fits(call[t]), CompleteRetrospectiveGrant(t)
    PROVE  Moved(t)
<1> DEFINE o == call[t].owner
           q == Stamped(call[t].rep)
           c == [call[t] EXCEPT !.pc = "retroWrite", !.rep = q]
<1>1. /\ call[t] \in Call /\ o \in Owners /\ call[t].pc = "inspect" /\ Free(t)
      /\ UNCHANGED Disk
  BY Holding DEF CompleteRetrospectiveGrant, Disk, files, ids
<1>2. call[t].pc \notin Held
  BY <1>1 DEF Held, FileSteps
<1>3. CASE ~GrantLoads(o)
  BY <1>1, <1>2, <1>3, GivesUp DEF CompleteRetrospectiveGrant, Disk
<1>4. CASE GrantLoads(o)
  <2>1. Goto(t, c) /\ Lock(t) /\ retro[o] # None
    BY <1>4 DEF CompleteRetrospectiveGrant, GrantLoads
  <2>2. /\ call[t].sweep = None /\ call[t].rep.revisions = <<>>
        /\ call[t].rep \in ReportFile
    BY <1>1, Holding DEF PendingOK, SweepHeld
  <2>3. q.revisions = <<>>
    BY <2>2 DEF Stamped, ReportFile
  <2> HIDE DEF q
  <2>4. c.pc = "retroWrite" /\ c.owner = o /\ c.rep = q /\ c.sweep = None
    BY <1>1, <2>2 DEF Call
  <2> HIDE DEF c
  <2>5. c.pc \in Held /\ PendingOK(c) /\ FilesOK(c) /\ SweepOK(c)
    <3>1. c.pc \in Held
      BY <2>1, <2>3, <2>4 DEF Held, FileSteps
    <3>2. PendingOK(c)
      BY <2>1, <2>3, <2>4 DEF PendingOK
    <3>3. FilesOK(c)
      BY <2>1, <2>3, <2>4 DEF FilesOK
    <3>4. SweepOK(c)
      BY <2>1, <2>3, <2>4 DEF SweepOK
    <3> QED BY <3>1, <3>2, <3>3, <3>4
  <2> QED BY <1>1, <1>2, <2>1, <2>5, Takes
<1> QED BY <1>3, <1>4

-----------------------------------------------------------------------------
(* Entering a directory *)

(* A sweep that has just listed the directory dir. *)
Entered(at, dir) ==
    [IdleCall EXCEPT
       !.pc = "sweepRead",
       !.sweep = [at |-> at, dir |-> dir, kept |-> {},
                  left |-> {o \in Owners : FileIn(dir, o) # None}]]

(* It knows what a sweep must know. *)
LEMMA EnteredFits ==
    ASSUME NEW at \in Nat, at <= now, NEW dir \in Directories,
           dir = "grants" => /\ \A q \in Reports : ~Expired(at, report[q])
                             /\ ReportsFit
    PROVE  LET c == Entered(at, dir) IN
           c.pc \in Held /\ PendingOK(c) /\ FilesOK(c) /\ SweepOK(c)
<1> DEFINE left == {o \in Owners : FileIn(dir, o) # None}
           s == [at |-> at, dir |-> dir, kept |-> {}, left |-> left]
           c == Entered(at, dir)
<1>1. s.at = at /\ s.dir = dir /\ s.kept = {} /\ s.left = left
  OBVIOUS
<1>2. c.pc = "sweepRead" /\ c.sweep = s
  BY DEF Entered, IdleCall
<1> HIDE DEF s, c
<1>3. c.pc \in Held /\ PendingOK(c) /\ FilesOK(c)
  BY <1>2 DEF Held, FileSteps, PendingOK, SweepHeld, FilesOK
<1>4. ASSUME dir = "reports"
      PROVE  Swept(c) = {}
  BY <1>1, <1>2, <1>4 DEF Swept, Reports, FileIn
<1>5. SweepOK(c)
  BY <1>1, <1>2, <1>4 DEF SweepOK
<1> QED BY <1>3, <1>5 DEF c

(* Sweep *)
LEMMA SweepMoves ==
    ASSUME OneInv, NEW t \in Threads, Fits(call[t]), Sweep(t)
    PROVE  Moved(t)
<1> DEFINE c == Entered(now, "tasks")
<1>1. Goto(t, c)
  BY DEF Sweep, Enter, Entered
<1>2. UNCHANGED Disk /\ Lock(t) /\ Free(t) /\ call[t].pc \notin Held
  BY DEF Sweep, Sends, Disk, files, ids, Held, FileSteps
<1>3. now \in Nat /\ "tasks" \in Directories
  BY DEF OneInv, Inv, ClockOK, Directories
<1>4. c.pc \in Held /\ PendingOK(c) /\ FilesOK(c) /\ SweepOK(c)
  BY <1>3, EnteredFits
<1> HIDE DEF c
<1> QED BY Zenon, <1>1, <1>2, <1>4, Takes

-----------------------------------------------------------------------------
(* Requests that hold the lock *)

(* A request that goes on in its critical section over unchanged files. *)
LEMMA Stays ==
    ASSUME OneInv, NEW t \in Threads, Fits(call[t]), NEW c, Goto(t, c),
           UNCHANGED <<Disk, mu>>, call[t].pc \in Held \ Cleaning, c.pc \in Held,
           PendingOK(c), FilesOK(c), SweepOK(c)
    PROVE  Moved(t)
<1>0. UNCHANGED <<task, batches, report, retro, used, issued, acked, now>>
  BY DEF Disk
<1>1. call'[t] = c /\ \A u \in Threads \ {t} : call'[u] = call[u]
  BY Went DEF OneInv
<1>2. MutexOK'
  BY MutexKept DEF OneInv
<1>3. Fits(call[t])'
  <2>1. FilesOK(call[t])'
    BY Zenon, <1>0, <1>1 DEF FilesOK
  <2>2. SweepOK(call[t])'
    BY Zenon, <1>0, <1>1, SweepSame
  <2> QED BY Zenon, <2>1, <2>2, TakeOK
<1> QED BY <1>1, <1>2, <1>3 DEF Moved

(* A request that leaves its critical section and unchanged files. *)
LEMMA Releases ==
    ASSUME OneInv, NEW t \in Threads, Fits(call[t]), NEW c, Goto(t, c),
           UNCHANGED Disk, Unlock(t), call[t].pc \in Held \ Cleaning,
           c.pc \notin Held, PendingOK(c)
    PROVE  Moved(t)
<1>1. call'[t] = c /\ \A u \in Threads \ {t} : call'[u] = call[u]
  BY Went DEF OneInv
<1>2. MutexOK'
  BY MutexKept DEF OneInv
<1>3. Fits(call[t])'
  BY <1>1, LeaveOK
<1> QED BY <1>1, <1>2, <1>3 DEF Moved

(* A request that has changed the files and goes on, or returns. *)
LEMMA Changes ==
    ASSUME OneInv, NEW t \in Threads, call[t].pc \in Held, NEW c, Goto(t, c),
           \/ UNCHANGED mu /\ c.pc \in Held
           \/ Unlock(t) /\ c.pc \notin Held,
           PendingOK(c), OwnersOK', FilesOK(call[t])', SweepOK(call[t])',
           MaxFaults = 0 => FinalOK(call[t])'
    PROVE  Moved(t)
<1>1. call'[t] = c /\ \A u \in Threads \ {t} : call'[u] = call[u]
  BY Went DEF OneInv
<1>2. MutexOK'
  BY Zenon, MutexKept DEF OneInv
<1> QED BY <1>1, <1>2 DEF Moved, Fits

(* The rewrite of a task record, acknowledged or not. *)
LEMMA TaskRewritten ==
    ASSUME OneInv, NEW t \in Threads, Fits(call[t]), call[t].pc = "taskWrite",
           task' = [task EXCEPT ![call[t].owner] = call[t].rec],
           UNCHANGED <<batches, report, retro, used>>,
           \A q \in Owners : acked'[q] = acked[q]
               \/ (q = call[t].owner /\ acked'[q] = acked[q] \cup call[t].events),
           \A q \in Owners : issued'[q] = issued[q]
               \/ (q = call[t].owner /\ call[t].handle # None
                   /\ issued'[q] = issued[q] \cup {call[t].handle})
    PROVE  OwnersOK' /\ (MaxFaults = 0 => FinalOK(IdleCall)')
<1> DEFINE o == call[t].owner
           rec == call[t].rec
           es == call[t].events
           h == call[t].handle
<1>1. o \in Owners /\ rec \in TaskFile /\ rec # None
  BY Zenon, Holding, NoFileAssumption
<1>2. /\ task[o] # None /\ task[o].events \cup es \subseteq rec.events
      /\ task[o].grants \subseteq rec.grants /\ (h # None => h.grant \in rec.grants)
  BY Zenon DEF Fits, FilesOK
<1>3. task'[o] = rec /\ \A q \in Owners \ {o} : task'[q] = task[q]
  BY Zenon, <1>1 DEF OneInv, Inv, TasksOK
<1>4. o \in used /\ retro[o] = None
  BY Zenon, <1>1, <1>2 DEF Fits, OwnersOK
<1> HIDE DEF o, rec, es, h
<1>5. /\ acked'[o] \subseteq rec.events \cup BatchEvents(batches[o])
      /\ Merges(rec, batches[o])
      /\ \A x \in issued'[o] : x.grant \in rec.grants
  <2>1. /\ acked[o] \subseteq task[o].events \cup BatchEvents(batches[o])
        /\ Merges(task[o], batches[o])
        /\ \A x \in issued[o] : x.grant \in task[o].grants
    BY Zenon, <1>1, <1>2 DEF Fits, OwnersOK
  <2>2. acked'[o] = acked[o] \/ acked'[o] = acked[o] \cup es
    BY <1>1 DEF o, es
  <2>3. issued'[o] = issued[o] \/ (h # None /\ issued'[o] = issued[o] \cup {h})
    BY <1>1 DEF o, h
  <2>4. acked'[o] \subseteq rec.events \cup BatchEvents(batches[o])
    BY <1>2, <2>1, <2>2
  <2>5. Merges(rec, batches[o])
    BY <1>2, <2>1 DEF Merges
  <2>6. \A x \in issued'[o] : x.grant \in rec.grants
    BY <1>2, <2>1, <2>3
  <2> QED BY Zenon, <2>4, <2>5, <2>6
<1>6. \A q \in Owners \ {o} : acked'[q] = acked[q] /\ issued'[q] = issued[q]
  BY DEF o
<1>7. OwnersOK'
  <2>1. OwnersOK
    BY DEF Fits
  <2> QED BY <1>1, <1>3, <1>4, <1>5, <1>6, <2>1 DEF OwnersOK
<1>8. ASSUME MaxFaults = 0 PROVE FinalOK(IdleCall)'
  <2>1. FinalOK(call[t])
    BY Zenon, <1>8 DEF Fits
  <2>2. report[o] = None /\ (\A q \in Owners : task[q] = None => batches[q] = {})
        /\ (\A q \in Owners : report[q] # None => task[q] = None /\ retro[q] = None)
    BY Zenon, <1>1, <1>2, <2>1 DEF FinalOK
  <2> QED BY Zenon, <1>1, <1>2, <1>3, <2>2 DEF FinalOK
<1> QED BY <1>7, <1>8

(* The new file of executor events, acknowledged or not. *)
LEMMA BatchWritten ==
    ASSUME OneInv, NEW t \in Threads, Fits(call[t]), call[t].pc = "batchWrite",
           batches' = [batches EXCEPT ![call[t].owner] =
                @ \cup {[grant |-> call[t].handle.grant, events |-> call[t].events]}],
           UNCHANGED <<task, report, retro, used, issued>>,
           \A q \in Owners : acked'[q] = acked[q]
               \/ (q = call[t].owner /\ acked'[q] = acked[q] \cup call[t].events)
    PROVE  OwnersOK' /\ (MaxFaults = 0 => FinalOK(IdleCall)')
<1> DEFINE o == call[t].owner
           es == call[t].events
           b == [grant |-> call[t].handle.grant, events |-> es]
<1>1. o \in Owners /\ call[t].handle \in issued[o] /\ task[o] # None
  BY Zenon, Holding DEF Fits, FilesOK
<1>2. b.grant = call[t].handle.grant /\ b.events = es
  BY Zenon
<1>3. /\ batches'[o] = batches[o] \cup {b}
      /\ \A q \in Owners \ {o} : batches'[q] = batches[q]
  BY Zenon, <1>1 DEF OneInv, Inv, TasksOK
<1>4. acked'[o] = acked[o] \/ acked'[o] = acked[o] \cup es
  BY <1>1
<1>5. \A q \in Owners \ {o} : acked'[q] = acked[q]
  OBVIOUS
<1> HIDE DEF o, es, b
<1>6. /\ o \in used /\ retro[o] = None
      /\ acked[o] \subseteq task[o].events \cup BatchEvents(batches[o])
      /\ Merges(task[o], batches[o])
      /\ \A x \in issued[o] : x.grant \in task[o].grants
  BY Zenon, <1>1 DEF Fits, OwnersOK
<1>7. acked'[o] \subseteq task[o].events \cup BatchEvents(batches'[o])
  <2>1. BatchEvents(batches'[o]) = BatchEvents(batches[o]) \cup es
    BY <1>2, <1>3 DEF BatchEvents
  <2> QED BY Zenon, <1>4, <1>6, <2>1
<1>8. Merges(task[o], batches'[o])
  BY Zenon, <1>1, <1>2, <1>3, <1>6 DEF Merges
<1>9. OwnersOK'
  BY Zenon, <1>1, <1>3, <1>5, <1>6, <1>7, <1>8 DEF Fits, OwnersOK, Merges, BatchEvents
<1>10. ASSUME MaxFaults = 0 PROVE FinalOK(IdleCall)'
  <2>1. FinalOK(call[t])
    BY Zenon, <1>10 DEF Fits
  <2>2. (\A q \in Owners : task[q] = None => batches[q] = {})
        /\ (\A q \in Owners : report[q] # None => task[q] = None /\ retro[q] = None)
    BY <2>1 DEF FinalOK
  <2> QED BY Zenon, <1>1, <1>3, <2>2 DEF FinalOK
<1> QED BY Zenon, <1>9, <1>10

(* A request that has changed the files and returns. *)
LEMMA Returns ==
    ASSUME OneInv, NEW t \in Threads, call[t].pc \in Held, Return(t), Unlock(t),
           OwnersOK', MaxFaults = 0 => FinalOK(IdleCall)'
    PROVE  Moved(t)
<1>1. call'[t] = IdleCall
  BY Went DEF OneInv, Return
<1>2. FilesOK(call[t])' /\ SweepOK(call[t])'
  BY Zenon, <1>1, Idle DEF FilesOK, SweepOK, SweepHeld
<1>3. MaxFaults = 0 => FinalOK(call[t])'
  BY Zenon, <1>1 DEF FinalOK
<1> QED BY Zenon, <1>2, <1>3, Idle, Changes DEF Return

(* WriteTask *)
LEMMA WriteTaskMoves ==
    ASSUME OneInv, NEW t \in Threads, Fits(call[t]), WriteTask(t)
    PROVE  Moved(t)
<1> DEFINE c == call[t]
<1>1. /\ c.pc = "taskWrite" /\ Return(t) /\ Unlock(t)
      /\ task' = [task EXCEPT ![c.owner] = c.rec]
      /\ UNCHANGED <<batches, report, retro, used>>
  BY Zenon DEF WriteTask
<1>2. \A q \in Owners : acked'[q] = acked[q]
          \/ (q = c.owner /\ acked'[q] = acked[q] \cup c.events)
  BY Zenon, Holding DEF WriteTask, OneInv, Inv, IdsOK
<1>3. \A q \in Owners : issued'[q] = issued[q]
          \/ (q = c.owner /\ c.handle # None /\ issued'[q] = issued[q] \cup {c.handle})
  BY Zenon, Holding DEF WriteTask, OneInv, Inv, IdsOK
<1>4. c.pc \in Held
  BY <1>1 DEF Held, FileSteps
<1> QED BY Zenon, <1>1, <1>2, <1>3, <1>4, TaskRewritten, Returns

(* WriteBatch *)
LEMMA WriteBatchMoves ==
    ASSUME OneInv, NEW t \in Threads, Fits(call[t]), WriteBatch(t)
    PROVE  Moved(t)
<1> DEFINE c == call[t]
<1>1. /\ c.pc = "batchWrite" /\ Return(t) /\ Unlock(t)
      /\ batches' = [batches EXCEPT ![c.owner] =
             @ \cup {[grant |-> c.handle.grant, events |-> c.events]}]
      /\ UNCHANGED <<task, report, retro, used, issued>>
  BY Zenon DEF WriteBatch
<1>2. \A q \in Owners : acked'[q] = acked[q]
          \/ (q = c.owner /\ acked'[q] = acked[q] \cup c.events)
  BY Zenon, Holding DEF WriteBatch, OneInv, Inv, IdsOK
<1>3. c.pc \in Held
  BY Zenon, <1>1 DEF Held, FileSteps
<1> QED BY Zenon, <1>1, <1>2, <1>3, BatchWritten, Returns

(* MergeAndObserve *)
LEMMA MergeMoves ==
    ASSUME OneInv, NEW t \in Threads, Fits(call[t]), MergeAndObserve(t)
    PROVE  Moved(t)
<1>1. /\ call[t].pc = "endMerge" /\ Unlock(t) /\ UNCHANGED Disk
      /\ call[t].pc \in Held \ Cleaning
  BY Zenon DEF MergeAndObserve, Disk, files, ids, Held, Cleaning
<1>2. CASE Return(t)
  BY Zenon, <1>1, <1>2, Idle, Releases DEF Return
<1>3. ASSUME NEW r \in EndReports(call[t].rec, batches[call[t].owner]),
             Goto(t, [IdleCall EXCEPT !.pc = "complete", !.owner = call[t].owner,
                                      !.rep = r])
      PROVE  Moved(t)
  <2> DEFINE c == [IdleCall EXCEPT !.pc = "complete", !.owner = call[t].owner, !.rep = r]
  <2>1. r.revisions = <<>>
    BY <1>3 DEF EndReports, NewReport
  <2>2. c.pc = "complete" /\ c.rep = r /\ c.sweep = None
    BY DEF IdleCall
  <2>3. Goto(t, c)
    BY <1>3
  <2> HIDE DEF c
  <2>4. c.pc \notin Held /\ PendingOK(c)
    BY <2>1, <2>2 DEF Held, FileSteps, PendingOK
  <2> QED BY <1>1, <2>3, <2>4, Releases
<1> QED BY Zenon, <1>2, <1>3 DEF MergeAndObserve

(* CompleteMerge *)
LEMMA CompleteMergeMoves ==
    ASSUME OneInv, NEW t \in Threads, Fits(call[t]), CompleteMerge(t)
    PROVE  Moved(t)
<1> DEFINE o == call[t].owner
           q == Stamped(call[t].rep)
           c == [IdleCall EXCEPT !.pc = "reportWrite", !.owner = o, !.rep = q]
<1>1. /\ call[t].pc = "completeMerge" /\ UNCHANGED Disk
      /\ call[t].pc \in Held \ Cleaning
  BY DEF CompleteMerge, Disk, files, ids, Held, FileSteps, Cleaning
<1>2. CASE Return(t) /\ Unlock(t)
  BY Zenon, <1>1, <1>2, Idle, Releases DEF Return
<1>3. CASE Goto(t, c) /\ UNCHANGED mu
  <2>1. task[o] # None
    BY Zenon, <1>1 DEF Fits, FilesOK
  <2>2. call[t].rep.revisions = <<>> /\ call[t].rep \in ReportFile
    BY Zenon, <1>1, Holding DEF PendingOK
  <2>3. q.revisions = <<>>
    BY <2>2 DEF Stamped, ReportFile
  <2> HIDE DEF q
  <2>4. c.pc = "reportWrite" /\ c.owner = o /\ c.rep = q /\ c.sweep = None
    BY DEF IdleCall
  <2> HIDE DEF c
  <2>5. c.pc \in Held /\ PendingOK(c) /\ SweepOK(c)
    BY Zenon, <2>3, <2>4 DEF Held, FileSteps, PendingOK, SweepOK
  <2>6. FilesOK(c)
    <3>1. c.pc = "reportWrite" /\ task[c.owner] # None
      BY <2>1, <2>4
    <3> QED BY <3>1 DEF FilesOK
  <2>7. UNCHANGED <<Disk, mu>>
    BY <1>1, <1>3
  <2> QED BY Zenon, <1>1, <1>3, <2>5, <2>6, <2>7, Stays
<1> QED BY <1>2, <1>3 DEF CompleteMerge

(* WriteReport *)
LEMMA WriteReportMoves ==
    ASSUME OneInv, NEW t \in Threads, Fits(call[t]), WriteReport(t)
    PROVE  Moved(t)
<1> DEFINE o == call[t].owner
           r == call[t].rep
           c == [IdleCall EXCEPT !.pc = "taskRemove", !.owner = o]
<1>1. /\ call[t].pc = "reportWrite" /\ report' = [report EXCEPT ![o] = r] /\ Goto(t, c)
      /\ UNCHANGED <<task, batches, retro, used, issued, acked, now, mu>>
  BY DEF WriteReport, ids
<1>2. o \in Owners /\ r \in ReportFile /\ r # None /\ task[o] # None
  BY <1>1, Holding, NoFileAssumption DEF Fits, FilesOK
<1>3. report'[o] = r /\ \A q \in Owners \ {o} : report'[q] = report[q]
  BY <1>1, <1>2 DEF OneInv, Inv, ReportsOK
<1>4. o \in used /\ retro[o] = None
  BY Zenon, <1>2 DEF Fits, OwnersOK
<1>5. c.pc = "taskRemove" /\ c.owner = o /\ c.sweep = None /\ call[t].pc \in Held
  BY <1>1 DEF IdleCall, Held, FileSteps
<1>6. call'[t] = c
  BY <1>1, Went DEF OneInv
<1> HIDE DEF o, r, c
<1>7. OwnersOK'
  BY Zenon, <1>1, <1>2, <1>3, <1>4 DEF Fits, OwnersOK, Merges, BatchEvents
<1>8. FilesOK(call[t])' /\ SweepOK(call[t])'
  BY Zenon, <1>1, <1>2, <1>3, <1>5, <1>6 DEF FilesOK, SweepOK, SweepHeld
<1>9. ASSUME MaxFaults = 0 PROVE FinalOK(call[t])'
  BY Zenon, <1>1, <1>2, <1>3, <1>4, <1>5, <1>6, <1>9 DEF Fits, FinalOK
<1>10. c.pc \in Held /\ PendingOK(c)
  BY Zenon, <1>5 DEF Held, FileSteps, PendingOK
<1> QED BY Zenon, <1>1, <1>5, <1>7, <1>8, <1>9, <1>10, Changes

(* RemoveTask *)
LEMMA RemoveTaskMoves ==
    ASSUME OneInv, NEW t \in Threads, Fits(call[t]), RemoveTask(t)
    PROVE  Moved(t)
<1> DEFINE o == call[t].owner
           c == [call[t] EXCEPT !.pc = "eventsList"]
<1>1. call[t].pc = "taskRemove" /\ call[t] \in Call /\ o \in Owners /\ task[o] # None
  BY Holding DEF RemoveTask, Fits, FilesOK
<1>2. /\ task' = [task EXCEPT ![o] = None] /\ Goto(t, c)
      /\ UNCHANGED <<batches, report, retro, used, issued, acked, now, mu>>
  BY <1>1 DEF RemoveTask, ids
<1>3. task'[o] = None /\ \A q \in Owners \ {o} : task'[q] = task[q]
  BY <1>1, <1>2 DEF OneInv, Inv, TasksOK
<1>4. call[t].sweep = None /\ o \in used
  BY Zenon, <1>1, Holding DEF PendingOK, SweepHeld, Fits, OwnersOK
<1>5. c.pc = "eventsList" /\ c.owner = o /\ c.sweep = None /\ call[t].pc \in Held
  BY <1>1, <1>4 DEF Call, Held, FileSteps
<1>6. call'[t] = c
  BY <1>2, Went DEF OneInv
<1> HIDE DEF o, c
<1>7. OwnersOK'
  BY Zenon, <1>2, <1>3, <1>4 DEF Fits, OwnersOK, Merges, BatchEvents
<1>8. FilesOK(call[t])' /\ SweepOK(call[t])'
  BY Zenon, <1>3, <1>5, <1>6 DEF FilesOK, SweepOK
<1>9. ASSUME MaxFaults = 0 PROVE FinalOK(call[t])'
  BY Zenon, <1>1, <1>2, <1>3, <1>5, <1>6, <1>9 DEF Fits, FinalOK, o
<1>10. c.pc \in Held /\ PendingOK(c)
  BY Zenon, <1>5 DEF Held, FileSteps, PendingOK
<1> QED BY Zenon, <1>2, <1>5, <1>7, <1>8, <1>9, <1>10, Changes

(* ListBatches *)
LEMMA ListBatchesMoves ==
    ASSUME OneInv, NEW t \in Threads, Fits(call[t]), ListBatches(t)
    PROVE  Moved(t)
<1> DEFINE o == call[t].owner
           c == [call[t] EXCEPT !.pc = "eventsRemove", !.todo = batches[o]]
<1>1. call[t].pc = "eventsList" /\ call[t] \in Call /\ task[o] = None
  BY Holding DEF ListBatches, Fits, FilesOK
<1>2. Goto(t, c) /\ UNCHANGED <<task, batches, report, retro, used, issued, acked, now, mu>>
  BY DEF ListBatches, files, ids
<1>3. /\ c.pc = "eventsRemove" /\ c.owner = o /\ c.todo = batches[o]
      /\ c.sweep = call[t].sweep /\ call[t].pc \in Held
  BY <1>1 DEF Call, Held, FileSteps
<1>4. call'[t] = c
  BY <1>2, Went DEF OneInv
<1> HIDE DEF o, c
<1>5. OwnersOK'
  BY Zenon, <1>2 DEF Fits, OwnersOK, Merges, BatchEvents
<1>6. FilesOK(call[t])'
  BY Zenon, <1>1, <1>2, <1>3, <1>4 DEF FilesOK
<1>7. SweepOK(c)
  BY Zenon, <1>1, <1>3 DEF Fits, SweepOK, SweepHeld
<1>8. SweepOK(call[t])'
  BY Zenon, <1>2, <1>4, <1>7, SweepSame
<1>9. ASSUME MaxFaults = 0 PROVE FinalOK(call[t])'
  BY <1>1, <1>2, <1>3, <1>4, <1>9 DEF Fits, FinalOK, o
<1>10. c.pc \in Held /\ PendingOK(c)
  BY <1>3 DEF Held, FileSteps, PendingOK, SweepHeld
<1> QED BY Zenon, <1>2, <1>3, <1>5, <1>6, <1>8, <1>9, <1>10, Changes

(* RemoveBatch *)
LEMMA RemoveBatchMoves ==
    ASSUME OneInv, NEW t \in Threads, Fits(call[t]), NEW b \in call[t].todo,
           RemoveBatch(t, b)
    PROVE  Moved(t)
<1> DEFINE o == call[t].owner
           c == [call[t] EXCEPT !.todo = @ \ {b}]
<1>1. /\ call[t].pc = "eventsRemove" /\ call[t] \in Call /\ o \in Owners
      /\ task[o] = None /\ call[t].todo = batches[o]
  BY Holding DEF RemoveBatch, Fits, FilesOK
<1>2. /\ batches' = [batches EXCEPT ![o] = @ \ {b}] /\ Goto(t, c)
      /\ UNCHANGED <<task, report, retro, used, issued, acked, now, mu>>
  BY <1>1 DEF RemoveBatch, ids
<1>3. /\ batches'[o] = batches[o] \ {b}
      /\ \A q \in Owners \ {o} : batches'[q] = batches[q]
  BY <1>1, <1>2 DEF OneInv, Inv, TasksOK
<1>4. /\ c.pc = "eventsRemove" /\ c.owner = o /\ c.todo = batches[o] \ {b}
      /\ c.sweep = call[t].sweep /\ call[t].pc \in Held
  BY <1>1 DEF Call, Held, FileSteps
<1>5. call'[t] = c
  BY <1>2, Went DEF OneInv
<1> HIDE DEF o, c
<1>6. OwnersOK'
  BY Zenon, <1>1, <1>2, <1>3 DEF Fits, OwnersOK, Merges, BatchEvents
<1>7. FilesOK(call[t])'
  BY Zenon, <1>1, <1>2, <1>3, <1>4, <1>5 DEF FilesOK
<1>8. SweepOK(c)
  BY Zenon, <1>1, <1>4 DEF Fits, SweepOK, SweepHeld
<1>9. SweepOK(call[t])'
  BY Zenon, <1>2, <1>5, <1>8, SweepSame
<1>10. ASSUME MaxFaults = 0 PROVE FinalOK(call[t])'
  BY Zenon, <1>1, <1>2, <1>3, <1>4, <1>5, <1>10 DEF Fits, FinalOK, o
<1>11. c.pc \in Held /\ PendingOK(c)
  BY Zenon, <1>4 DEF Held, FileSteps, PendingOK, SweepHeld
<1> QED BY Zenon, <1>2, <1>4, <1>6, <1>7, <1>9, <1>10, <1>11, Changes

(* RemoveBatchDirectory *)
LEMMA RemoveDirectoryMoves ==
    ASSUME OneInv, NEW t \in Threads, Fits(call[t]), RemoveBatchDirectory(t)
    PROVE  Moved(t)
<1> DEFINE o == call[t].owner
           c == [call[t] EXCEPT !.pc = "sweepRead"]
<1>1. /\ call[t].pc = "eventsRemove" /\ call[t] \in Call /\ o \in Owners
      /\ batches[o] = {} /\ call[t].pc \in Held
  BY Holding DEF RemoveBatchDirectory, Fits, FilesOK, Held, FileSteps
<1>2. UNCHANGED <<task, batches, report, retro, used, issued, acked, now>>
  BY DEF RemoveBatchDirectory, files, ids
<1>3. OwnersOK'
  BY <1>2 DEF Fits, OwnersOK, Merges, BatchEvents
<1>4. MaxFaults = 0 => FinalOK(IdleCall)'
  BY Zenon, <1>1, <1>2 DEF Fits, FinalOK
<1>5. CASE Return(t) /\ Unlock(t)
  BY Zenon, <1>1, <1>3, <1>4, <1>5, Returns
<1>6. CASE call[t].sweep # None /\ Goto(t, c) /\ UNCHANGED mu
  <2>1. c.pc = "sweepRead" /\ c.owner = o /\ c.sweep = call[t].sweep
    BY <1>1 DEF Call
  <2>2. call'[t] = c
    BY <1>6, Went DEF OneInv
  <2> HIDE DEF o, c
  <2>3. FilesOK(call[t])'
    BY <2>1, <2>2 DEF FilesOK
  <2>4. SweepOK(c)
    BY Zenon, <1>1, <2>1 DEF Fits, SweepOK, SweepHeld
  <2>5. SweepOK(call[t])'
    BY Zenon, <1>2, <2>2, <2>4, SweepSame
  <2>6. MaxFaults = 0 => FinalOK(call[t])'
    BY Zenon, <1>4 DEF FinalOK, IdleCall
  <2>7. c.pc \in Held /\ PendingOK(c)
    BY <2>1 DEF Held, FileSteps, PendingOK, SweepHeld
  <2> QED BY Zenon, <1>1, <1>3, <1>6, <2>3, <2>5, <2>6, <2>7, Changes
<1> QED BY <1>5, <1>6 DEF RemoveBatchDirectory

(* WriteChain *)
LEMMA WriteChainMoves ==
    ASSUME OneInv, NEW t \in Threads, Fits(call[t]), WriteChain(t)
    PROVE  Moved(t)
<1> DEFINE o == call[t].owner
           r == call[t].rep
<1>1. /\ call[t].pc = "chainWrite" /\ report' = [report EXCEPT ![o] = r]
      /\ Return(t) /\ Unlock(t)
      /\ UNCHANGED <<task, batches, retro, used, issued, acked, now>>
  BY DEF WriteChain, ids
<1>2. o \in Owners /\ report[o] # None /\ call[t].pc \in Held
  BY Zenon, <1>1, Holding DEF Fits, FilesOK, Held, FileSteps
<1>3. report'[o] = r /\ \A q \in Owners \ {o} : report'[q] = report[q]
  BY Zenon, <1>1, <1>2 DEF OneInv, Inv, ReportsOK
<1> HIDE DEF o, r
<1>4. OwnersOK'
  BY Zenon, <1>1, <1>2, <1>3 DEF Fits, OwnersOK, Merges, BatchEvents
<1>5. ASSUME MaxFaults = 0 PROVE FinalOK(IdleCall)'
  BY <1>1, <1>2, <1>3, <1>5 DEF Fits, FinalOK
<1> QED BY <1>1, <1>2, <1>4, <1>5, Returns

(* RemoveReport *)
LEMMA RemoveReportMoves ==
    ASSUME OneInv, NEW t \in Threads, Fits(call[t]), RemoveReport(t)
    PROVE  Moved(t)
<1> DEFINE o == call[t].owner
<1>1. /\ call[t].pc = "forgetRemove" /\ report' = [report EXCEPT ![o] = None]
      /\ Return(t) /\ Unlock(t)
      /\ UNCHANGED <<task, batches, retro, used, issued, acked, now>>
  BY Zenon DEF RemoveReport, ids
<1>2. o \in Owners /\ call[t].pc \in Held
  BY <1>1, Holding DEF Held, FileSteps
<1>3. report'[o] = None /\ \A q \in Owners \ {o} : report'[q] = report[q]
  BY Zenon, <1>1, <1>2 DEF OneInv, Inv, ReportsOK
<1> HIDE DEF o
<1>4. OwnersOK'
  BY Zenon, <1>1, <1>2, <1>3 DEF Fits, OwnersOK, Merges, BatchEvents
<1>5. ASSUME MaxFaults = 0 PROVE FinalOK(IdleCall)'
  BY Zenon, <1>1, <1>2, <1>3, <1>5 DEF Fits, FinalOK
<1> QED BY Zenon, <1>1, <1>2, <1>4, <1>5, Returns

(* WriteRetrospectiveReport *)
LEMMA WriteRetrospectiveMoves ==
    ASSUME OneInv, NEW t \in Threads, Fits(call[t]), WriteRetrospectiveReport(t)
    PROVE  Moved(t)
<1> DEFINE o == call[t].owner
           r == call[t].rep
           c == [IdleCall EXCEPT !.pc = "grantRemove", !.owner = o]
<1>1. /\ call[t].pc = "retroWrite" /\ report' = [report EXCEPT ![o] = r] /\ Goto(t, c)
      /\ UNCHANGED <<task, batches, retro, used, issued, acked, now, mu>>
  BY DEF WriteRetrospectiveReport, ids
<1>2. o \in Owners /\ r \in ReportFile /\ r # None /\ retro[o] # None
  BY <1>1, Holding, NoFileAssumption DEF Fits, FilesOK
<1>3. report'[o] = r /\ \A q \in Owners \ {o} : report'[q] = report[q]
  BY <1>1, <1>2 DEF OneInv, Inv, ReportsOK
<1>4. o \in used /\ task[o] = None
  BY Zenon, <1>2 DEF Fits, OwnersOK
<1>5. c.pc = "grantRemove" /\ c.owner = o /\ c.sweep = None /\ call[t].pc \in Held
  BY <1>1 DEF IdleCall, Held, FileSteps
<1>6. call'[t] = c
  BY <1>1, Went DEF OneInv
<1> HIDE DEF o, r, c
<1>7. OwnersOK'
  BY Zenon, <1>1, <1>2, <1>3, <1>4 DEF Fits, OwnersOK, Merges, BatchEvents
<1>8. FilesOK(call[t])' /\ SweepOK(call[t])'
  BY Zenon, <1>1, <1>2, <1>3, <1>5, <1>6 DEF FilesOK, SweepOK, SweepHeld
<1>9. ASSUME MaxFaults = 0 PROVE FinalOK(call[t])'
  BY Zenon, <1>1, <1>2, <1>3, <1>4, <1>5, <1>6, <1>9 DEF Fits, FinalOK
<1>10. c.pc \in Held /\ PendingOK(c)
  BY <1>5 DEF Held, FileSteps, PendingOK
<1> QED BY Zenon, <1>1, <1>5, <1>7, <1>8, <1>9, <1>10, Changes

(* RemoveGrant *)
LEMMA RemoveGrantMoves ==
    ASSUME OneInv, NEW t \in Threads, Fits(call[t]), RemoveGrant(t)
    PROVE  Moved(t)
<1> DEFINE o == call[t].owner
<1>1. /\ call[t].pc = "grantRemove" /\ retro' = [retro EXCEPT ![o] = None]
      /\ Return(t) /\ Unlock(t)
      /\ UNCHANGED <<task, batches, report, used, issued, acked, now>>
  BY Zenon DEF RemoveGrant, ids
<1>2. o \in Owners /\ call[t].pc \in Held
  BY Zenon, <1>1, Holding DEF Held, FileSteps
<1>3. retro'[o] = None /\ \A q \in Owners \ {o} : retro'[q] = retro[q]
  BY <1>1, <1>2 DEF OneInv, Inv, TasksOK
<1> HIDE DEF o
<1>4. OwnersOK'
  BY Zenon, <1>1, <1>2, <1>3 DEF Fits, OwnersOK, Merges, BatchEvents
<1>5. ASSUME MaxFaults = 0 PROVE FinalOK(IdleCall)'
  BY Zenon, <1>1, <1>2, <1>3, <1>5 DEF Fits, FinalOK, o
<1> QED BY Zenon, <1>1, <1>2, <1>4, <1>5, Returns

-----------------------------------------------------------------------------
(* Sweeps *)

(* A sweep s that has dealt with the entry o. *)
LEMMA NextEntry ==
    ASSUME NEW s \in SweepState, NEW o
    PROVE  LET next == [s EXCEPT !.left = @ \ {o}] IN
           /\ next \in SweepState /\ next.at = s.at /\ next.dir = s.dir
           /\ next.kept = s.kept /\ next.left = s.left \ {o}
BY DEF SweepState

(* What a sweep between two entries knows. *)
LEMMA SweepKnows ==
    ASSUME OneInv, NEW t \in Threads, Fits(call[t]),
           call[t].pc \in {"sweepRead", "sweepRemove", "evict"}
    PROVE  LET s == call[t].sweep IN
           /\ s \in SweepState /\ s # None /\ s.at <= now
           /\ \A q \in s.left : FileIn(s.dir, q) # None
           /\ call[t].pc = "sweepRemove" =>
                /\ call[t].owner \notin s.left
                /\ FileIn(s.dir, call[t].owner) # None
                /\ Expired(s.at, FileIn(s.dir, call[t].owner))
           /\ call[t].pc = "evict" => s.dir = "reports" /\ s.left = {}
           /\ s.dir = "reports" =>
                /\ s.kept = {Kept(q) : q \in Swept(call[t])}
                /\ \A q \in Swept(call[t]) : ~Expired(s.at, report[q])
           /\ s.dir = "grants" =>
                /\ \A q \in Reports : ~Expired(s.at, report[q])
                /\ ReportsFit
<1>1. call[t].sweep \in SweepState /\ call[t].sweep # None
  BY Holding, NoFileAssumption
<1> QED BY Zenon, <1>1 DEF Fits, SweepOK, SweepHeld

(* SweepRead *)
LEMMA SweepReadMoves ==
    ASSUME OneInv, NEW t \in Threads, Fits(call[t]), NEW o \in Owners, SweepRead(t, o)
    PROVE  Moved(t)
<1> DEFINE s == call[t].sweep
           next == [s EXCEPT !.left = @ \ {o}]
           file == FileIn(s.dir, o)
           more == IF s.dir = "reports" THEN [next EXCEPT !.kept = @ \cup {Kept(o)}]
                   ELSE next
           c == [call[t] EXCEPT !.pc = "sweepRemove", !.owner = o, !.sweep = next]
           d == [call[t] EXCEPT !.sweep = more]
<1>1. /\ call[t].pc = "sweepRead" /\ o \in s.left /\ call[t] \in Call
      /\ UNCHANGED Disk /\ call[t].pc \in Held \ Cleaning
  BY Holding DEF SweepRead, Disk, files, ids, Held, FileSteps, Cleaning
<1>2. /\ s \in SweepState /\ s # None /\ s.at <= now
      /\ \A q \in s.left : FileIn(s.dir, q) # None
      /\ s.dir = "reports" =>
           /\ s.kept = {Kept(q) : q \in Swept(call[t])}
           /\ \A q \in Swept(call[t]) : ~Expired(s.at, report[q])
      /\ s.dir = "grants" => (\A q \in Reports : ~Expired(s.at, report[q])) /\ ReportsFit
  BY Zenon, <1>1, SweepKnows
<1>3. /\ next \in SweepState /\ next.at = s.at /\ next.dir = s.dir
      /\ next.kept = s.kept /\ next.left = s.left \ {o} /\ next # None
  BY <1>2, NextEntry, NoFileAssumption
<1>4. CASE Expired(s.at, file) /\ Goto(t, c) /\ UNCHANGED mu
  <2> HIDE DEF next
  <2>1. c.pc = "sweepRemove" /\ c.owner = o /\ c.sweep = next
    BY <1>1 DEF Call
  <2>2. Goto(t, c) /\ UNCHANGED <<Disk, mu>>
    BY <1>1, <1>4
  <2> HIDE DEF c
  <2>3. Swept(c) = Swept(call[t])
    BY <1>1, <1>3, <2>1 DEF Swept
  <2>4. SweepOK(c)
    BY Zenon, <1>1, <1>2, <1>3, <1>4, <2>1, <2>3 DEF SweepOK
  <2>5. c.pc \in Held /\ PendingOK(c) /\ FilesOK(c)
    BY Zenon, <2>1 DEF Held, FileSteps, PendingOK, SweepHeld, FilesOK
  <2> QED BY Zenon, <1>1, <2>2, <2>4, <2>5, Stays
<1>5. CASE ~Expired(s.at, file) /\ Goto(t, d) /\ UNCHANGED mu
  <2>1. /\ more.at = s.at /\ more.dir = s.dir /\ more.left = s.left \ {o} /\ more # None
        /\ s.dir = "reports" => more.kept = s.kept \cup {Kept(o)}
    <3>1. CASE s.dir = "reports"
      <4> HIDE DEF next
      <4>1. Kept(o) \in KeptReport
        <5>1. report[o] \in ReportFile
          BY <1>1, <1>2, <3>1 DEF FileIn, OneInv, Inv, ReportsOK
        <5>2. 1 + Len(report[o].revisions) \in Nat
          BY <5>1 DEF ReportFile
        <5>3. report[o].created \in Nat /\ report[o].retained \in BOOLEAN
          BY <5>1 DEF ReportFile
        <5>4. o \in Owners
          BY <1>1
        <5> QED BY Zenon, <5>2, <5>3, <5>4 DEF Kept, KeptReport
      <4>2. more = [next EXCEPT !.kept = @ \cup {Kept(o)}]
        BY <3>1
      <4>3. more \in SweepState
        BY <1>3, <4>1, <4>2 DEF SweepState
      <4> QED BY <1>3, <3>1, <4>2, <4>3, NoFileAssumption DEF SweepState
    <3>2. CASE s.dir # "reports"
      BY <1>3, <3>2
    <3> QED BY <3>1, <3>2
  <2> HIDE DEF next, more
  <2>2. d.pc = "sweepRead" /\ d.owner = call[t].owner /\ d.sweep = more
    BY <1>1 DEF Call
  <2>3. Goto(t, d) /\ UNCHANGED <<Disk, mu>>
    BY <1>1, <1>5
  <2> HIDE DEF d
  <2>4. ASSUME s.dir = "reports"
        PROVE  /\ more.kept = {Kept(q) : q \in Swept(d)}
               /\ \A q \in Swept(d) : ~Expired(s.at, report[q])
    <3>1. file = report[o] /\ o \in Reports
      BY <1>1, <1>2, <2>4 DEF FileIn, Reports
    <3>2. Swept(d) = Swept(call[t]) \cup {o}
      BY <1>1, <2>1, <2>2, <3>1 DEF Swept
    <3> QED BY Zenon, <1>2, <1>5, <2>1, <2>4, <3>1, <3>2
  <2>5. SweepOK(d)
    BY Zenon, <1>2, <2>1, <2>2, <2>4 DEF SweepOK
  <2>6. d.pc \in Held /\ PendingOK(d) /\ FilesOK(d)
    BY <2>2 DEF Held, FileSteps, PendingOK, SweepHeld, FilesOK
  <2> QED BY Zenon, <1>1, <2>3, <2>5, <2>6, Stays
<1>6. file # None
  BY Zenon, <1>1, <1>2
<1> QED BY <1>4, <1>5, <1>6 DEF SweepRead

(* SweepNextDirectory *)
LEMMA SweepNextMoves ==
    ASSUME OneInv, NEW t \in Threads, Fits(call[t]), SweepNextDirectory(t)
    PROVE  Moved(t)
<1> DEFINE s == call[t].sweep
<1>1. /\ call[t].pc = "sweepRead" /\ s.left = {} /\ call[t] \in Call
      /\ UNCHANGED Disk /\ call[t].pc \in Held \ Cleaning
  BY Holding DEF SweepNextDirectory, Disk, files, ids, Held, FileSteps, Cleaning
<1>2. /\ s \in SweepState /\ s # None /\ s.at <= now /\ s.at \in Nat
      /\ s.dir = "reports" =>
           /\ s.kept = {Kept(q) : q \in Swept(call[t])}
           /\ \A q \in Swept(call[t]) : ~Expired(s.at, report[q])
  BY Zenon, <1>1, SweepKnows DEF SweepState
<1>3. CASE Enter(t, s.at, "reports") /\ UNCHANGED mu
  <2> DEFINE c == Entered(s.at, "reports")
  <2>1. Goto(t, c) /\ UNCHANGED <<Disk, mu>>
    BY <1>1, <1>3 DEF Enter, Entered
  <2>2. c.pc \in Held /\ PendingOK(c) /\ FilesOK(c) /\ SweepOK(c)
    <3>1. "reports" \in Directories
      BY DEF Directories
    <3> QED BY Zenon, <1>2, <3>1, EnteredFits
  <2> HIDE DEF c
  <2> QED BY <1>1, <2>1, <2>2, Stays
<1>4. CASE s.dir = "reports" /\ Goto(t, [call[t] EXCEPT !.pc = "evict"]) /\ UNCHANGED mu
  <2> DEFINE c == [call[t] EXCEPT !.pc = "evict"]
  <2>1. Goto(t, c) /\ UNCHANGED <<Disk, mu>>
    BY <1>1, <1>4
  <2>2. c.pc = "evict" /\ c.owner = call[t].owner /\ c.sweep = s
    BY <1>1 DEF Call
  <2> HIDE DEF c
  <2>3. Swept(c) = Swept(call[t])
    BY <1>1, <2>2 DEF Swept
  <2>4. SweepOK(c)
    BY <1>1, <1>2, <1>4, <2>2, <2>3 DEF SweepOK
  <2>5. c.pc \in Held /\ PendingOK(c) /\ FilesOK(c)
    BY <2>2 DEF Held, FileSteps, PendingOK, SweepHeld, FilesOK
  <2> QED BY Zenon, <1>1, <2>1, <2>4, <2>5, Stays
<1>5. CASE Return(t) /\ Unlock(t)
  BY Zenon, <1>1, <1>5, Idle, Releases DEF Return
<1> QED BY <1>3, <1>4, <1>5 DEF SweepNextDirectory

-----------------------------------------------------------------------------
(* What a sweep removes *)

(* SweepRemove in the directory of the tasks *)
LEMMA SweepTaskMoves ==
    ASSUME OneInv, NEW t \in Threads, Fits(call[t]), SweepRemove(t),
           call[t].sweep.dir = "tasks"
    PROVE  Moved(t)
<1> DEFINE o == call[t].owner
           s == call[t].sweep
           c == [call[t] EXCEPT !.pc = "eventsList"]
<1>1. /\ call[t].pc = "sweepRemove" /\ call[t] \in Call /\ o \in Owners
      /\ call[t].pc \in Held
  BY Holding DEF SweepRemove, Held, FileSteps
<1>2. /\ s # None /\ s.at <= now /\ \A q \in s.left : FileIn(s.dir, q) # None
      /\ o \notin s.left /\ FileIn(s.dir, o) # None
  BY Zenon, <1>1, SweepKnows
<1>3. \A q : FileIn(s.dir, q) = task[q]
  BY DEF FileIn
<1>4. /\ task' = [task EXCEPT ![o] = None] /\ Goto(t, c)
      /\ UNCHANGED <<batches, report, retro, used, issued, acked, now, mu>>
  BY <1>2 DEF SweepRemove, Without, ids
<1>5. task'[o] = None /\ \A q \in Owners \ {o} : task'[q] = task[q]
  BY <1>1, <1>4 DEF OneInv, Inv, TasksOK
<1>6. c.pc = "eventsList" /\ c.owner = o /\ c.sweep = s
  BY <1>1 DEF Call
<1>7. call'[t] = c
  BY <1>4, Went DEF OneInv
<1>8. s.left \subseteq Owners /\ task[o] # None
  BY Zenon, <1>1, <1>2, <1>3, SweepKnows DEF SweepState
<1> HIDE DEF o, c, s
<1>9. OwnersOK'
  BY Zenon, <1>4, <1>5, <1>8 DEF Fits, OwnersOK, Merges, BatchEvents
<1>10. FilesOK(call[t])'
  BY <1>5, <1>6, <1>7 DEF FilesOK
<1>11. SweepOK(call[t])'
  <2>1. \A q \in s.left : task'[q] # None
    BY Zenon, <1>2, <1>3, <1>5, <1>8
  <2>2. s.dir = "tasks"
    BY DEF s
  <2>3. \A q : FileIn("tasks", q)' = task'[q]
    BY DEF FileIn
  <2> QED BY Zenon, <1>2, <1>4, <1>6, <1>7, <2>1, <2>2, <2>3 DEF SweepOK
<1>12. ASSUME MaxFaults = 0 PROVE FinalOK(call[t])'
  BY Zenon, <1>1, <1>4, <1>5, <1>6, <1>7, <1>12 DEF Fits, FinalOK
<1>13. c.pc \in Held /\ PendingOK(c)
  BY <1>6 DEF Held, FileSteps, PendingOK, SweepHeld
<1> QED BY Zenon, <1>1, <1>4, <1>9, <1>10, <1>11, <1>12, <1>13, Changes

(* SweepRemove in the directory of the reports *)
LEMMA SweepReportMoves ==
    ASSUME OneInv, NEW t \in Threads, Fits(call[t]), SweepRemove(t),
           call[t].sweep.dir = "reports"
    PROVE  Moved(t)
<1> DEFINE o == call[t].owner
           s == call[t].sweep
           c == [call[t] EXCEPT !.pc = "sweepRead"]
<1>1. /\ call[t].pc = "sweepRemove" /\ call[t] \in Call /\ o \in Owners
      /\ call[t].pc \in Held
  BY Holding DEF SweepRemove, Held, FileSteps
<1>2. /\ s # None /\ s.at <= now /\ \A q \in s.left : FileIn(s.dir, q) # None
      /\ o \notin s.left /\ FileIn(s.dir, o) # None /\ s.left \subseteq Owners
      /\ s.kept = {Kept(q) : q \in Swept(call[t])}
      /\ \A q \in Swept(call[t]) : ~Expired(s.at, report[q])
  BY Zenon, <1>1, SweepKnows DEF SweepState
<1>3. /\ report' = [report EXCEPT ![o] = None] /\ Goto(t, c)
      /\ UNCHANGED <<batches, task, retro, used, issued, acked, now, mu>>
  BY <1>2 DEF SweepRemove, Without, ids
<1>4. report'[o] = None /\ \A q \in Owners \ {o} : report'[q] = report[q]
  BY <1>1, <1>3 DEF OneInv, Inv, ReportsOK
<1>5. c.pc = "sweepRead" /\ c.owner = o /\ c.sweep = s
  BY <1>1 DEF Call
<1>6. call'[t] = c
  BY <1>3, Went DEF OneInv
<1>7. \A q \in s.left : report[q] # None
  BY <1>2 DEF FileIn
<1>8. s.dir = "reports"
  BY Zenon
<1>9. Swept(call[t]) = {q \in Owners \ {o} : report[q] # None /\ q \notin s.left}
  BY <1>1 DEF Swept, Reports
<1> HIDE DEF o, c, s
<1>10. OwnersOK'
  BY Zenon, <1>3, <1>4 DEF Fits, OwnersOK, Merges, BatchEvents
<1>11. FilesOK(call[t])'
  BY Zenon, <1>5, <1>6 DEF FilesOK
<1>12. Swept(call[t])' = Swept(call[t])
  BY <1>4, <1>5, <1>6, <1>9 DEF Swept, Reports
<1>13. \A q \in Swept(call[t]) : Kept(q)' = Kept(q) /\ report'[q] = report[q]
  BY <1>4, <1>9 DEF Kept
<1>14. {Kept(q) : q \in Swept(call[t])}' = {Kept(q) : q \in Swept(call[t])}
  BY <1>12, <1>13
<1>15. SweepOK(call[t])'
  <2>1. \A q \in s.left : report'[q] # None
    BY <1>2, <1>4, <1>7
  <2>2. \A q : FileIn("reports", q)' = report'[q]
    BY DEF FileIn
  <2>3. \A q \in Swept(call[t])' : ~Expired(s.at, report'[q])
    BY Zenon, <1>2, <1>12, <1>13
  <2> QED BY Zenon, <1>2, <1>3, <1>5, <1>6, <1>8, <1>14, <2>1, <2>2, <2>3 DEF SweepOK, Expired
<1>16. ASSUME MaxFaults = 0 PROVE FinalOK(call[t])'
  BY Zenon, <1>1, <1>3, <1>4, <1>16 DEF Fits, FinalOK
<1>17. c.pc \in Held /\ PendingOK(c)
  BY <1>5 DEF Held, FileSteps, PendingOK, SweepHeld
<1> QED BY Zenon, <1>1, <1>3, <1>10, <1>11, <1>15, <1>16, <1>17, Changes

(* SweepRemove in the directory of the grants *)
LEMMA SweepGrantMoves ==
    ASSUME OneInv, NEW t \in Threads, Fits(call[t]), SweepRemove(t),
           call[t].sweep.dir = "grants"
    PROVE  Moved(t)
<1> DEFINE o == call[t].owner
           s == call[t].sweep
           c == [call[t] EXCEPT !.pc = "sweepRead"]
<1>1. /\ call[t].pc = "sweepRemove" /\ call[t] \in Call /\ o \in Owners
      /\ call[t].pc \in Held
  BY Holding DEF SweepRemove, Held, FileSteps
<1>2. /\ s # None /\ s.at <= now /\ \A q \in s.left : FileIn(s.dir, q) # None
      /\ o \notin s.left /\ FileIn(s.dir, o) # None /\ s.left \subseteq Owners
      /\ (\A q \in Reports : ~Expired(s.at, report[q])) /\ ReportsFit
  BY Zenon, <1>1, SweepKnows DEF SweepState
<1>3. /\ retro' = [retro EXCEPT ![o] = None] /\ Goto(t, c)
      /\ UNCHANGED <<batches, task, report, used, issued, acked, now, mu>>
  BY <1>2 DEF SweepRemove, Without, ids
<1>4. retro'[o] = None /\ \A q \in Owners \ {o} : retro'[q] = retro[q]
  BY <1>1, <1>3 DEF OneInv, Inv, TasksOK
<1>5. c.pc = "sweepRead" /\ c.owner = o /\ c.sweep = s
  BY <1>1 DEF Call
<1>6. call'[t] = c
  BY <1>3, Went DEF OneInv
<1>7. \A q \in s.left : retro[q] # None
  BY <1>2 DEF FileIn
<1>8. s.dir = "grants"
  BY Zenon
<1> HIDE DEF o, c, s
<1>9. OwnersOK'
  BY Zenon, <1>3, <1>4 DEF Fits, OwnersOK, Merges, BatchEvents
<1>10. FilesOK(call[t])'
  BY Zenon, <1>5, <1>6 DEF FilesOK
<1>11. SweepOK(call[t])'
  <2>1. \A q \in s.left : retro'[q] # None
    BY Zenon, <1>2, <1>4, <1>7
  <2>2. \A q : FileIn("grants", q)' = retro'[q]
    BY DEF FileIn
  <2>3. (\A q \in Reports' : ~Expired(s.at, report'[q])) /\ ReportsFit'
    BY <1>2, <1>3, DiskSame DEF ReportsFit
  <2> QED BY Zenon, <1>2, <1>3, <1>5, <1>6, <1>8, <2>1, <2>2, <2>3 DEF SweepOK, Expired
<1>12. ASSUME MaxFaults = 0 PROVE FinalOK(call[t])'
  BY Zenon, <1>1, <1>3, <1>4, <1>12 DEF Fits, FinalOK
<1>13. c.pc \in Held /\ PendingOK(c)
  BY <1>5 DEF Held, FileSteps, PendingOK, SweepHeld
<1> QED BY Zenon, <1>1, <1>3, <1>9, <1>10, <1>11, <1>12, <1>13, Changes

(* SweepRemove *)
LEMMA SweepRemoveMoves ==
    ASSUME OneInv, NEW t \in Threads, Fits(call[t]), SweepRemove(t)
    PROVE  Moved(t)
<1>1. call[t].sweep.dir \in {"tasks", "reports", "grants"}
  BY Holding DEF SweepRemove, SweepState, Directories
<1> QED BY <1>1, SweepTaskMoves, SweepReportMoves, SweepGrantMoves

(* Evict, when a report goes *)
LEMMA EvictOneMoves ==
    ASSUME OneInv, NEW t \in Threads, Fits(call[t]), call[t].pc = "evict",
           NEW k \in call[t].sweep.kept,
           report' = [report EXCEPT ![k.owner] = None],
           \/ /\ report[k.owner] # None
              /\ Goto(t, [call[t] EXCEPT !.sweep.kept = @ \ {k}])
              /\ UNCHANGED mu
           \/ report[k.owner] = None,
           UNCHANGED <<task, batches, retro, used, issued, acked, now>>
    PROVE  Moved(t)
<1> DEFINE s == call[t].sweep
           o == k.owner
           next == [s EXCEPT !.kept = @ \ {k}]
           c == [call[t] EXCEPT !.sweep = next]
<1>1. call[t].pc \in Held /\ call[t] \in Call
  BY Holding DEF Held, FileSteps
<1>2. /\ s \in SweepState /\ s.at <= now /\ s.left = {} /\ s.dir = "reports"
      /\ s.kept = {Kept(q) : q \in Swept(call[t])}
      /\ \A q \in Swept(call[t]) : ~Expired(s.at, report[q])
  BY SweepKnows
<1>3. Swept(call[t]) = Reports
  BY <1>2 DEF Swept
<1>4. \A q : Kept(q).owner = q
  BY DEF Kept
<1>5. k = Kept(o) /\ o \in Reports
  BY <1>2, <1>3, <1>4
<1>6. o \in Owners /\ report[o] # None
  BY <1>5 DEF Reports
<1>7. /\ next \in SweepState /\ next # None /\ next.at = s.at /\ next.left = {}
      /\ next.dir = "reports" /\ next.kept = s.kept \ {k}
  <2>1. next \in SweepState
    BY <1>2 DEF SweepState
  <2> QED BY <1>2, <2>1, NoFileAssumption DEF SweepState
<1>8. Goto(t, c) /\ UNCHANGED mu
  BY <1>1, <1>2, <1>6 DEF Call, SweepState
<1>9. report'[o] = None /\ \A q \in Owners \ {o} : report'[q] = report[q]
  BY <1>6 DEF OneInv, Inv, ReportsOK
<1> HIDE DEF next
<1>10. c.pc = "evict" /\ c.sweep = next
  BY <1>1 DEF Call
<1>11. call'[t] = c
  BY <1>8, Went DEF OneInv
<1> HIDE DEF o, c, s
<1>12. OwnersOK'
  BY <1>9 DEF Fits, OwnersOK, Merges, BatchEvents
<1>13. FilesOK(call[t])'
  BY <1>10, <1>11 DEF FilesOK
<1>14. Reports' = Reports \ {o} /\ Swept(call[t])' = Reports \ {o}
  BY <1>7, <1>9, <1>10, <1>11 DEF Swept, Reports
<1>15. \A q \in Reports \ {o} : Kept(q)' = Kept(q) /\ report'[q] = report[q]
  BY <1>9 DEF Kept, Reports
<1>16. {Kept(q) : q \in Swept(call[t])}' = {Kept(q) : q \in Reports \ {o}}
  BY <1>14, <1>15
<1>17. next.kept = {Kept(q) : q \in Reports \ {o}}
  BY <1>2, <1>3, <1>4, <1>5, <1>7
<1>18. SweepOK(call[t])'
  <2>1. \A q \in Swept(call[t])' : ~Expired(s.at, report'[q])
    BY <1>2, <1>3, <1>14, <1>15
  <2> QED BY <1>2, <1>7, <1>10, <1>11, <1>16, <1>17, <2>1 DEF SweepOK, Expired
<1>19. ASSUME MaxFaults = 0 PROVE FinalOK(call[t])'
  BY <1>9, <1>19 DEF Fits, FinalOK
<1>20. c.pc \in Held /\ PendingOK(c)
  BY <1>10 DEF Held, FileSteps, PendingOK, SweepHeld
<1> QED BY <1>1, <1>8, <1>12, <1>13, <1>18, <1>19, <1>20, Changes

-----------------------------------------------------------------------------
(* The environment *)

(* FileError *)
LEMMA FileErrorMoves ==
    ASSUME OneInv, NEW t \in Threads, Fits(call[t]), FileError(t)
    PROVE  Moved(t)
<1>1. MaxFaults # 0
  BY TimesAssumption DEF FileError, OneInv, Inv, ClockOK
<1>2. OwnersOK'
  BY Zenon DEF FileError, files, ids, Fits, OwnersOK, Merges, BatchEvents
<1>3. call[t].pc \in Held /\ Return(t) /\ Unlock(t)
  BY DEF FileError, Held
<1> QED BY <1>1, <1>2, <1>3, Returns

(* SyncError *)
LEMMA SyncErrorMoves ==
    ASSUME OneInv, NEW t \in Threads, Fits(call[t]), SyncError(t)
    PROVE  Moved(t)
<1>1. /\ Return(t) /\ Unlock(t) /\ call[t].pc \in Held
      /\ UNCHANGED <<report, retro, used, issued, acked>>
  BY Zenon DEF SyncError, ids, Held, FileSteps
<1>2. CASE /\ call[t].pc = "taskWrite" /\ UNCHANGED batches
           /\ task' = [task EXCEPT ![call[t].owner] = call[t].rec]
  BY Zenon, <1>1, <1>2, TaskRewritten, Returns
<1>3. CASE /\ call[t].pc = "batchWrite" /\ UNCHANGED task
           /\ batches' = [batches EXCEPT ![call[t].owner] =
                @ \cup {[grant |-> call[t].handle.grant, events |-> call[t].events]}]
  BY Zenon, <1>1, <1>3, BatchWritten, Returns
<1> QED BY Zenon, <1>2, <1>3 DEF SyncError

(* What a request knows does not age. *)
LEMMA StillFits ==
    ASSUME OneInv, UNCHANGED <<task, batches, report, retro, used, issued, acked>>,
           now' \in Nat, now <= now', NEW t \in Threads, call'[t] = call[t],
           Fits(call[t])
    PROVE  Fits(call[t])'
<1>1. OwnersOK'
  BY Zenon DEF Fits, OwnersOK, Merges, BatchEvents
<1>2. FilesOK(call[t])'
  BY Zenon DEF Fits, FilesOK
<1>3. SweepOK(call[t])'
  <2>1. \A dir, o : FileIn(dir, o)' = FileIn(dir, o)
    BY DEF FileIn
  <2>2. Swept(call[t])' = Swept(call[t]) /\ (ReportsFit' <=> ReportsFit)
        /\ Reports' = Reports
    BY Zenon, DiskSame DEF Swept, ReportsFit
  <2>3. \A q : Kept(q)' = Kept(q)
    BY Zenon DEF Kept
  <2>4. {Kept(q) : q \in Swept(call[t])}' = {Kept(q) : q \in Swept(call[t])}
    BY Zenon, <2>2, <2>3
  <2>5. now \in Nat /\ (call[t].sweep # None => call[t].sweep.at \in Nat)
    BY Zenon, Holding DEF Call, SweepState, OneInv, Inv, ClockOK
  <2>6. SweepOK(call[t])
    BY Zenon DEF Fits
  <2>7. call[t].sweep # None /\ call[t].sweep.at <= now => call[t].sweep.at <= now'
    BY <2>5
  <2> QED BY Zenon, <2>1, <2>2, <2>4, <2>6, <2>7 DEF SweepOK, Expired
<1>4. MaxFaults = 0 => FinalOK(call[t])'
  BY DEF Fits, FinalOK
<1> QED BY Zenon, <1>1, <1>2, <1>3, <1>4 DEF Fits

(* A request that knows nothing needs only whole files. *)
LEMMA IdleFits ==
    ASSUME UNCHANGED <<task, batches, report, retro, used, issued, acked>>,
           OwnersOK, MaxFaults = 0 => FinalOK(IdleCall)
    PROVE  Fits(IdleCall)'
<1>1. OwnersOK'
  BY DEF OwnersOK, Merges, BatchEvents
<1>2. FilesOK(IdleCall)' /\ SweepOK(IdleCall)'
  BY Zenon, Idle DEF FilesOK, SweepOK, SweepHeld
<1>3. MaxFaults = 0 => FinalOK(IdleCall)'
  BY Zenon DEF FinalOK
<1> QED BY <1>1, <1>2, <1>3 DEF Fits

(* Time passes, or nothing happens. *)
LEMMA NothingMoves ==
    ASSUME OneInv, Inv', MutexOK', faults' <= MaxFaults,
           UNCHANGED <<task, batches, report, retro, used, issued, acked, call>>,
           now' \in Nat, now <= now'
    PROVE  OneInv'
<1>1. \A t \in Threads : PendingOK(call[t])'
  BY DEF OneInv, PendingOK
<1>2. ASSUME NEW t \in Threads, Alone(t)' PROVE Fits(call[t])'
  BY <1>2, StillFits DEF OneInv, Alone
<1>3. ASSUME \A t \in Threads : call'[t].pc \notin Held
      PROVE  Fits(IdleCall)'
  BY <1>3, IdleFits DEF OneInv, Fits
<1>4. IsFiniteSet(used')
  BY DEF OneInv
<1> QED BY <1>1, <1>2, <1>3, <1>4 DEF OneInv

(* The files are whole whoever is at work. *)
LEMMA Whole ==
    ASSUME SharedLock, OneInv
    PROVE  OwnersOK
<1>1. CASE \A t \in Threads : call[t].pc \notin Held
  BY <1>1 DEF OneInv, Fits
<1>2. ASSUME NEW t \in Threads, call[t].pc \in Held
      PROVE  OwnersOK
  BY <1>2, AloneOK DEF OneInv, Fits
<1> QED BY <1>1, <1>2

(* The requests of a process end, its lock goes with it. *)
LEMMA DieMoves ==
    ASSUME SharedLock, OneInv, Inv', NEW p \in Procs, Die(p), faults' <= MaxFaults,
           UNCHANGED <<task, batches, report, retro, used, issued, acked, now>>,
           MaxFaults = 0 => \A t \in Threads : call[t].pc \notin Held
    PROVE  OneInv'
<1>0. now \in Nat /\ mu \in [Procs -> Threads \cup {None}] /\ call \in [Threads -> Call]
  BY DEF OneInv, Inv, ClockOK, MuOK, CallsOK
<1>1. mu'[p] = None /\ \A q \in Procs \ {p} : mu'[q] = mu[q]
  BY <1>0 DEF Die
<1>2. CASE \A t \in Threads : ProcOf[t] # p
  <2>1. call' = call
    BY <1>0, <1>2 DEF Die
  <2>2. MutexOK'
    BY Zenon, <1>1, <1>2, <2>1, ThreadsAssumption DEF OneInv, MutexOK
  <2> QED BY <1>0, <2>1, <2>2, NothingMoves
<1>3. CASE \A t \in Threads : ProcOf[t] = p
  <2>1. \A t \in Threads : call'[t] = IdleCall
    BY Zenon, <1>3 DEF Die
  <2>2. MutexOK'
    BY <1>1, <1>3, <2>1, Idle, NoneAssumption DEF MutexOK
  <2>3. \A t \in Threads : PendingOK(call[t])'
    BY <2>1, Idle DEF PendingOK
  <2>4. Fits(IdleCall)'
    <3>1. MaxFaults = 0 => FinalOK(IdleCall)
      BY DEF OneInv, Fits
    <3> QED BY <3>1, Whole, IdleFits
  <2>5. \A t \in Threads : Fits(call[t])'
    BY <2>1, <2>4, OutsideOK, Idle
  <2> QED BY Zenon, <2>2, <2>3, <2>4, <2>5 DEF OneInv
<1> QED BY <1>2, <1>3 DEF SharedLock

-----------------------------------------------------------------------------
(* A request and the others *)

(* It is alone in its critical section, or finds Store.mu free. *)
LEMMA RequestAlone ==
    ASSUME SharedLock, OneInv, NEW t \in Threads,
           Arrive(t) \/ Acquire(t) \/ Continue(t) \/ FileError(t) \/ SyncError(t)
    PROVE  Alone(t)
<1>1. CASE Arrive(t)
  <2>1. Free(t)
    BY Zenon, <1>1 DEF Arrive, Sweep, Begin, AppendEvents, DelegateOwnedExecutor,
       AppendOwnedExecutorEvents, LoadOwnedTaskForEnd, Verify, RetainOwnedReport,
       ForgetOwnedReport, Summarize, GrantRetrospective, InspectCompletedAuthorized
  <2> QED BY <2>1, AloneOK DEF OneInv
<1>2. CASE Acquire(t)
  <2>1. Free(t)
    BY <1>2 DEF Acquire, AppendOwnedEvents, CompleteOwnedTask, AppendOwnedRevision,
       GetCandidatePage, SummarizePanics, CompleteRetrospectiveGrant
  <2> QED BY <2>1, AloneOK DEF OneInv
<1>3. CASE Continue(t)
  <2>1. call[t].pc \in Held
    BY Zenon, <1>3 DEF Continue, WriteTask, WriteBatch, MergeAndObserve, CompleteMerge,
       WriteReport, RemoveTask, ListBatches, RemoveBatch, RemoveBatchDirectory,
       WriteChain, RemoveReport, WriteRetrospectiveReport, RemoveGrant, SweepRead,
       SweepRemove, SweepNextDirectory, Evict, Held, FileSteps
  <2> QED BY <2>1, AloneOK DEF OneInv
<1>4. CASE FileError(t) \/ SyncError(t)
  <2>1. call[t].pc \in Held
    BY Zenon, <1>4 DEF FileError, SyncError, Held, FileSteps
  <2> QED BY <2>1, AloneOK DEF OneInv
<1> QED BY <1>1, <1>2, <1>3, <1>4

-----------------------------------------------------------------------------
(* Who may break a promise *)

(* A request in a sweep, or in any other critical section, is alone. *)
LEMMA HolderFits ==
    ASSUME SharedLock, OneInv, NEW t \in Threads, call[t].pc \in Held
    PROVE  Fits(call[t])
BY AloneOK DEF OneInv

(* A request that remembers a sweep is in the critical section of it. *)
LEMMA SweeperHolds ==
    ASSUME OneInv, NEW t \in Threads, call[t].sweep # None
    PROVE  call[t].pc \in SweepHeld /\ call[t].pc \in Held
BY DEF OneInv, PendingOK, SweepHeld, Held, FileSteps

(* Whoever is at work, only that request may have left a completion half   *)
(* done.                                                                   *)
LEMMA SomeoneRepairs ==
    ASSUME SharedLock, OneInv, MaxFaults = 0
    PROVE  FinalOK(IdleCall) \/ \E t \in Threads : call[t].pc \in Held /\ FinalOK(call[t])
<1>1. CASE \A t \in Threads : call[t].pc \notin Held
  BY <1>1 DEF OneInv, Fits
<1>2. ASSUME NEW t \in Threads, call[t].pc \in Held
      PROVE  FinalOK(call[t])
  BY <1>2, HolderFits DEF Fits
<1> QED BY <1>1, <1>2

-----------------------------------------------------------------------------
(* What a step may do *)

(* While a request is in a critical section, it alone changes files. *)
LEMMA OnlyHolder ==
    ASSUME SharedLock, OneInv, [Next]_vars, NEW t \in Threads, call[t].pc \in Held
    PROVE  Continue(t) \/ FileError(t) \/ SyncError(t) \/ UNCHANGED files
<1>1. ASSUME NEW u \in Threads, Arrive(u) \/ Acquire(u)
      PROVE  UNCHANGED files
  <2>1. ~Free(u)
    BY NoneAssumption DEF Free, OneInv, MutexOK, SharedLock
  <2>2. CASE Arrive(u)
    BY Zenon, <2>1, <2>2 DEF Arrive, Sweep, Begin, AppendEvents, DelegateOwnedExecutor,
       AppendOwnedExecutorEvents, LoadOwnedTaskForEnd, Verify, RetainOwnedReport,
       ForgetOwnedReport, Summarize, GrantRetrospective, InspectCompletedAuthorized
  <2>3. CASE Acquire(u)
    BY <2>1, <2>3 DEF Acquire, AppendOwnedEvents, CompleteOwnedTask,
       AppendOwnedRevision, GetCandidatePage, SummarizePanics,
       CompleteRetrospectiveGrant
  <2> QED BY <1>1, <2>2, <2>3
<1>2. ASSUME NEW u \in Threads, Continue(u) \/ FileError(u) \/ SyncError(u)
      PROVE  u = t
  <2>1. Alone(t) /\ Alone(u)
    BY <1>2, RequestAlone, AloneOK DEF OneInv
  <2> QED BY <2>1 DEF Alone
<1>3. CASE Tick \/ Quiet \/ UNCHANGED vars \/ \E p \in Procs : Crash(p)
  BY Zenon, <1>3 DEF Tick, Quiet, Crash, vars
<1> QED BY <1>1, <1>2, <1>3 DEF Next

(* A sweep removes no file of an observation that still loads. *)
LEMMA SweepStep ==
    ASSUME SharedLock, OneInv, [Next]_vars, NEW t \in Threads, call[t].sweep # None,
           NEW o \in Owners, Loads(o)
    PROVE  task'[o] = task[o] /\ batches'[o] = batches[o]
<1> DEFINE c == call[t]
<1>1. c.pc \in SweepHeld /\ c.pc \in Held /\ Fits(c) /\ c \in Call
  BY Zenon, SweeperHolds, HolderFits, Holding
<1>2. CASE UNCHANGED files
  BY <1>2 DEF files
<1>3. CASE FileError(t)
  BY <1>3 DEF FileError, files
<1>4. CASE SyncError(t)
  BY Zenon, <1>1, <1>4 DEF SyncError, SweepHeld
<1>5. CASE Continue(t)
  <2>1. CASE ListBatches(t) \/ RemoveBatchDirectory(t) \/ SweepNextDirectory(t)
             \/ \E q \in Owners : SweepRead(t, q)
    BY Zenon, <2>1 DEF ListBatches, RemoveBatchDirectory, SweepNextDirectory, SweepRead, files
  <2>2. ASSUME NEW b \in c.todo, RemoveBatch(t, b)
        PROVE  task'[o] = task[o] /\ batches'[o] = batches[o]
    <3>1. c.pc = "eventsRemove" /\ UNCHANGED task
          /\ batches' = [batches EXCEPT ![c.owner] = @ \ {b}]
      BY <2>2 DEF RemoveBatch
    <3>2. task[c.owner] = None
      BY Zenon, <1>1, <3>1 DEF Fits, FilesOK
    <3>3. c.owner # o
      BY <3>2 DEF Loads
    <3> QED BY Zenon, <3>1, <3>3 DEF OneInv, Inv, TasksOK
  <2>3. CASE SweepRemove(t)
    <3>1. c.pc = "sweepRemove" /\ c.owner \in Owners /\ UNCHANGED batches
      BY <2>3, Holding DEF SweepRemove, files
    <3>2. CASE c.sweep.dir = "tasks"
      <4>1. /\ c.sweep \in SweepState /\ c.sweep.at <= now
            /\ FileIn(c.sweep.dir, c.owner) # None
            /\ Expired(c.sweep.at, FileIn(c.sweep.dir, c.owner))
        BY Zenon, <1>1, <3>1, SweepKnows
      <4>2. task[c.owner] # None /\ c.sweep.at >= task[c.owner].expires
        BY <3>2, <4>1 DEF FileIn, Expired
      <4>3. task[c.owner].expires \in Nat /\ now \in Nat /\ c.sweep.at \in Nat
        BY Zenon, <3>1, <4>1, <4>2 DEF OneInv, Inv, TasksOK, TaskFile, ClockOK, SweepState
      <4>4. c.owner # o
        BY <4>1, <4>2, <4>3 DEF Loads, Unexpired
      <4>5. UNCHANGED task \/ task' = [task EXCEPT ![c.owner] = None]
        BY <2>3 DEF SweepRemove, Without, files
      <4> QED BY Zenon, <3>1, <4>4, <4>5 DEF OneInv, Inv, TasksOK
    <3>3. CASE c.sweep.dir # "tasks"
      BY <2>3, <3>1, <3>3 DEF SweepRemove, Without, files
    <3> QED BY Zenon, <3>2, <3>3
  <2>4. CASE Evict(t)
    BY <2>4 DEF Evict
  <2>5. c.pc \notin {"taskWrite", "batchWrite", "endMerge", "completeMerge",
                     "reportWrite", "taskRemove", "chainWrite", "forgetRemove",
                     "retroWrite", "grantRemove"}
    BY Zenon, <1>1 DEF SweepHeld
  <2> QED BY Zenon, <1>5, <2>1, <2>2, <2>3, <2>4, <2>5 DEF Continue, WriteTask, WriteBatch,
          MergeAndObserve, CompleteMerge, WriteReport, RemoveTask, WriteChain,
          RemoveReport, WriteRetrospectiveReport, RemoveGrant
<1> QED BY Zenon, <1>1, <1>2, <1>3, <1>4, <1>5, OnlyHolder

-----------------------------------------------------------------------------
(* The life of the files of one owner *)

(* The files of the other owners stay as they are. *)
Others(o) ==
    \A q \in Owners \ {o} :
        /\ task'[q] = task[q] /\ report'[q] = report[q] /\ retro'[q] = retro[q]
        /\ q \in used' <=> q \in used

(* Begin and GrantRetrospective create an owner. *)
Opens(o) ==
    /\ o \notin used /\ o \in used'
    /\ report'[o] = None
    /\ task'[o] # None \/ retro'[o] # None

(* The task record is rewritten. *)
Keeps(o) ==
    /\ o \in used /\ o \in used'
    /\ task[o] # None /\ task'[o] # None
    /\ report'[o] = report[o] /\ retro'[o] = retro[o]

(* The task record or the grant is removed. *)
Ends(o) ==
    /\ o \in used /\ o \in used'
    /\ task[o] # None \/ retro[o] # None
    /\ task'[o] = None /\ retro'[o] = None
    /\ report'[o] = report[o]

(* A report appears beside its task record or grant. *)
Publishes(o) ==
    /\ o \in used /\ o \in used'
    /\ MaxFaults = 0 => report[o] = None
    /\ task[o] # None \/ retro[o] # None
    /\ task'[o] = task[o] /\ retro'[o] = retro[o]
    /\ report'[o] \in ReportFile /\ report'[o].revisions = <<>>

(* A report is verified or retained. *)
Extends(o) ==
    /\ o \in used /\ o \in used'
    /\ report[o] \in ReportFile /\ report'[o] \in ReportFile
    /\ Extension(report[o], report'[o])
    /\ task'[o] = task[o] /\ retro'[o] = retro[o]

(* A report is removed. *)
Drops(o) ==
    /\ o \in used /\ o \in used'
    /\ report[o] # None /\ report'[o] = None
    /\ task'[o] = task[o] /\ retro'[o] = retro[o]
    /\ MaxFaults = 0 => task[o] = None /\ retro[o] = None

Effect(o) ==
    /\ Others(o)
    /\ Opens(o) \/ Keeps(o) \/ Ends(o) \/ Publishes(o) \/ Extends(o) \/ Drops(o)

Files == <<task, report, retro, used>>

(* Requests that arrive *)
LEMMA ArriveEffect ==
    ASSUME OneInv, NEW t \in Threads, Fits(call[t]), Arrive(t)
    PROVE  UNCHANGED Files \/ \E o \in Owners : Effect(o)
<1>0. /\ task \in [Owners -> TaskFile \cup {None}]
      /\ retro \in [Owners -> GrantFile \cup {None}]
  BY DEF OneInv, Inv, TasksOK
<1>1. ASSUME NEW o \in Owners, Begin(t, o)
      PROVE  Effect(o)
  <2> DEFINE new == [events |-> {}, grants |-> {}, expires |-> now + Interruption]
  <2>1. new \in TaskFile /\ new # None
    <3>1. new \in TaskFile
      BY TimesAssumption DEF TaskFile, OneInv, Inv, ClockOK
    <3> QED BY <3>1, NoFileAssumption
  <2> HIDE DEF new
  <2>2. /\ o \notin used /\ used' = used \cup {o} /\ UNCHANGED <<report, retro>>
        /\ task' = [task EXCEPT ![o] = new]
    BY Zenon, <1>1 DEF Begin, new
  <2>3. report[o] = None
    BY Zenon, <2>2 DEF Fits, OwnersOK
  <2> QED BY Zenon, <1>0, <2>1, <2>2, <2>3 DEF Effect, Others, Opens
<1>2. ASSUME NEW o \in Owners, GrantRetrospective(t, o)
      PROVE  Effect(o)
  <2> DEFINE new == [expires |-> now + GrantLife]
  <2>1. new \in GrantFile /\ new # None
    <3>1. new \in GrantFile
      BY TimesAssumption DEF GrantFile, OneInv, Inv, ClockOK
    <3> QED BY <3>1, NoFileAssumption
  <2> HIDE DEF new
  <2>2. /\ o \notin used /\ used' = used \cup {o} /\ UNCHANGED <<report, task>>
        /\ retro' = [retro EXCEPT ![o] = new]
    BY <1>2 DEF GrantRetrospective, new
  <2>3. report[o] = None
    BY Zenon, <2>2 DEF Fits, OwnersOK
  <2> QED BY Zenon, <1>0, <2>1, <2>2, <2>3 DEF Effect, Others, Opens
<1>3. ASSUME \A o \in Owners : ~Begin(t, o) /\ ~GrantRetrospective(t, o)
      PROVE  UNCHANGED Files
  BY Zenon, <1>3 DEF Arrive, Files, files, ids, Sweep, AppendEvents, DelegateOwnedExecutor,
     AppendOwnedExecutorEvents, LoadOwnedTaskForEnd, Verify, RetainOwnedReport,
     ForgetOwnedReport, Summarize, InspectCompletedAuthorized
<1> QED BY <1>1, <1>2, <1>3

(* The rewrite of a task record *)
LEMMA TaskWriteEffect ==
    ASSUME OneInv, NEW t \in Threads, Fits(call[t]), call[t].pc = "taskWrite",
           task' = [task EXCEPT ![call[t].owner] = call[t].rec],
           UNCHANGED <<report, retro, used>>
    PROVE  Effect(call[t].owner) /\ call[t].owner \in Owners
<1> DEFINE o == call[t].owner
<1>1. o \in Owners /\ call[t].rec # None /\ task[o] # None
  BY Zenon, Holding, NoFileAssumption DEF Fits, FilesOK
<1>2. o \in used
  BY Zenon, <1>1 DEF Fits, OwnersOK
<1> QED BY Zenon, <1>1, <1>2 DEF Effect, Others, Keeps, OneInv, Inv, TasksOK

(* A report is published. *)
LEMMA PublishEffect ==
    ASSUME OneInv, NEW t \in Threads, Fits(call[t]),
           WriteReport(t) \/ WriteRetrospectiveReport(t)
    PROVE  Effect(call[t].owner) /\ call[t].owner \in Owners
<1> DEFINE o == call[t].owner
<1>1. /\ call[t].pc \in {"reportWrite", "retroWrite"}
      /\ report' = [report EXCEPT ![o] = call[t].rep]
      /\ UNCHANGED <<task, retro, used>>
  BY DEF WriteReport, WriteRetrospectiveReport, ids
<1>2. o \in Owners /\ call[t].rep \in ReportFile /\ call[t].rep.revisions = <<>>
  BY Zenon, <1>1, Holding DEF PendingOK
<1>3. task[o] # None \/ retro[o] # None
  BY Zenon, <1>1 DEF Fits, FilesOK
<1>4. o \in used /\ (MaxFaults = 0 => report[o] = None)
  BY Zenon, <1>1, <1>2, <1>3 DEF Fits, OwnersOK, FinalOK
<1>5. report'[o] = call[t].rep /\ \A q \in Owners \ {o} : report'[q] = report[q]
  BY Zenon, <1>1, <1>2 DEF OneInv, Inv, ReportsOK
<1> QED BY Zenon, <1>1, <1>2, <1>3, <1>4, <1>5 DEF Effect, Others, Publishes

(* A report is rewritten. *)
LEMMA ExtendEffect ==
    ASSUME OneInv, NEW t \in Threads, Fits(call[t]), WriteChain(t)
    PROVE  Effect(call[t].owner) /\ call[t].owner \in Owners
<1> DEFINE o == call[t].owner
<1>1. /\ call[t].pc = "chainWrite" /\ report' = [report EXCEPT ![o] = call[t].rep]
      /\ UNCHANGED <<task, retro, used>>
  BY Zenon DEF WriteChain, ids
<1>2. o \in Owners /\ call[t].rep \in ReportFile
  BY Zenon, <1>1, Holding
<1>3. report[o] # None /\ Extension(report[o], call[t].rep)
  BY Zenon, <1>1 DEF Fits, FilesOK
<1>4. o \in used /\ report[o] \in ReportFile
  BY Zenon, <1>2, <1>3 DEF Fits, OwnersOK, OneInv, Inv, ReportsOK
<1>5. report'[o] = call[t].rep /\ \A q \in Owners \ {o} : report'[q] = report[q]
  BY Zenon, <1>1, <1>2 DEF OneInv, Inv, ReportsOK
<1> QED BY Zenon, <1>1, <1>2, <1>3, <1>4, <1>5 DEF Effect, Others, Extends

(* A report is removed by someone who is not completing its task. *)
LEMMA DropEffect ==
    ASSUME OneInv, NEW t \in Threads, Fits(call[t]), NEW o \in Owners,
           call[t].pc \notin {"taskRemove", "grantRemove"}, report[o] # None,
           report' = [report EXCEPT ![o] = None], UNCHANGED <<task, retro, used>>
    PROVE  Effect(o)
<1>1. o \in used /\ (MaxFaults = 0 => task[o] = None /\ retro[o] = None)
  BY Zenon DEF Fits, OwnersOK, FinalOK
<1>2. report'[o] = None /\ \A q \in Owners \ {o} : report'[q] = report[q]
  BY Zenon DEF OneInv, Inv, ReportsOK
<1> QED BY <1>1, <1>2 DEF Effect, Others, Drops

(* A task record or a grant is removed. *)
LEMMA EndEffect ==
    ASSUME OneInv, OwnersOK, NEW o \in Owners, UNCHANGED <<report, used>>,
           \/ /\ task[o] # None /\ task' = [task EXCEPT ![o] = None]
              /\ UNCHANGED retro
           \/ /\ retro[o] # None /\ retro' = [retro EXCEPT ![o] = None]
              /\ UNCHANGED task
    PROVE  Effect(o)
<1>1. o \in used /\ (task[o] = None \/ retro[o] = None)
  BY Zenon DEF OwnersOK
<1>2. task'[o] = None /\ retro'[o] = None
  BY <1>1 DEF OneInv, Inv, TasksOK
<1>3. \A q \in Owners \ {o} : task'[q] = task[q] /\ retro'[q] = retro[q]
  BY DEF OneInv, Inv, TasksOK
<1> QED BY Zenon, <1>1, <1>2, <1>3 DEF Effect, Others, Ends

(* A sweep removes a file. *)
LEMMA SweepEffect ==
    ASSUME OneInv, NEW t \in Threads, Fits(call[t]), SweepRemove(t) \/ Evict(t)
    PROVE  UNCHANGED Files \/ \E o \in Owners : Effect(o)
<1> DEFINE c == call[t]
<1>1. CASE SweepRemove(t)
  <2>1. c.pc = "sweepRemove" /\ c.owner \in Owners /\ UNCHANGED used
    BY <1>1, Holding DEF SweepRemove, ids
  <2>2. /\ FileIn(c.sweep.dir, c.owner) # None /\ c.sweep \in SweepState
    BY Zenon, <2>1, SweepKnows
  <2>3. c.sweep.dir \in {"tasks", "reports", "grants"}
    BY <2>2 DEF SweepState, Directories
  <2>4. CASE c.sweep.dir = "tasks"
    <3>1. /\ task[c.owner] # None /\ task' = [task EXCEPT ![c.owner] = None]
          /\ UNCHANGED <<report, retro>>
      BY <1>1, <2>2, <2>4 DEF SweepRemove, Without, FileIn
    <3> QED BY Zenon, <2>1, <3>1, EndEffect DEF Fits
  <2>5. CASE c.sweep.dir = "grants"
    <3>1. /\ retro[c.owner] # None /\ retro' = [retro EXCEPT ![c.owner] = None]
          /\ UNCHANGED <<report, task>>
      BY <1>1, <2>2, <2>5 DEF SweepRemove, Without, FileIn
    <3> QED BY Zenon, <2>1, <3>1, EndEffect DEF Fits
  <2>6. CASE c.sweep.dir = "reports"
    <3>1. /\ report[c.owner] # None /\ report' = [report EXCEPT ![c.owner] = None]
          /\ UNCHANGED <<retro, task>>
      BY <1>1, <2>2, <2>6 DEF SweepRemove, Without, FileIn
    <3> QED BY Zenon, <2>1, <3>1, DropEffect
  <2> QED BY <2>3, <2>4, <2>5, <2>6
<1>2. CASE Evict(t)
  <2>1. c.pc = "evict" /\ UNCHANGED <<task, retro, used>>
    BY <1>2 DEF Evict, ids
  <2>2. CASE UNCHANGED report
    BY <2>1, <2>2 DEF Files
  <2>3. ASSUME NEW k \in OldestUnprotected(c.sweep.kept),
               report' = [report EXCEPT ![k.owner] = None]
        PROVE  Effect(k.owner) /\ k.owner \in Owners
    <3>1. k \in c.sweep.kept
      BY DEF OldestUnprotected
    <3>2. c.sweep.kept = {Kept(q) : q \in Swept(c)}
      BY Zenon, <2>1, SweepKnows
    <3>3. PICK q \in Reports : k = Kept(q)
      BY Zenon, <3>1, <3>2 DEF Swept
    <3>4. k.owner \in Owners /\ report[k.owner] # None
      BY <3>3 DEF Kept, Reports
    <3> QED BY Zenon, <2>1, <2>3, <3>4, DropEffect
  <2> QED BY <1>2, <2>2, <2>3, Zenon DEF Evict
<1> QED BY <1>1, <1>2

(* A running request removes a file. *)
LEMMA RemoveEffect ==
    ASSUME OneInv, NEW t \in Threads, Fits(call[t]),
           RemoveTask(t) \/ RemoveReport(t) \/ RemoveGrant(t)
    PROVE  Effect(call[t].owner) /\ call[t].owner \in Owners
<1> DEFINE o == call[t].owner
<1>1. CASE RemoveTask(t)
  <2>1. /\ call[t].pc = "taskRemove" /\ o \in Owners /\ task[o] # None
    BY <1>1, Holding DEF RemoveTask, Fits, FilesOK
  <2>2. task' = [task EXCEPT ![o] = None] /\ UNCHANGED <<report, retro, used>>
    BY <1>1, <2>1 DEF RemoveTask, ids
  <2> QED BY Zenon, <2>1, <2>2, EndEffect DEF Fits
<1>2. CASE RemoveReport(t)
  <2>1. /\ call[t].pc = "forgetRemove" /\ o \in Owners /\ report[o] # None
    BY Zenon, <1>2, Holding DEF RemoveReport, Fits, FilesOK
  <2>2. report' = [report EXCEPT ![o] = None] /\ UNCHANGED <<task, retro, used>>
    BY Zenon, <1>2 DEF RemoveReport, ids
  <2> QED BY Zenon, <2>1, <2>2, DropEffect
<1>3. CASE RemoveGrant(t)
  <2>1. /\ call[t].pc = "grantRemove" /\ o \in Owners /\ retro[o] # None
    BY Zenon, <1>3, Holding DEF RemoveGrant, Fits, FilesOK
  <2>2. retro' = [retro EXCEPT ![o] = None] /\ UNCHANGED <<report, task, used>>
    BY Zenon, <1>3 DEF RemoveGrant, ids
  <2> QED BY Zenon, <2>1, <2>2, EndEffect DEF Fits
<1> QED BY <1>1, <1>2, <1>3

(* A step touches the files of one owner, in one of six ways. *)
LEMMA StepEffect ==
    ASSUME SharedLock, OneInv, [Next]_vars
    PROVE  UNCHANGED Files \/ \E o \in Owners : Effect(o)
<1>1. ASSUME NEW t \in Threads, Arrive(t)
      PROVE  UNCHANGED Files \/ \E o \in Owners : Effect(o)
  BY <1>1, RequestAlone, ArriveEffect DEF OneInv
<1>2. ASSUME NEW t \in Threads, Acquire(t)
      PROVE  UNCHANGED Files
  BY <1>2 DEF Acquire, Files, files, ids, AppendOwnedEvents, CompleteOwnedTask,
     AppendOwnedRevision, GetCandidatePage, SummarizePanics, CompleteRetrospectiveGrant
<1>3. ASSUME NEW t \in Threads, Continue(t)
      PROVE  UNCHANGED Files \/ \E o \in Owners : Effect(o)
  <2>1. Fits(call[t])
    BY <1>3, RequestAlone DEF OneInv
  <2>2. CASE WriteTask(t)
    BY Zenon, <2>1, <2>2, TaskWriteEffect DEF WriteTask
  <2>3. CASE WriteReport(t) \/ WriteRetrospectiveReport(t)
    BY <2>1, <2>3, PublishEffect
  <2>4. CASE WriteChain(t)
    BY <2>1, <2>4, ExtendEffect
  <2>5. CASE RemoveTask(t) \/ RemoveReport(t) \/ RemoveGrant(t)
    BY <2>1, <2>5, RemoveEffect
  <2>6. CASE SweepRemove(t) \/ Evict(t)
    BY <2>1, <2>6, SweepEffect
  <2>7. CASE \/ WriteBatch(t) \/ MergeAndObserve(t) \/ CompleteMerge(t)
             \/ ListBatches(t) \/ RemoveBatchDirectory(t) \/ SweepNextDirectory(t)
             \/ \E b \in call[t].todo : RemoveBatch(t, b)
             \/ \E o \in Owners : SweepRead(t, o)
    BY Zenon, <2>7 DEF Files, files, ids, WriteBatch, MergeAndObserve, CompleteMerge,
       ListBatches, RemoveBatchDirectory, SweepNextDirectory, RemoveBatch, SweepRead
  <2> QED BY Zenon, <1>3, <2>2, <2>3, <2>4, <2>5, <2>6, <2>7 DEF Continue
<1>4. ASSUME NEW t \in Threads, FileError(t) \/ SyncError(t)
      PROVE  UNCHANGED Files \/ \E o \in Owners : Effect(o)
  <2>1. Fits(call[t])
    BY <1>4, RequestAlone DEF OneInv
  <2>2. CASE FileError(t)
    BY <2>2 DEF FileError, Files, files, ids
  <2>3. CASE SyncError(t) /\ call[t].pc = "taskWrite"
    BY Zenon, <2>1, <2>3, TaskWriteEffect DEF SyncError, ids
  <2>4. CASE SyncError(t) /\ call[t].pc # "taskWrite"
    BY Zenon, <2>4 DEF SyncError, ids, Files
  <2> QED BY <1>4, <2>2, <2>3, <2>4
<1>5. CASE Tick \/ Quiet \/ UNCHANGED vars \/ \E p \in Procs : Crash(p)
  BY Zenon, <1>5 DEF Tick, Quiet, Crash, vars, files, ids, Files
<1> QED BY <1>1, <1>2, <1>3, <1>4, <1>5 DEF Next

(* Retaining and verifying continue the chain. *)
LEMMA ExtensionContinues ==
    ASSUME NEW r \in ReportFile, NEW q \in ReportFile, Extension(r, q)
    PROVE  Continues(r, q)
<1>1. r.revisions \in Seq(Revision) /\ q.revisions \in Seq(Revision)
  BY DEF ReportFile
<1>2. KeepsRevisions(r, q)
  <2>1. CASE q.revisions = r.revisions
    BY <1>1, <2>1 DEF KeepsRevisions
  <2>2. ASSUME NEW rev \in Revision, q.revisions = Append(r.revisions, rev)
        PROVE  KeepsRevisions(r, q)
    BY <1>1, <2>2 DEF KeepsRevisions
  <2> QED BY <2>1, <2>2 DEF Extension
<1> QED BY <1>2 DEF Extension, Continues

-----------------------------------------------------------------------------
(* What ReportChain sees of the files *)

(* The links of the chain that a report file holds. *)
Shown(r) ==
    <<r.body>> \o [i \in 1..Len(r.revisions) |-> r.revisions[i].snapshot]

(* They are the report and the snapshots of its revisions. *)
LEMMA ShownLinks ==
    ASSUME NEW r \in ReportFile
    PROVE  LET n == Len(r.revisions) IN
           /\ n \in Nat /\ Shown(r) \in Seq(Body \cup Snapshot)
           /\ Len(Shown(r)) = n + 1 /\ Shown(r)[1] = r.body
           /\ \A i \in 1..n : Shown(r)[i + 1] = r.revisions[i].snapshot
<1> DEFINE n == Len(r.revisions)
           tail == [i \in 1..n |-> r.revisions[i].snapshot]
<1>1. r.body \in Body /\ r.revisions \in Seq(Revision)
  BY DEF ReportFile
<1>2. n \in Nat /\ \A i \in 1..n : r.revisions[i].snapshot \in Snapshot
  <2>1. n \in Nat /\ \A i \in 1..n : r.revisions[i] \in Revision
    BY <1>1
  <2> QED BY <2>1 DEF Revision
<1>3. tail \in Seq(Body \cup Snapshot) /\ Len(tail) = n
      /\ \A i \in 1..n : tail[i] = r.revisions[i].snapshot
  BY <1>2
<1>4. Shown(r) = <<r.body>> \o tail
  BY DEF Shown
<1> HIDE DEF tail
<1>5. <<r.body>> \in Seq(Body \cup Snapshot)
  BY <1>1
<1> QED BY <1>2, <1>3, <1>4, <1>5

(* A verification adds one link to the chain. *)
LEMMA ShownExtended ==
    ASSUME NEW r \in ReportFile, NEW q \in ReportFile, NEW rev \in Revision,
           q.body = r.body, q.revisions = Append(r.revisions, rev)
    PROVE  /\ Len(Shown(q)) = Len(Shown(r)) + 1
           /\ SubSeq(Shown(q), 1, Len(Shown(r))) = Shown(r)
<1> DEFINE n == Len(r.revisions)
           s == Shown(r)
           u == Shown(q)
<1>1. /\ n \in Nat /\ s \in Seq(Body \cup Snapshot) /\ Len(s) = n + 1
      /\ s[1] = r.body /\ \A i \in 1..n : s[i + 1] = r.revisions[i].snapshot
  BY ShownLinks
<1>2. /\ u \in Seq(Body \cup Snapshot) /\ Len(u) = Len(q.revisions) + 1
      /\ u[1] = q.body
      /\ \A i \in 1..Len(q.revisions) : u[i + 1] = q.revisions[i].snapshot
  BY Zenon, ShownLinks
<1>3. Len(q.revisions) = n + 1 /\ \A i \in 1..n : q.revisions[i] = r.revisions[i]
  BY DEF ReportFile
<1> HIDE DEF n, s, u
<1>4. Len(u) = Len(s) + 1
  BY <1>1, <1>2, <1>3
<1>5. ASSUME NEW i \in 1..n + 1 PROVE u[i] = s[i]
  <2>1. CASE i = 1
    BY <1>1, <1>2, <2>1
  <2>2. CASE i # 1
    <3>1. i - 1 \in 1..n /\ i - 1 \in 1..n + 1 /\ (i - 1) + 1 = i
      BY <1>1, <2>2
    <3>2. s[i] = r.revisions[i - 1].snapshot
      BY <1>1, <3>1
    <3>3. u[i] = q.revisions[i - 1].snapshot
      BY <1>2, <1>3, <3>1
    <3> QED BY <1>3, <3>1, <3>2, <3>3
  <2> QED BY <2>1, <2>2
<1>6. SubSeq(u, 1, Len(s)) = s
  BY <1>1, <1>2, <1>4, <1>5
<1> QED BY <1>4, <1>6 DEF s, u

(* What the mapping shows of one owner. *)
LEMMA Mapped ==
    ASSUME NEW o
    PROVE  /\ ChainOf(o) = IF report[o] = None THEN <<>> ELSE Shown(report[o])
           /\ ChainOf(o)' = IF report'[o] = None THEN <<>> ELSE Shown(report'[o])
           /\ PhaseOf(o)' = IF report'[o] # None THEN "published"
                            ELSE IF task'[o] # None \/ retro'[o] # None THEN "open"
                            ELSE IF o \in used' THEN "gone"
                            ELSE "new"
BY DEF ChainOf, PhaseOf, Shown

(* The files of the other owners show what they did. *)
LEMMA OthersMapped ==
    ASSUME NEW o \in Owners, Others(o)
    PROVE  \A q \in Owners \ {o} : PhaseOf(q)' = PhaseOf(q) /\ ChainOf(q)' = ChainOf(q)
<1> SUFFICES ASSUME NEW q \in Owners \ {o}
             PROVE  PhaseOf(q)' = PhaseOf(q) /\ ChainOf(q)' = ChainOf(q)
  OBVIOUS
<1>1. /\ task'[q] = task[q] /\ report'[q] = report[q] /\ retro'[q] = retro[q]
      /\ q \in used' <=> q \in used
  BY DEF Others
<1>2. ChainOf(q)' = ChainOf(q)
  BY <1>1, Mapped
<1>3. PhaseOf(q)' = PhaseOf(q)
  BY Zenon, <1>1, Mapped DEF PhaseOf
<1> QED BY <1>2, <1>3

(* How one owner's part of the mapping may change. *)
Links(o) ==
    \/ /\ PhaseOf(o) = "new" /\ PhaseOf(o)' = "open" /\ ChainOf(o)' = ChainOf(o)
    \/ /\ PhaseOf(o) = "open" /\ PhaseOf(o)' = "published" /\ Len(ChainOf(o)') = 1
    \/ /\ PhaseOf(o) = "published" /\ PhaseOf(o)' = "published"
       /\ Len(ChainOf(o)') = Len(ChainOf(o)) + 1
       /\ SubSeq(ChainOf(o)', 1, Len(ChainOf(o))) = ChainOf(o)
    \/ /\ PhaseOf(o) = "published" /\ PhaseOf(o)' = "gone" /\ ChainOf(o)' = <<>>
    \/ /\ PhaseOf(o) = "open" /\ PhaseOf(o)' = "gone" /\ ChainOf(o)' = ChainOf(o)
    \/ /\ PhaseOf(o)' = PhaseOf(o) /\ ChainOf(o)' = ChainOf(o)

(* Each of the six effects is a step of ReportChain, or none. *)
LEMMA EffectLinks ==
    ASSUME OwnersOK, MaxFaults = 0, NEW o \in Owners, Effect(o)
    PROVE  Links(o)
<1>1. CASE Opens(o)
  <2>1. task[o] = None /\ retro[o] = None /\ report[o] = None
    BY Zenon, <1>1 DEF Opens, OwnersOK
  <2>2. PhaseOf(o) = "new" /\ PhaseOf(o)' = "open"
    BY Zenon, <1>1, <2>1, Mapped DEF Opens, PhaseOf
  <2>3. ChainOf(o)' = ChainOf(o)
    BY Zenon, <1>1, <2>1, Mapped DEF Opens
  <2> QED BY <2>2, <2>3 DEF Links
<1>2. CASE Keeps(o)
  <2>1. PhaseOf(o)' = PhaseOf(o)
    BY <1>2, Mapped DEF Keeps, PhaseOf
  <2>2. ChainOf(o)' = ChainOf(o)
    BY Zenon, <1>2, Mapped DEF Keeps
  <2> QED BY <2>1, <2>2 DEF Links
<1>3. CASE Ends(o)
  <2>1. ChainOf(o)' = ChainOf(o)
    BY Zenon, <1>3, Mapped DEF Ends
  <2>2. \/ PhaseOf(o) = "open" /\ PhaseOf(o)' = "gone"
        \/ PhaseOf(o)' = PhaseOf(o)
    BY Zenon, <1>3, Mapped DEF Ends, PhaseOf
  <2> QED BY <2>1, <2>2 DEF Links
<1>4. CASE Publishes(o)
  <2>1. report[o] = None /\ report'[o] # None
    BY <1>4, NoFileAssumption DEF Publishes
  <2>2. PhaseOf(o) = "open" /\ PhaseOf(o)' = "published"
    BY Zenon, <1>4, <2>1, Mapped DEF Publishes, PhaseOf
  <2>3. Len(ChainOf(o)') = 1
    <3>1. Len(Shown(report'[o])) = 0 + 1
      BY Zenon, <1>4, ShownLinks DEF Publishes
    <3>2. ChainOf(o)' = Shown(report'[o])
      BY Zenon, <2>1, Mapped
    <3> QED BY <3>1, <3>2
  <2> QED BY <2>2, <2>3 DEF Links
<1>5. CASE Extends(o)
  <2>1. report[o] # None /\ report'[o] # None
    BY <1>5, NoFileAssumption DEF Extends
  <2>2. PhaseOf(o) = "published" /\ PhaseOf(o)' = "published"
    BY Zenon, <2>1, Mapped DEF PhaseOf
  <2>3. ChainOf(o) = Shown(report[o]) /\ ChainOf(o)' = Shown(report'[o])
    BY Zenon, <2>1, Mapped
  <2>4. report'[o].body = report[o].body
    BY Zenon, <1>5 DEF Extends, Extension
  <2>5. CASE report'[o].revisions = report[o].revisions
    BY Zenon, <2>2, <2>3, <2>4, <2>5 DEF Links, Shown
  <2>6. ASSUME NEW rev \in Revision,
               report'[o].revisions = Append(report[o].revisions, rev)
        PROVE  Links(o)
    <3>1. /\ Len(ChainOf(o)') = Len(ChainOf(o)) + 1
          /\ SubSeq(ChainOf(o)', 1, Len(ChainOf(o))) = ChainOf(o)
      BY Zenon, <1>5, <2>3, <2>4, <2>6, ShownExtended DEF Extends
    <3> QED BY <2>2, <3>1 DEF Links
  <2> QED BY Zenon, <1>5, <2>5, <2>6 DEF Extends, Extension
<1>6. CASE Drops(o)
  <2>1. PhaseOf(o) = "published" /\ PhaseOf(o)' = "gone"
    BY Zenon, <1>6, Mapped DEF Drops, PhaseOf
  <2>2. ChainOf(o)' = <<>>
    BY Zenon, <1>6, Mapped DEF Drops
  <2> QED BY <2>1, <2>2 DEF Links
<1> QED BY <1>1, <1>2, <1>3, <1>4, <1>5, <1>6 DEF Effect

(* A change of one owner's part is a step of ReportChain. *)
LEMMA LinksStep ==
    ASSUME NEW o \in Owners, Others(o), Links(o)
    PROVE  [Chain!Next]_(Chain!vars)
<1> DEFINE phase == [q \in Owners |-> PhaseOf(q)]
           chain == [q \in Owners |-> ChainOf(q)]
<1>1. /\ phase' = [phase EXCEPT ![o] = PhaseOf(o)']
      /\ chain' = [chain EXCEPT ![o] = ChainOf(o)']
  BY Zenon, OthersMapped
<1>2. /\ phase[o] = PhaseOf(o) /\ chain[o] = ChainOf(o) /\ chain'[o] = ChainOf(o)'
  OBVIOUS
<1>3. PhaseOf(o)' = PhaseOf(o) => UNCHANGED phase
  BY Zenon, <1>1
<1>4. ChainOf(o)' = ChainOf(o) => UNCHANGED chain
  BY Zenon, <1>1
<1>5. CASE PhaseOf(o) = "new" /\ PhaseOf(o)' = "open" /\ ChainOf(o)' = ChainOf(o)
  <2>1. Chain!Open(o)
    BY <1>1, <1>2, <1>4, <1>5 DEF Chain!Open, Chain!Moves
  <2> QED BY <2>1 DEF Chain!Next
<1>6. CASE PhaseOf(o) = "open" /\ PhaseOf(o)' = "published" /\ Len(ChainOf(o)') = 1
  <2>1. Chain!Publish(o)
    BY <1>1, <1>2, <1>6 DEF Chain!Publish, Chain!Moves
  <2> QED BY <2>1 DEF Chain!Next
<1>7. CASE /\ PhaseOf(o) = "published" /\ PhaseOf(o)' = "published"
           /\ Len(ChainOf(o)') = Len(ChainOf(o)) + 1
           /\ SubSeq(ChainOf(o)', 1, Len(ChainOf(o))) = ChainOf(o)
  <2>1. Chain!Extend(o)
    BY <1>1, <1>2, <1>3, <1>7 DEF Chain!Extend
  <2> QED BY <2>1 DEF Chain!Next
<1>8. CASE PhaseOf(o) = "published" /\ PhaseOf(o)' = "gone" /\ ChainOf(o)' = <<>>
  <2>1. Chain!Drop(o)
    BY <1>1, <1>2, <1>8 DEF Chain!Drop, Chain!Moves
  <2> QED BY <2>1 DEF Chain!Next
<1>9. CASE PhaseOf(o) = "open" /\ PhaseOf(o)' = "gone" /\ ChainOf(o)' = ChainOf(o)
  <2>1. Chain!Abandon(o)
    BY <1>1, <1>2, <1>4, <1>9 DEF Chain!Abandon, Chain!Moves
  <2> QED BY <2>1 DEF Chain!Next
<1>10. CASE PhaseOf(o)' = PhaseOf(o) /\ ChainOf(o)' = ChainOf(o)
  BY <1>3, <1>4, <1>10 DEF Chain!vars
<1> QED BY <1>5, <1>6, <1>7, <1>8, <1>9, <1>10 DEF Links

=============================================================================
