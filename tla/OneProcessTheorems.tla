------------------------- MODULE OneProcessTheorems -------------------------
(***************************************************************************)
(* What the invariant of OneProcessProofs says to a user of the store, for *)
(* one process serving any number of requests about any number of owners.  *)
(*                                                                         *)
(* SharedLock cannot be left out: two processes lose a revision.  Nor can  *)
(* MaxFaults = 0, where it is assumed: a crash between two file operations *)
(* of CompleteOwnedTask leaves a task beside its report, and ending that   *)
(* task again overwrites the report.                                       *)
(***************************************************************************)
EXTENDS OneProcessProofs, FiniteSetTheorems, Induction

-----------------------------------------------------------------------------
(* What the reports occupy *)

(* The bytes a sweep counts are the sum of the sizes it remembers. *)
LEMMA TotalIsSum ==
    ASSUME NEW K, NEW f, IsSum(f, K, [k \in K |-> k.size])
    PROVE  Total(K) = f[K]
<1> DEFINE g == [k \in K |-> k.size]
           Step(e) == [s \in SUBSET K |->
                         IF s = {} THEN 0 ELSE First(s).size + e[s \ {First(s)}]]
           e == CHOOSE e : e = Step(e)
<1>1. \A s \in SUBSET K : s # {} => g[First(s)] = First(s).size
  BY FirstIn
<1>2. f = Step(f)
  <2>1. f \in [SUBSET K -> Nat] /\ \A s \in SUBSET K :
            f[s] = IF s = {} THEN 0 ELSE g[First(s)] + f[s \ {First(s)}]
    BY Zenon DEF IsSum
  <2> QED BY Zenon, <1>1, <2>1
<1>3. e = Step(e)
  BY Zenon, <1>2
<1>4. Total(K) = e[K]
  BY DEF Total, MapThenSumSet, MapThenFoldSet, First
<1> HIDE DEF e
<1>5. \A s \in SUBSET K : e[s] = IF s = {} THEN 0 ELSE g[First(s)] + e[s \ {First(s)}]
  BY Zenon, <1>1, <1>3
<1>0. IsSum(f, K, g)
  OBVIOUS
<1> HIDE DEF g
<1>6. \A s \in SUBSET K : e[s] = f[s]
  BY ONLY <1>0, <1>5, SumUnique
<1> QED BY <1>4, <1>6

(* The same of the files themselves. *)
LEMMA DiskUseIsSum ==
    ASSUME NEW f, IsSum(f, Reports, [o \in Reports |-> 1 + Len(report[o].revisions)])
    PROVE  DiskUse = f[Reports]
<1> DEFINE K == Reports
           g == [o \in K |-> 1 + Len(report[o].revisions)]
           Step(e) == [s \in SUBSET K |->
                         IF s = {} THEN 0
                         ELSE (1 + Len(report[First(s)].revisions)) + e[s \ {First(s)}]]
           e == CHOOSE e : e = Step(e)
<1>1. \A s \in SUBSET K : s # {} => g[First(s)] = 1 + Len(report[First(s)].revisions)
  BY FirstIn
<1>2. f = Step(f)
  <2>1. f \in [SUBSET K -> Nat] /\ \A s \in SUBSET K :
            f[s] = IF s = {} THEN 0 ELSE g[First(s)] + f[s \ {First(s)}]
    BY Zenon DEF IsSum
  <2> QED BY Zenon, <1>1, <2>1
<1>3. e = Step(e)
  BY Zenon, <1>2
<1>4. DiskUse = e[K]
  BY DEF DiskUse, MapThenSumSet, MapThenFoldSet, First
<1> HIDE DEF e
<1>5. \A s \in SUBSET K : e[s] = IF s = {} THEN 0 ELSE g[First(s)] + e[s \ {First(s)}]
  BY Zenon, <1>1, <1>3
<1>0. IsSum(f, K, g)
  OBVIOUS
<1> HIDE DEF g, K
<1>6. \A s \in SUBSET K : e[s] = f[s]
  BY ONLY <1>0, <1>5, SumUnique
<1> QED BY <1>4, <1>6 DEF K

(* A sweep that remembers every report on disk counts what they occupy. *)
LEMMA TotalIsDiskUse ==
    ASSUME Inv, IsFiniteSet(used), OwnersOK
    PROVE  Total({Kept(q) : q \in Reports}) = DiskUse
<1> DEFINE K == {Kept(q) : q \in Reports}
           g == [q \in Reports |-> 1 + Len(report[q].revisions)]
           k == [x \in K |-> x.size]
           h == [q \in Reports |-> Kept(q)]
<1>1. IsFiniteSet(Reports)
  <2>1. Reports \subseteq used
    BY DEF Reports, OwnersOK
  <2> QED BY <2>1, FS_Subset
<1>2. IsFiniteSet(K)
  <2>1. h \in Surjection(Reports, K)
    BY DEF Surjection
  <2> HIDE DEF h, K
  <2> QED BY <1>1, <2>1, FS_Surjection
<1>3. \A q \in Reports : 1 + Len(report[q].revisions) \in Nat
  BY DEF Reports, Inv, ReportsOK, ReportFile
<1>4. \A q \in Reports : Kept(q).size = 1 + Len(report[q].revisions) /\ Kept(q).owner = q
  BY DEF Kept
<1>5. g \in [Reports -> Nat]
  BY <1>3
<1>6. k \in [K -> Nat]
  BY <1>3, <1>4
<1>7. /\ h \in [Reports -> K] /\ \A q \in Reports : k[h[q]] = g[q]
      /\ \A q, r \in Reports : h[q] = h[r] => q = r
  BY <1>4
<1>8. {h[q] : q \in Reports} = K
  OBVIOUS
<1> HIDE DEF h, k, g
<1>9. PICK f : IsSum(f, Reports, g)
  BY <1>1, <1>5, SumExists
<1>10. PICK e : IsSum(e, K, k)
  BY Zenon, <1>2, <1>6, SumExists
<1>11. f[Reports] = e[{h[q] : q \in Reports}]
  BY <1>7, <1>9, <1>10, SumMapped
<1>12. DiskUse = f[Reports]
  BY <1>9, DiskUseIsSum DEF g
<1>13. Total(K) = e[K]
  BY <1>10, TotalIsSum DEF k
<1> QED BY <1>8, <1>11, <1>12, <1>13

(* While an unprotected report is left, one of them is the oldest. *)
LEMMA OldestExists ==
    ASSUME NEW kept \in SUBSET KeptReport, OldestUnprotected(kept) = {}
    PROVE  \A k \in kept : k.protected
<1> DEFINE U == {k \in kept : ~k.protected}
           Q == {n \in Nat : \A k \in U : k.created > n}
<1>1. \A k \in U : k.created \in Nat
  BY DEF KeptReport
<1>2. \A k \in U : \E x \in U : x.created < k.created
  BY <1>1 DEF OldestUnprotected
<1> HIDE DEF U
<1>3. 0 \in Q
  BY <1>1, <1>2
<1>4. \A n \in Nat : n \in Q => n + 1 \in Q
  <2> SUFFICES ASSUME NEW n \in Nat, n \in Q, NEW k \in U
               PROVE  k.created > n + 1
    OBVIOUS
  <2>1. PICK x \in U : x.created < k.created
    BY <1>2
  <2>2. x.created > n
    OBVIOUS
  <2> QED BY <1>1, <2>1, <2>2
<1> HIDE DEF Q
<1>5. \A n \in Nat : n \in Q
  BY <1>3, <1>4, SetInduction
<1>6. \A k \in U : k.created > k.created
  BY <1>1, <1>5 DEF Q
<1>7. \A k \in U : FALSE
  BY <1>1, <1>6
<1>8. ASSUME NEW k \in kept PROVE k.protected
  <2>1. k.protected \in BOOLEAN
    BY DEF KeptReport
  <2> QED BY <1>7, <2>1 DEF U
<1> QED BY <1>8

(* Evict, when the reports fit *)
LEMMA EvictEndMoves ==
    ASSUME OneInv, NEW t \in Threads, Fits(call[t]), call[t].pc = "evict",
           Total(call[t].sweep.kept) <= Capacity
               \/ OldestUnprotected(call[t].sweep.kept) = {},
           Enter(t, call[t].sweep.at, "grants"), UNCHANGED <<Disk, mu>>
    PROVE  Moved(t)
<1> DEFINE s == call[t].sweep
           c == Entered(s.at, "grants")
<1>1. call[t].pc \in Held \ Cleaning
  BY DEF Held, FileSteps, Cleaning
<1>2. /\ s \in SweepState /\ s.at <= now /\ s.left = {}
      /\ s.kept = {Kept(q) : q \in Swept(call[t])}
      /\ \A q \in Swept(call[t]) : ~Expired(s.at, report[q])
  BY SweepKnows
<1>3. Swept(call[t]) = Reports
  BY <1>2 DEF Swept
<1>4. ReportsFit
  <2>1. CASE Total(s.kept) <= Capacity
    <3>1. Total(s.kept) = DiskUse
      BY <1>2, <1>3, TotalIsDiskUse DEF OneInv, Fits
    <3> QED BY <2>1, <3>1 DEF ReportsFit
  <2>2. CASE OldestUnprotected(s.kept) = {}
    <3>1. s.kept \in SUBSET KeptReport
      BY <1>2 DEF SweepState
    <3>2. \A k \in s.kept : k.protected
      BY <2>2, <3>1, OldestExists
    <3>3. \A q \in Reports : Kept(q).protected = report[q].retained
      BY DEF Kept
    <3> QED BY <1>2, <1>3, <3>2, <3>3 DEF ReportsFit
  <2> QED BY <2>1, <2>2
<1>5. Goto(t, c)
  BY DEF Enter, Entered
<1>6. c.pc \in Held /\ PendingOK(c) /\ FilesOK(c) /\ SweepOK(c)
  <2>1. "grants" \in Directories /\ s.at \in Nat
    BY <1>2 DEF Directories, SweepState
  <2> QED BY <1>2, <1>3, <1>4, <2>1, EnteredFits
<1> HIDE DEF c
<1> QED BY <1>1, <1>5, <1>6, Stays

(* Evict *)
LEMMA EvictMoves ==
    ASSUME OneInv, NEW t \in Threads, Fits(call[t]), Evict(t)
    PROVE  Moved(t)
<1> DEFINE kept == call[t].sweep.kept
<1>1. call[t].pc = "evict" /\ UNCHANGED <<task, batches, retro, used, issued, acked, now>>
  BY DEF Evict, ids
<1>2. CASE /\ Total(kept) <= Capacity \/ OldestUnprotected(kept) = {}
           /\ Enter(t, call[t].sweep.at, "grants") /\ UNCHANGED <<report, mu>>
  BY <1>1, <1>2, EvictEndMoves DEF Disk
<1>3. ASSUME NEW k \in OldestUnprotected(kept),
             report' = [report EXCEPT ![k.owner] = None],
             \/ /\ report[k.owner] # None
                /\ Goto(t, [call[t] EXCEPT !.sweep.kept = @ \ {k}])
                /\ UNCHANGED mu
             \/ report[k.owner] = None
      PROVE  Moved(t)
  <2>1. k \in kept
    BY DEF OldestUnprotected
  <2> QED BY Zenon, <1>1, <1>3, <2>1, EvictOneMoves
<1> QED BY <1>2, <1>3, Zenon DEF Evict

-----------------------------------------------------------------------------
(* The invariant holds throughout *)

(* A request that arrives, or goes on, keeps the invariant. *)
LEMMA RequestMoves ==
    ASSUME OneInv, NEW t \in Threads, Fits(call[t]),
           Arrive(t) \/ (Acquire(t) /\ ~SummarizePanics(t)) \/ Continue(t)
               \/ FileError(t) \/ SyncError(t)
    PROVE  Moved(t)
<1>1. CASE Arrive(t)
  BY <1>1, SweepMoves, BeginMoves, ReadersMove, DelegateMoves, ExecuteMoves,
     EndMoves, RetainMoves, ForgetMoves, GrantMoves, Zenon DEF Arrive
<1>2. CASE Acquire(t) /\ ~SummarizePanics(t)
  BY <1>2, AppendMoves, CompleteMoves, ReviseMoves, PageMoves, CompleteGrantMoves
  DEF Acquire
<1>3. CASE Continue(t)
  BY <1>3, WriteTaskMoves, WriteBatchMoves, MergeMoves, CompleteMergeMoves,
     WriteReportMoves, RemoveTaskMoves, ListBatchesMoves, RemoveBatchMoves,
     RemoveDirectoryMoves, WriteChainMoves, RemoveReportMoves,
     WriteRetrospectiveMoves, RemoveGrantMoves, SweepReadMoves, SweepRemoveMoves,
     SweepNextMoves, EvictMoves, Zenon
  DEF Continue
<1>4. CASE FileError(t) \/ SyncError(t)
  BY <1>4, FileErrorMoves, SyncErrorMoves
<1> QED BY <1>1, <1>2, <1>3, <1>4

(* Owners are created one at a time, and faults are counted. *)
LEMMA RequestCounts ==
    ASSUME OneInv, NEW t \in Threads,
           Arrive(t) \/ Acquire(t) \/ Continue(t) \/ FileError(t) \/ SyncError(t)
    PROVE  IsFiniteSet(used') /\ faults' <= MaxFaults
<1>1. used' = used \/ \E o \in Owners : used' = used \cup {o}
  <2>1. CASE Arrive(t)
    BY Zenon, <2>1 DEF Arrive, ids, Sweep, Begin, AppendEvents, DelegateOwnedExecutor,
       AppendOwnedExecutorEvents, LoadOwnedTaskForEnd, Verify, RetainOwnedReport,
       ForgetOwnedReport, Summarize, GrantRetrospective, InspectCompletedAuthorized
  <2>2. CASE Acquire(t)
    BY <2>2 DEF Acquire, ids, AppendOwnedEvents, CompleteOwnedTask,
       AppendOwnedRevision, GetCandidatePage, SummarizePanics,
       CompleteRetrospectiveGrant
  <2>3. CASE Continue(t)
    BY Zenon, <2>3 DEF Continue, ids, WriteTask, WriteBatch, MergeAndObserve, CompleteMerge,
       WriteReport, RemoveTask, ListBatches, RemoveBatch, RemoveBatchDirectory,
       WriteChain, RemoveReport, WriteRetrospectiveReport, RemoveGrant, SweepRead,
       SweepRemove, SweepNextDirectory, Evict
  <2>4. CASE FileError(t) \/ SyncError(t)
    BY <2>4 DEF FileError, SyncError, ids
  <2> QED BY <2>1, <2>2, <2>3, <2>4
<1>2. UNCHANGED faults \/ (faults < MaxFaults /\ faults' = faults + 1)
  <2>1. CASE Arrive(t)
    BY Zenon, <2>1 DEF Arrive, Sweep, Begin, AppendEvents, DelegateOwnedExecutor,
       AppendOwnedExecutorEvents, LoadOwnedTaskForEnd, Verify, RetainOwnedReport,
       ForgetOwnedReport, Summarize, GrantRetrospective, InspectCompletedAuthorized
  <2>2. CASE Acquire(t)
    BY <2>2 DEF Acquire, AppendOwnedEvents, CompleteOwnedTask,
       AppendOwnedRevision, GetCandidatePage, SummarizePanics,
       CompleteRetrospectiveGrant
  <2>3. CASE Continue(t)
    BY Zenon, <2>3 DEF Continue, WriteTask, WriteBatch, MergeAndObserve, CompleteMerge,
       WriteReport, RemoveTask, ListBatches, RemoveBatch, RemoveBatchDirectory,
       WriteChain, RemoveReport, WriteRetrospectiveReport, RemoveGrant, SweepRead,
       SweepRemove, SweepNextDirectory, Evict
  <2>4. CASE FileError(t) \/ SyncError(t)
    BY <2>4 DEF FileError, SyncError
  <2> QED BY <2>1, <2>2, <2>3, <2>4
<1>3. IsFiniteSet(used')
  BY <1>1, FS_AddElement DEF OneInv
<1>4. faults' <= MaxFaults
  BY <1>2, TimesAssumption DEF OneInv, Inv, ClockOK
<1> QED BY <1>3, <1>4

(* The store starts empty and idle. *)
LEMMA OneInit == Init => OneInv
<1> SUFFICES ASSUME Init PROVE OneInv
  OBVIOUS
<1>1. Inv
  BY InitOK
<1>2. MutexOK /\ IsFiniteSet(used) /\ faults <= MaxFaults
  <2>1. \A t \in Threads : call[t].pc \notin Held /\ mu[ProcOf[t]] = None
    BY Idle, ThreadsAssumption DEF Init
  <2> QED BY <2>1, FS_EmptySet, NoneAssumption, TimesAssumption DEF Init, MutexOK
<1>3. \A t \in Threads : call[t] = IdleCall /\ PendingOK(call[t])
  BY Idle DEF Init
<1>4. Fits(IdleCall)
  <2>1. OwnersOK
    BY DEF Init, OwnersOK
  <2>2. FilesOK(IdleCall) /\ SweepOK(IdleCall)
    BY Zenon, Idle DEF FilesOK, SweepOK, SweepHeld
  <2>3. FinalOK(IdleCall)
    BY DEF Init, FinalOK
  <2> QED BY <2>1, <2>2, <2>3 DEF Fits
<1> QED BY <1>1, <1>2, <1>3, <1>4 DEF OneInv

(* Every step of the store of one process keeps the invariant. *)
LEMMA OneNext ==
    ASSUME SharedLock, OneInv, [Next]_vars
    PROVE  OneInv'
<1>0. Inv'
  BY NextOK DEF OneInv
<1>1. ASSUME NEW t \in Threads,
             Arrive(t) \/ (Acquire(t) /\ ~SummarizePanics(t)) \/ Continue(t)
                 \/ FileError(t) \/ SyncError(t)
      PROVE  OneInv'
  <2>1. Alone(t) /\ IsFiniteSet(used') /\ faults' <= MaxFaults
    BY <1>1, RequestAlone, RequestCounts
  <2>2. Fits(call[t])
    BY <2>1 DEF OneInv
  <2>3. Moved(t)
    BY <1>1, <2>2, RequestMoves
  <2> QED BY <1>0, <2>1, <2>3, MovedOK
<1>2. ASSUME NEW t \in Threads, SummarizePanics(t)
      PROVE  OneInv'
  <2>1. \A u \in Threads : call[u].pc \notin Held
    BY <1>2, NoneAssumption DEF SummarizePanics, Free, OneInv, MutexOK, SharedLock
  <2>2. /\ Die(ProcOf[t]) /\ ProcOf[t] \in Procs /\ faults' <= MaxFaults
        /\ UNCHANGED <<task, batches, report, retro, used, issued, acked, now>>
    BY <1>2, ThreadsAssumption DEF SummarizePanics, files, ids, OneInv
  <2> QED BY <1>0, <2>1, <2>2, DieMoves
<1>3. ASSUME NEW p \in Procs, Crash(p)
      PROVE  OneInv'
  <2>1. MaxFaults # 0 /\ faults' <= MaxFaults
    BY <1>3, TimesAssumption DEF Crash, OneInv, Inv, ClockOK
  <2>2. Die(p) /\ UNCHANGED <<task, batches, report, retro, used, issued, acked, now>>
    BY <1>3 DEF Crash, files, ids
  <2> QED BY <1>0, <2>1, <2>2, DieMoves
<1>4. CASE Tick \/ UNCHANGED vars
  <2>1. /\ UNCHANGED <<task, batches, report, retro, used, issued, acked, call, mu, faults>>
        /\ now' \in Nat /\ now <= now'
    BY <1>4 DEF Tick, vars, files, ids, OneInv, Inv, ClockOK
  <2>2. MutexOK' /\ faults' <= MaxFaults
    BY <2>1 DEF OneInv, MutexOK
  <2> QED BY <1>0, <2>1, <2>2, NothingMoves
<1> QED BY <1>1, <1>2, <1>3, <1>4 DEF Next, Quiet

(* The invariant holds throughout in one process, crashes and failing file *)
(* operations included.                                                    *)
THEOREM OneInvAlways ==
    ASSUME SharedLock
    PROVE  Spec => []OneInv
<1>1. Init => OneInv
  BY OneInit
<1>2. OneInv /\ [Next]_vars => OneInv'
  BY OneNext
<1> QED BY <1>1, <1>2, PTL DEF Spec

-----------------------------------------------------------------------------
(* What the files show between two steps *)

(* An acknowledged append stays on disk as long as its task. *)
THEOREM AcknowledgedIsKept ==
    ASSUME SharedLock
    PROVE  Spec => []AckedOnDisk
<1>1. OneInv => AckedOnDisk
  BY Whole DEF OwnersOK, AckedOnDisk
<1> QED BY <1>1, OneInvAlways, PTL

(* No stored batch ever makes mergeExecutorEvents deny an End. *)
THEOREM MergeIsNeverDenied ==
    ASSUME SharedLock
    PROVE  Spec => []BatchesGranted
<1>1. OneInv => BatchesGranted
  BY Whole DEF OwnersOK, BatchesGranted
<1> QED BY <1>1, OneInvAlways, PTL

(* A sweep that is through with the reports has left none that had expired *)
(* and no more than the capacity allows, retained reports excepted.        *)
THEOREM SweepIsThorough ==
    ASSUME SharedLock
    PROVE  Spec => []SweepBoundsReports
<1>1. OneInv => SweepBoundsReports
  <2> SUFFICES ASSUME OneInv, NEW t \in Threads, call[t].sweep # None,
                      call[t].sweep.dir = "grants"
               PROVE  /\ \A o \in Reports : ~Expired(call[t].sweep.at, report[o])
                      /\ \/ DiskUse <= Capacity
                         \/ \A o \in Reports : report[o].retained
    BY DEF SweepBoundsReports
  <2>1. call[t].pc \in SweepHeld /\ Fits(call[t])
    BY SweeperHolds, HolderFits
  <2> QED BY <2>1 DEF Fits, SweepOK, ReportsFit
<1> QED BY <1>1, OneInvAlways, PTL

(* Outside CompleteOwnedTask a report has no task beside it and no batch   *)
(* outlives its task, when every request gets to its end.                  *)
THEOREM EndingIsFinal ==
    ASSUME SharedLock, MaxFaults = 0
    PROVE  Spec => []EndIsFinal
<1>1. OneInv => EndIsFinal
  <2> SUFFICES ASSUME OneInv, NEW o \in Owners, ~Completing(o)
               PROVE  /\ report[o] # None => task[o] = None
                      /\ task[o] = None => batches[o] = {}
    BY DEF EndIsFinal, ExecutorsRevoked
  <2>1. CASE FinalOK(IdleCall)
    BY <2>1, Idle DEF FinalOK
  <2>2. ASSUME NEW t \in Threads, FinalOK(call[t])
        PROVE  /\ report[o] # None => task[o] = None
               /\ task[o] = None => batches[o] = {}
    BY <2>2 DEF FinalOK, Completing
  <2> QED BY <2>1, <2>2, SomeoneRepairs
<1> QED BY <1>1, OneInvAlways, PTL

(* A grant is good for one report: CompleteRetrospectiveGrant finds none,  *)
(* when every request gets to its end.                                     *)
THEOREM GrantIsSingleUse ==
    ASSUME SharedLock, MaxFaults = 0
    PROVE  Spec => []GrantSingleUse
<1>1. OneInv => GrantSingleUse
  <2> SUFFICES ASSUME OneInv, NEW t \in Threads, call[t].pc = "retroWrite"
               PROVE  report[call[t].owner] = None
    BY DEF GrantSingleUse
  <2>1. call[t].owner \in Owners /\ call[t].pc \in Held
    BY Holding DEF Held, FileSteps
  <2> QED BY Zenon, <2>1, HolderFits DEF Fits, FilesOK, FinalOK
<1> QED BY <1>1, OneInvAlways, PTL

-----------------------------------------------------------------------------
(* What a step may do *)

(* As long as a task loads, sweeps leave its record and batches alone. *)
THEOREM SweepSparesObservations ==
    ASSUME SharedLock
    PROVE  Spec => SweepSparesActive
<1> DEFINE A == (\E t \in Threads : call[t].sweep # None) =>
                    \A o \in Owners : Loads(o) => /\ task'[o] = task[o]
                                                 /\ batches'[o] = batches[o]
<1>1. OneInv /\ [Next]_vars => [A]_files
  BY SweepStep
<1> QED BY <1>1, OneInvAlways, PTL DEF Spec, SweepSparesActive

(* The step that takes a report away from a sweep that evicts. *)
LEMMA EvictStep ==
    ASSUME SharedLock, OneInv, [Next]_vars, NEW t \in Threads, call[t].pc = "evict",
           NEW o \in Reports, report'[o] = None
    PROVE  /\ DiskUse > Capacity
           /\ ~report[o].retained
           /\ \A q \in Reports : ~report[q].retained
                 => report[o].created <= report[q].created
<1> DEFINE kept == call[t].sweep.kept
<1>1. call[t].pc \in Held /\ Fits(call[t])
  BY HolderFits DEF Held, FileSteps
<1>2. o \in Owners /\ report[o] # None
  BY DEF Reports
<1>3. Evict(t)
  <2>1. ~UNCHANGED report
    BY <1>2
  <2>2. ~UNCHANGED files /\ ~FileError(t) /\ ~SyncError(t)
    BY <2>1 DEF files, FileError, SyncError
  <2>3. Continue(t)
    BY <1>1, <2>2, OnlyHolder
  <2> QED BY <2>3 DEF Continue, WriteTask, WriteBatch, MergeAndObserve, CompleteMerge,
          WriteReport, RemoveTask, ListBatches, RemoveBatch, RemoveBatchDirectory,
          WriteChain, RemoveReport, WriteRetrospectiveReport, RemoveGrant, SweepRead,
          SweepRemove, SweepNextDirectory
<1>4. call[t].sweep.left = {} /\ kept = {Kept(q) : q \in Swept(call[t])}
  BY <1>1, SweepKnows
<1>5. Swept(call[t]) = Reports
  BY <1>4 DEF Swept
<1>6. PICK k \in OldestUnprotected(kept) :
          Total(kept) > Capacity /\ report' = [report EXCEPT ![k.owner] = None]
  BY <1>2, <1>3, Zenon DEF Evict
<1>7. \A q \in Reports : /\ Kept(q).owner = q /\ Kept(q).created = report[q].created
                         /\ Kept(q).protected = report[q].retained
  BY DEF Kept
<1>8. k.owner = o
  BY <1>2, <1>6 DEF OneInv, Inv, ReportsOK
<1>9. k \in kept /\ ~k.protected
      /\ \A other \in kept : ~other.protected => k.created <= other.created
  BY <1>6 DEF OldestUnprotected
<1>10. k = Kept(o)
  BY <1>4, <1>5, <1>7, <1>8, <1>9
<1>11. DiskUse > Capacity
  BY Zenon, <1>1, <1>4, <1>5, <1>6, TotalIsDiskUse DEF OneInv, Fits
<1>12. ~report[o].retained
  BY <1>7, <1>9, <1>10
<1>13. \A q \in Reports : ~report[q].retained => report[o].created <= report[q].created
  BY <1>4, <1>5, <1>7, <1>9, <1>10
<1> QED BY <1>11, <1>12, <1>13

(* Eviction takes only what it must: the reports exceed the capacity, the  *)
(* one that goes is not retained, and no unretained report is older.       *)
THEOREM EvictionTakesOldest ==
    ASSUME SharedLock
    PROVE  Spec => EvictsOldest
<1> DEFINE A == \A t \in Threads, o \in Reports :
                    call[t].pc = "evict" /\ report'[o] = None =>
                        /\ DiskUse > Capacity
                        /\ ~report[o].retained
                        /\ \A q \in Reports : ~report[q].retained
                              => report[o].created <= report[q].created
<1>1. OneInv /\ [Next]_vars => [A]_report
  BY EvictStep
<1> QED BY <1>1, OneInvAlways, PTL DEF Spec, EvictsOldest

(* The step in which LoadOwnedTaskForEnd merges the executor batches. *)
LEMMA MergeStep ==
    ASSUME SharedLock, OneInv, [Next]_vars, NEW t \in Threads,
           call[t].pc = "endMerge", call'[t].pc = "complete",
           call'[t].rep.body.mode = "OBSERVED"
    PROVE  acked[call[t].owner] \subseteq call'[t].rep.body.events
<1> DEFINE c == call[t]
<1>1. c.pc \in Held /\ Fits(c) /\ c.owner \in Owners
  BY Holding, HolderFits DEF Held
<1>2. ASSUME NEW r \in EndReports(c.rec, batches[c.owner]),
             Goto(t, [IdleCall EXCEPT !.pc = "complete", !.owner = c.owner, !.rep = r])
      PROVE  acked[c.owner] \subseteq call'[t].rep.body.events
  <2> DEFINE d == [IdleCall EXCEPT !.pc = "complete", !.owner = c.owner, !.rep = r]
  <2>0. call'[t] = d
    <3>1. Goto(t, d)
      BY <1>2
    <3> HIDE DEF d
    <3> QED BY <3>1, Went DEF OneInv
  <2>1. call'[t].rep = r
    BY <2>0 DEF IdleCall
  <2> HIDE DEF d
  <2>2. r.body.mode = "OBSERVED"
    BY <2>1
  <2>3. r.body.events = c.rec.events \cup BatchEvents(batches[c.owner])
    BY <1>2, <2>2 DEF EndReports, NewReport
  <2>4. c.rec = task[c.owner] /\ task[c.owner] # None
    BY <1>1 DEF Fits, FilesOK
  <2>5. acked[c.owner] \subseteq task[c.owner].events \cup BatchEvents(batches[c.owner])
    BY <1>1, <2>4 DEF Fits, OwnersOK
  <2> QED BY <2>1, <2>3, <2>4, <2>5
<1>3. MergeAndObserve(t)
  <2>1. ASSUME NEW u \in Threads,
               Arrive(u) \/ (Acquire(u) /\ ~SummarizePanics(u)) \/ Continue(u)
                   \/ FileError(u) \/ SyncError(u)
        PROVE  u = t
    <3>1. Fits(call[u])
      BY <2>1, RequestAlone DEF OneInv
    <3>2. Moved(u)
      BY <2>1, <3>1, RequestMoves
    <3> QED BY <3>2 DEF Moved
  <2>2. ~\E u \in Threads : SummarizePanics(u)
    BY <1>1, NoneAssumption DEF SummarizePanics, Free, OneInv, MutexOK, SharedLock
  <2>3. ~Tick /\ ~Quiet /\ ~UNCHANGED vars
    BY DEF Tick, Quiet, vars
  <2>4. ~\E p \in Procs : Crash(p)
    BY DEF Crash, Die, IdleCall
  <2>5. ~Arrive(t) /\ ~Acquire(t) /\ ~FileError(t) /\ ~SyncError(t)
    <3>1. ~Free(t)
      BY Zenon, <1>1, NoneAssumption DEF Free, OneInv, MutexOK
    <3>2. ~Arrive(t)
      BY Zenon, <3>1 DEF Arrive, Sweep, Begin, AppendEvents, DelegateOwnedExecutor,
         AppendOwnedExecutorEvents, LoadOwnedTaskForEnd, Verify, RetainOwnedReport,
         ForgetOwnedReport, Summarize, GrantRetrospective, InspectCompletedAuthorized
    <3>3. ~Acquire(t)
      BY <3>1 DEF Acquire, AppendOwnedEvents, CompleteOwnedTask, AppendOwnedRevision,
         GetCandidatePage, SummarizePanics, CompleteRetrospectiveGrant
    <3> QED BY <3>2, <3>3 DEF FileError, SyncError, FileSteps
  <2>6. Continue(t)
    BY Zenon, <2>1, <2>2, <2>3, <2>4, <2>5 DEF Next
  <2> QED BY <2>6 DEF Continue, WriteTask, WriteBatch, CompleteMerge,
          WriteReport, RemoveTask, ListBatches, RemoveBatch, RemoveBatchDirectory,
          WriteChain, RemoveReport, WriteRetrospectiveReport, RemoveGrant, SweepRead,
          SweepRemove, SweepNextDirectory, Evict
<1>4. ~Return(t)
  BY Zenon, Went, Idle DEF Return, OneInv
<1> QED BY Zenon, <1>2, <1>3, <1>4 DEF MergeAndObserve

(* The report of a successful observation holds every event that had been  *)
(* acknowledged when the batches were merged.                              *)
THEOREM ReportHoldsAcknowledged ==
    ASSUME SharedLock
    PROVE  Spec => EndSeesAcked
<1> DEFINE A == \A t \in Threads :
                    call[t].pc = "endMerge" /\ call'[t].pc = "complete"
                    /\ call'[t].rep.body.mode = "OBSERVED"
                        => acked[call[t].owner] \subseteq call'[t].rep.body.events
<1>1. OneInv /\ [Next]_vars => [A]_vars
  BY MergeStep
<1> QED BY <1>1, OneInvAlways, PTL DEF Spec, EndSeesAcked

-----------------------------------------------------------------------------
(* The life of the files of one owner *)

(* When every request gets to its end, a report file is only ever rewritten *)
(* by one that holds the same report and all of its revisions.             *)
THEOREM HistoryGrows ==
    ASSUME SharedLock, MaxFaults = 0
    PROVE  Spec => HistoryAppendOnly
<1> DEFINE A == \A o \in Owners : report[o] # None /\ report'[o] # None
                    => Continues(report[o], report'[o])
<1>1. OneInv /\ [Next]_vars => [A]_report
  <2> SUFFICES ASSUME OneInv, [Next]_vars, NEW q \in Owners, report[q] # None,
                      report'[q] # None
               PROVE  Continues(report[q], report'[q])
    OBVIOUS
  <2>0. report[q] \in ReportFile
    BY DEF OneInv, Inv, ReportsOK
  <2>1. CASE report'[q] = report[q]
    <3>1. report[q].revisions \in Seq(Revision) /\ report[q].expires \in Nat
      BY <2>0 DEF ReportFile
    <3> QED BY <2>1, <3>1 DEF Continues, KeepsRevisions
  <2>2. CASE report'[q] # report[q]
    <3>1. PICK o \in Owners : Effect(o)
      BY <2>2, StepEffect DEF Files
    <3>2. Extends(q)
      BY <2>2, <3>1 DEF Effect, Others, Opens, Keeps, Ends, Publishes, Drops, Fits
    <3> QED BY <3>2, ExtensionContinues DEF Extends
  <2> QED BY <2>1, <2>2
<1> QED BY <1>1, OneInvAlways, PTL DEF Spec, HistoryAppendOnly

(* In one process the rewrite of a report by Verify or Retain keeps every  *)
(* revision, crashes and failing file operations included.                 *)
THEOREM RevisionsStay ==
    ASSUME SharedLock
    PROVE  Spec => RevisionsKept
<1> DEFINE A == \A t \in Threads : WriteChain(t) /\ report[call[t].owner] # None
                    => KeepsRevisions(report[call[t].owner], report'[call[t].owner])
<1>1. OneInv /\ [Next]_vars => [A]_report
  <2> SUFFICES ASSUME OneInv, NEW t \in Threads, WriteChain(t),
                      report[call[t].owner] # None
               PROVE  KeepsRevisions(report[call[t].owner], report'[call[t].owner])
    OBVIOUS
  <2> DEFINE o == call[t].owner
  <2>1. call[t].pc = "chainWrite" /\ call[t].pc \in Held
        /\ report' = [report EXCEPT ![o] = call[t].rep]
    BY DEF WriteChain, Held, FileSteps
  <2>2. o \in Owners /\ call[t].rep \in ReportFile /\ Fits(call[t])
    BY <2>1, Holding, HolderFits
  <2>3. Extension(report[o], call[t].rep) /\ report[o] \in ReportFile
    BY Zenon, <2>1, <2>2 DEF Fits, FilesOK, OneInv, Inv, ReportsOK
  <2>4. report'[o] = call[t].rep
    BY <2>1, <2>2 DEF OneInv, Inv, ReportsOK
  <2> QED BY <2>2, <2>3, <2>4, ExtensionContinues DEF Continues
<1> QED BY <1>1, OneInvAlways, PTL DEF Spec, RevisionsKept

-----------------------------------------------------------------------------
(* The store implements ReportChain *)

(* The store of one process whose requests all get to their end implements *)
(* ReportChain: one report per observation or grant, extended by one       *)
(* verification at a time, and gone for good once it is gone.              *)
THEOREM StoreImplementsReportChain ==
    ASSUME SharedLock, MaxFaults = 0
    PROVE  Spec => ImplementsReportChain
<1>1. Init => Chain!Init
  BY DEF Init, Chain!Init, PhaseOf, ChainOf
<1>2. OneInv /\ [Next]_vars => [Chain!Next]_(Chain!vars)
  <2> SUFFICES ASSUME OneInv, [Next]_vars PROVE [Chain!Next]_(Chain!vars)
    OBVIOUS
  <2>1. CASE UNCHANGED Files
    BY <2>1 DEF Files, Chain!vars, PhaseOf, ChainOf
  <2>2. ASSUME NEW o \in Owners, Effect(o) PROVE [Chain!Next]_(Chain!vars)
    BY <2>2, Whole, EffectLinks, LinksStep DEF Effect
  <2> QED BY <2>1, <2>2, StepEffect
<1> QED BY <1>1, <1>2, OneInvAlways, PTL DEF Spec, ImplementsReportChain, Chain!Spec

=============================================================================
