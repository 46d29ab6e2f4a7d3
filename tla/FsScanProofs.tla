---------------------------- MODULE FsScanProofs ----------------------------
(***************************************************************************)
(* Proofs about FsScan, for every tree of paths, every set of inodes,      *)
(* sizes and events, and every limit: the comparison of two scans is exact *)
(* for all that holds still, a replaced root is refused or shown in full,  *)
(* and a candidate that nobody touched is found again.                     *)
(*                                                                         *)
(* The difficulty is that the tree moves during a scan.  What a scan is    *)
(* good for is said about the sets of paths that are closed upwards: while *)
(* an untouched path has not been recorded, every such set it belongs to   *)
(* holds a path that is still to be visited (ScanOK).                      *)
(***************************************************************************)
EXTENDS FsScan, TLAPS

(* Sets of paths that hold the directory of each of their members. *)
Upwards(S) ==
    /\ S \subseteq Paths \cup {Root}
    /\ \A q \in S \cap Paths : ParentOf[q] \in S

(* p is what it was at time t. *)
Still(p, t) == tree[p] # None /\ tree[p].mtime <= t

Reports ==
    [status: {"NONE", "OBSERVATION_FAILED", "PARTIAL_EVIDENCE", "NO_CANDIDATES",
              "REVIEW_REQUIRED"},
     candidates: UNION {[D -> Candidate] : D \in SUBSET Paths}]

(* The types, of the fields of base and report too. *)
TypeInv ==
    /\ tree \in [Paths -> Object \cup {None}]
    /\ rootID \in RootInodes /\ clock \in 0..MaxChanges
    /\ phase \in {"idle", "capture", "active", "compare", "inspect", "reported"}
    /\ rootSeen \in RootInodes \cup {None}
    /\ Scanning => rootSeen \in RootInodes
    /\ todo \subseteq Paths \cup {Root}
    /\ entries \in [Paths -> Object \cup {None}]
    /\ base \in [root: RootInodes \cup {None},
                 entries: [Paths -> Object \cup {None}]]
    /\ phase \in {"active", "compare"} => base.root \in RootInodes
    /\ report \in Reports
    /\ ghost \in [{"scan", "baseFrom", "baseTo", "root"} -> 0..MaxChanges]

(* Nothing bears a time that has not come. *)
TimesOK ==
    /\ ghost.scan <= clock /\ ghost.root <= clock
    /\ ghost.baseFrom <= ghost.baseTo /\ ghost.baseTo <= clock
    /\ phase = "compare" => ghost.baseTo <= ghost.scan
    /\ \A p \in Paths : tree[p] # None => tree[p].mtime <= clock
    /\ \A p \in Paths : entries[p] # None => entries[p].mtime <= clock

(* What exists is in a directory that exists. *)
TreeOK == \A p \in Paths : tree[p] # None => ParentOf[p] \in Recorded(tree) \cup {Root}

(* A path that holds still since the scan began is recorded as it is, or   *)
(* the walk has yet to come to it or to a directory above it.              *)
ScanOK ==
    Scanning =>
        \A p \in Paths : Still(p, ghost.scan) =>
            \/ entries[p] = tree[p]
            \/ \A S \in SUBSET (Paths \cup {Root}) :
                  Upwards(S) /\ p \in S => S \cap todo # {}

(* The baseline has what held still since Begin as it is, and nothing from *)
(* after its end.                                                          *)
BaseOK ==
    phase \in {"active", "compare"} =>
        /\ \A p \in Paths : base.entries[p] # None => base.entries[p].mtime <= ghost.baseTo
        /\ \A p \in Paths : Still(p, ghost.baseFrom) => base.entries[p] = tree[p]

(* What is in the root is no older than the root. *)
RootOK == \A p \in Paths : tree[p] # None => tree[p].mtime > ghost.root

(* A candidate that holds still since the scan is what the report says. *)
ReportOK ==
    phase = "reported" =>
        \A p \in DOMAIN report.candidates : Still(p, ghost.scan) =>
            /\ report.candidates[p].ino = tree[p].ino
            /\ report.candidates[p].size = tree[p].size

Inv ==
    /\ TypeInv /\ TimesOK /\ TreeOK /\ ScanOK /\ BaseOK /\ RootOK /\ ReportOK

-----------------------------------------------------------------------------
(* The file system *)

(* A change leaves a file alone, removes it, or gives it the next time.    *)
Moves ==
    /\ clock < MaxChanges /\ clock' = clock + 1
    /\ tree' \in [Paths -> Object \cup {None}]
    /\ \A p \in Paths :
          tree'[p] # None => tree'[p] = tree[p] \/ tree'[p].mtime = clock + 1
    /\ UNCHANGED service
    /\ ghost' \in [{"scan", "baseFrom", "baseTo", "root"} -> 0..MaxChanges]
    /\ ghost'.scan = ghost.scan
    /\ ghost'.baseFrom = ghost.baseFrom /\ ghost'.baseTo = ghost.baseTo

(* So what holds still after a change held still before it, and is the     *)
(* same: the file system cannot disturb what a scan, a baseline or a       *)
(* report says of it (snapshot, Compare, VerifyCandidate).                 *)
LEMMA MovesOK ==
    ASSUME Inv, Moves
    PROVE  ScanOK' /\ BaseOK' /\ ReportOK'
<1> USE DEF Inv, Moves
<1>1. /\ phase' = phase /\ rootSeen' = rootSeen /\ todo' = todo
      /\ entries' = entries /\ base' = base /\ report' = report
  BY DEF service
<1>2. clock \in Int /\ ghost.scan \in Int /\ ghost.baseFrom \in Int /\ ghost.baseTo \in Int
      /\ ghost.scan <= clock /\ ghost.baseFrom <= clock
  BY LimitsAssumption DEF TypeInv, TimesOK
<1>3. ASSUME NEW p \in Paths, NEW t \in Int, t <= clock, Still(p, t)'
      PROVE  Still(p, t) /\ tree'[p] = tree[p]
  BY <1>2, <1>3 DEF Still
<1>4. ScanOK'
  <2> SUFFICES ASSUME Scanning', NEW p \in Paths, Still(p, ghost.scan)'
               PROVE  \/ entries[p] = tree[p]'
                      \/ \A S \in SUBSET (Paths \cup {Root}) :
                            Upwards(S) /\ p \in S => S \cap todo # {}
    BY <1>1 DEF ScanOK, Upwards
  <2>1. Still(p, ghost.scan) /\ tree'[p] = tree[p]
    BY <1>2, <1>3 DEF Still
  <2>2. Scanning
    BY <1>1 DEF Scanning
  <2> QED BY <2>1, <2>2 DEF ScanOK
<1>5. BaseOK'
  <2> SUFFICES ASSUME phase \in {"active", "compare"}
               PROVE  /\ \A p \in Paths : base.entries[p] # None =>
                            base.entries[p].mtime <= ghost.baseTo
                      /\ \A p \in Paths : Still(p, ghost.baseFrom)' =>
                            base.entries[p] = tree'[p]
    BY <1>1 DEF BaseOK
  <2>1. ASSUME NEW p \in Paths, Still(p, ghost.baseFrom)'
        PROVE  Still(p, ghost.baseFrom) /\ tree'[p] = tree[p]
    BY <1>2, <1>3, <2>1 DEF Still
  <2> QED BY <2>1 DEF BaseOK
<1>6. ReportOK'
  <2> SUFFICES ASSUME phase = "reported",
                      NEW p \in DOMAIN report.candidates, Still(p, ghost.scan)'
               PROVE  /\ report.candidates[p].ino = tree'[p].ino
                      /\ report.candidates[p].size = tree'[p].size
    BY <1>1 DEF ReportOK
  <2>1. p \in Paths
    BY DEF TypeInv, Reports
  <2>2. Still(p, ghost.scan) /\ tree'[p] = tree[p]
    BY <1>2, <1>3, <2>1 DEF Still
  <2> QED BY <2>2 DEF ReportOK
<1> QED BY <1>4, <1>5, <1>6

(* A touched directory keeps all but its time. *)
LEMMA TouchedOK ==
    ASSUME NEW tr \in [Paths -> Object \cup {None}], NEW d \in Paths \cup {Root},
           clock \in 0..MaxChanges, clock < MaxChanges
    PROVE  /\ Touched(tr, d) \in [Paths -> Object \cup {None}]
           /\ \A p \in Paths :
                 /\ Touched(tr, d)[p] = None <=> tr[p] = None
                 /\ Touched(tr, d)[p] = tr[p] \/ Touched(tr, d)[p].mtime = clock + 1
<1>1. clock + 1 \in 1..MaxChanges
  BY LimitsAssumption
<1>2. CASE d \in Paths /\ tr[d] # None
  <2> DEFINE o == [tr[d] EXCEPT !.mtime = clock + 1]
  <2>1. o \in Object /\ o.mtime = clock + 1
    BY <1>1, <1>2 DEF Object
  <2>2. Touched(tr, d) = [tr EXCEPT ![d] = o]
    BY <1>2 DEF Touched
  <2>3. o # None
    BY <2>1, NoneAssumption
  <2> HIDE DEF o
  <2> QED BY <1>2, <2>1, <2>2, <2>3
<1>3. CASE ~(d \in Paths /\ tr[d] # None)
  BY <1>3 DEF Touched
<1> QED BY <1>2, <1>3

(* The directory of a path is a path or the root. *)
LEMMA ParentType == \A p \in Paths : ParentOf[p] \in Paths \cup {Root}
BY ParentAssumption

(* The rest of the invariant, for a change that keeps the root. *)
LEMMA ChangeOK ==
    ASSUME Inv, Moves, UNCHANGED <<rootID, ghost>>,
           \A p \in Paths : tree'[p] # None =>
               ParentOf[p] = Root \/ tree'[ParentOf[p]] # None
    PROVE  Inv'
<1> USE LimitsAssumption
<1>0. /\ phase' = phase /\ rootSeen' = rootSeen /\ todo' = todo
      /\ entries' = entries /\ base' = base /\ report' = report
  BY DEF service, Moves
<1>1. TypeInv'
  BY <1>0 DEF Inv, Moves, TypeInv, Scanning
<1>2. TimesOK'
  BY <1>0, <1>1 DEF Inv, Moves, TypeInv, TimesOK, Object
<1>3. TreeOK'
  BY ParentType DEF TreeOK, Recorded
<1>4. RootOK'
  BY DEF Inv, Moves, RootOK, TypeInv, TimesOK
<1> QED BY <1>1, <1>2, <1>3, <1>4, MovesOK DEF Inv

(* Creating a file or a directory. *)
LEMMA CreateOK ==
    ASSUME Inv, NEW p \in Paths, NEW ino \in Inodes, NEW size \in Sizes,
           Create(p, ino, size)
    PROVE  Inv'
<1> DEFINE o == [ino |-> ino, size |-> size, mtime |-> clock + 1]
           tr == [tree EXCEPT ![p] = o]
<1>1. clock \in 0..MaxChanges /\ clock < MaxChanges
      /\ tree \in [Paths -> Object \cup {None}] /\ TreeOK
      /\ ghost \in [{"scan", "baseFrom", "baseTo", "root"} -> 0..MaxChanges]
  BY DEF Inv, TypeInv, Create, Changes
<1>2. o \in Object /\ o.mtime = clock + 1
  BY <1>1, LimitsAssumption DEF Object
<1>3. tree' = Touched(tr, ParentOf[p]) /\ UNCHANGED <<rootID, service, ghost>>
      /\ clock' = clock + 1 /\ (ParentOf[p] = Root \/ tree[ParentOf[p]] # None)
  BY DEF Create, Changes, Recorded
<1>4. o # None
  BY <1>2, NoneAssumption
<1> HIDE DEF o
<1>5. tr \in [Paths -> Object \cup {None}] /\ tr[p] = o
      /\ \A q \in Paths : q # p => tr[q] = tree[q]
  BY <1>1, <1>2
<1> HIDE DEF tr
<1>6. /\ tree' \in [Paths -> Object \cup {None}]
      /\ \A q \in Paths :
            /\ tree'[q] = None <=> tr[q] = None
            /\ tree'[q] = tr[q] \/ tree'[q].mtime = clock + 1
  BY <1>1, <1>3, <1>5, TouchedOK, ParentType
<1>7. Moves
  BY <1>1, <1>2, <1>3, <1>5, <1>6 DEF Moves
<1>8. ASSUME NEW q \in Paths, tree'[q] # None
      PROVE  ParentOf[q] = Root \/ tree'[ParentOf[q]] # None
  BY <1>1, <1>3, <1>4, <1>5, <1>6, <1>8, ParentType DEF TreeOK, Recorded
<1> QED BY <1>3, <1>7, <1>8, ChangeOK

(* What a write makes of an object. *)
LEMMA Rewritten ==
    ASSUME NEW a \in Object, NEW size, NEW time
    PROVE  [a EXCEPT !.size = size, !.mtime = time]
             = [ino |-> a.ino, size |-> size, mtime |-> time]
<1>1. a = [ino |-> a.ino, size |-> a.size, mtime |-> a.mtime]
  BY DEF Object
<1>2. [a EXCEPT !.size = size] = [ino |-> a.ino, size |-> size, mtime |-> a.mtime]
  BY <1>1
<1>3. [[ino |-> a.ino, size |-> size, mtime |-> a.mtime] EXCEPT !.mtime = time]
        = [ino |-> a.ino, size |-> size, mtime |-> time]
  OBVIOUS
<1> QED BY <1>2, <1>3

(* Writing a file. *)
LEMMA WriteFileOK ==
    ASSUME Inv, NEW p \in Paths, NEW size \in Sizes, WriteFile(p, size)
    PROVE  Inv'
<1> DEFINE o == [ino |-> tree[p].ino, size |-> size, mtime |-> clock + 1]
<1>1. clock \in 0..MaxChanges /\ clock < MaxChanges
      /\ tree \in [Paths -> Object \cup {None}] /\ TreeOK
      /\ ghost \in [{"scan", "baseFrom", "baseTo", "root"} -> 0..MaxChanges]
      /\ tree[p] \in Object
  BY DEF Inv, TypeInv, WriteFile, Changes
<1>2. o \in Object /\ o.mtime = clock + 1
  BY <1>1, LimitsAssumption DEF Object
<1>3. tree' = [tree EXCEPT ![p] = o] /\ UNCHANGED <<rootID, service, ghost>>
      /\ clock' = clock + 1 /\ tree[p] # None
  BY <1>1, Rewritten DEF WriteFile, Changes
<1>4. o # None
  BY <1>2, NoneAssumption
<1> HIDE DEF o
<1>5. tree' \in [Paths -> Object \cup {None}] /\ tree'[p] = o
      /\ \A q \in Paths : q # p => tree'[q] = tree[q]
  BY <1>1, <1>2, <1>3
<1>7. Moves
  BY <1>1, <1>2, <1>3, <1>5 DEF Moves
<1>8. ASSUME NEW q \in Paths, tree'[q] # None
      PROVE  ParentOf[q] = Root \/ tree'[ParentOf[q]] # None
  BY <1>1, <1>3, <1>4, <1>5, <1>8, ParentType DEF TreeOK, Recorded
<1> QED BY <1>3, <1>7, <1>8, ChangeOK

(* Deleting a file or an empty directory. *)
LEMMA DeleteOK ==
    ASSUME Inv, NEW p \in Paths, Delete(p)
    PROVE  Inv'
<1> DEFINE tr == [tree EXCEPT ![p] = None]
<1>1. clock \in 0..MaxChanges /\ clock < MaxChanges
      /\ tree \in [Paths -> Object \cup {None}] /\ TreeOK
      /\ ghost \in [{"scan", "baseFrom", "baseTo", "root"} -> 0..MaxChanges]
  BY DEF Inv, TypeInv, Delete, Changes
<1>3. tree' = Touched(tr, ParentOf[p]) /\ UNCHANGED <<rootID, service, ghost>>
      /\ clock' = clock + 1
      /\ \A q \in Paths : ParentOf[q] = p => tree[q] = None
  BY DEF Delete, Changes, Children
<1>5. tr \in [Paths -> Object \cup {None}] /\ tr[p] = None
      /\ \A q \in Paths : q # p => tr[q] = tree[q]
  BY <1>1
<1> HIDE DEF tr
<1>6. /\ tree' \in [Paths -> Object \cup {None}]
      /\ \A q \in Paths :
            /\ tree'[q] = None <=> tr[q] = None
            /\ tree'[q] = tr[q] \/ tree'[q].mtime = clock + 1
  BY <1>1, <1>3, <1>5, TouchedOK, ParentType
<1>7. Moves
  BY <1>1, <1>3, <1>5, <1>6 DEF Moves
<1>8. ASSUME NEW q \in Paths, tree'[q] # None
      PROVE  ParentOf[q] = Root \/ tree'[ParentOf[q]] # None
  BY <1>1, <1>3, <1>5, <1>6, <1>8, ParentType DEF TreeOK, Recorded
<1> QED BY <1>3, <1>7, <1>8, ChangeOK

(* Replacing the root, which leaves no file of before. *)
LEMMA ReplaceRootOK ==
    ASSUME Inv, NEW ino \in RootInodes, ReplaceRoot(ino)
    PROVE  Inv'
<1> USE LimitsAssumption
<1>0. /\ phase' = phase /\ rootSeen' = rootSeen /\ todo' = todo
      /\ entries' = entries /\ base' = base /\ report' = report
      /\ rootID' = ino /\ clock' = clock + 1 /\ clock < MaxChanges
      /\ tree' = Nothing /\ ghost' = [ghost EXCEPT !.root = clock + 1]
  BY DEF service, ReplaceRoot, Changes
<1>1. /\ ghost' \in [{"scan", "baseFrom", "baseTo", "root"} -> 0..MaxChanges]
      /\ ghost'.scan = ghost.scan /\ ghost'.root = clock + 1
      /\ ghost'.baseFrom = ghost.baseFrom /\ ghost'.baseTo = ghost.baseTo
  BY <1>0 DEF Inv, TypeInv
<1>2. tree' \in [Paths -> Object \cup {None}] /\ \A p \in Paths : tree'[p] = None
  BY <1>0 DEF Nothing
<1>3. Moves
  BY <1>0, <1>1, <1>2 DEF Moves, service
<1>4. TypeInv'
  BY <1>0, <1>1, <1>2 DEF Inv, TypeInv, Scanning, TimesOK
<1>5. TimesOK'
  BY <1>0, <1>1, <1>2 DEF Inv, TypeInv, TimesOK, Object
<1>6. TreeOK'
  BY <1>2 DEF TreeOK
<1>7. RootOK'
  BY <1>2 DEF RootOK
<1> QED BY <1>3, <1>4, <1>5, <1>6, <1>7, MovesOK DEF Inv

-----------------------------------------------------------------------------
(* The scan *)

(* A scan starts with the root to visit, which is above every path. *)
LEMMA StartScanOK ==
    ASSUME Inv, NEW next \in {"capture", "compare", "inspect"}, StartScan(next),
           next = "compare" <=> phase = "active"
    PROVE  Inv'
<1> USE LimitsAssumption
<1>0. /\ phase' = next /\ rootSeen' = rootID /\ todo' = {Root} /\ entries' = Nothing
      /\ ghost' = [ghost EXCEPT !.scan = clock]
      /\ UNCHANGED <<tree, rootID, clock, base, report>>
  BY DEF StartScan
<1>1. /\ ghost' \in [{"scan", "baseFrom", "baseTo", "root"} -> 0..MaxChanges]
      /\ ghost'.scan = clock /\ ghost'.root = ghost.root
      /\ ghost'.baseFrom = ghost.baseFrom /\ ghost'.baseTo = ghost.baseTo
  BY <1>0 DEF Inv, TypeInv
<1>2. entries' \in [Paths -> Object \cup {None}] /\ \A p \in Paths : entries'[p] = None
  BY <1>0 DEF Nothing
<1>3. TypeInv'
  BY <1>0, <1>1, <1>2 DEF Inv, TypeInv, Scanning
<1>4. TimesOK'
  BY <1>0, <1>1, <1>2 DEF Inv, TypeInv, TimesOK
<1>5. TreeOK'
  BY <1>0 DEF Inv, TreeOK, Recorded
<1>6. ScanOK'
  <2>1. ASSUME NEW S \in SUBSET (Paths \cup {Root}), NEW p \in S, Upwards(S)
        PROVE  S \cap {Root} # {}
    BY <2>1, BelowAssumption DEF Upwards
  <2> QED BY <1>0, <2>1 DEF ScanOK, Upwards
<1>7. BaseOK'
  BY <1>0, <1>1 DEF Inv, BaseOK, Still
<1>8. RootOK'
  BY <1>0, <1>1 DEF Inv, RootOK, TypeInv, TimesOK
<1>9. ReportOK'
  BY <1>0 DEF Inv, ReportOK
<1> QED BY <1>3, <1>4, <1>5, <1>6, <1>7, <1>8, <1>9 DEF Inv

(* Visiting q.  An upward closed set whose only path to visit is q has     *)
(* one of q's children, which is listed now; or else, without q and what   *)
(* is gone, it is still closed upwards, and had nothing to visit.          *)
LEMMA VisitScanOK ==
    ASSUME Inv, NEW q \in Paths \cup {Root}, Visit(q)
    PROVE  ScanOK'
<1>0. /\ Scanning /\ q \in todo /\ q \in Recorded(tree) \cup {Root}
      /\ todo' = (todo \ {q}) \cup Children(tree, q)
      /\ entries' = IF q = Root THEN entries ELSE [entries EXCEPT ![q] = tree[q]]
      /\ UNCHANGED <<tree, phase, ghost>>
  BY DEF Visit
<1>1. entries \in [Paths -> Object \cup {None}] /\ TreeOK
  BY DEF Inv, TypeInv
<1> SUFFICES ASSUME NEW p \in Paths, Still(p, ghost.scan), entries'[p] # tree[p],
                    NEW S \in SUBSET (Paths \cup {Root}), Upwards(S), p \in S
             PROVE  S \cap todo' # {}
  BY <1>0 DEF ScanOK, Still, Upwards
<1>2. p # q /\ entries[p] # tree[p]
  BY <1>0, <1>1, RootAssumption
<1>3. \A U \in SUBSET (Paths \cup {Root}) : Upwards(U) /\ p \in U => U \cap todo # {}
  BY <1>0, <1>2 DEF Inv, ScanOK
<1>4. CASE \E r \in S : r \in Children(tree, q)
  BY <1>0, <1>4
<1>5. CASE ~ \E r \in S : r \in Children(tree, q)
  <2> DEFINE U == {r \in S : r = Root \/ tree[r] # None} \ {q}
  <2>1. U \in SUBSET (Paths \cup {Root}) /\ p \in U
    BY <1>2 DEF Still
  <2>2. ASSUME NEW r \in U \cap Paths
        PROVE  ParentOf[r] \in U
    <3>1. tree[r] # None /\ r \in S /\ r \in Paths
      BY RootAssumption
    <3>2. ParentOf[r] \in S /\ (ParentOf[r] = Root \/ tree[ParentOf[r]] # None)
      BY <3>1, <1>1 DEF Upwards, TreeOK, Recorded
    <3>3. ParentOf[r] # q
      BY <3>1, <1>5 DEF Children
    <3> QED BY <3>2, <3>3
  <2>3. Upwards(U)
    BY <2>1, <2>2 DEF Upwards
  <2>4. PICK r \in U : r \in todo
    BY <1>3, <2>1, <2>3
  <2> QED BY <1>0, <2>4
<1> QED BY <1>4, <1>5

(* The rest of the invariant when q is visited. *)
LEMMA VisitOK ==
    ASSUME Inv, NEW q \in Paths \cup {Root}, Visit(q)
    PROVE  Inv'
<1> USE LimitsAssumption
<1>0. /\ todo' \subseteq Paths \cup {Root}
      /\ entries' = IF q = Root THEN entries ELSE [entries EXCEPT ![q] = tree[q]]
      /\ UNCHANGED <<tree, rootID, clock, phase, rootSeen, base, report, ghost>>
  BY DEF Visit, Children, Inv, TypeInv
<1>2. /\ entries' \in [Paths -> Object \cup {None}]
      /\ \A p \in Paths : entries'[p] = entries[p] \/ entries'[p] = tree[p]
  BY <1>0 DEF Inv, TypeInv
<1>3. TypeInv'
  BY <1>0, <1>2 DEF Inv, TypeInv, Scanning
<1>4. TimesOK'
  BY <1>0, <1>2 DEF Inv, TimesOK
<1>5. TreeOK'
  BY <1>0 DEF Inv, TreeOK, Recorded
<1>7. BaseOK'
  BY <1>0 DEF Inv, BaseOK, Still
<1>8. RootOK'
  BY <1>0 DEF Inv, RootOK
<1>9. ReportOK'
  BY <1>0 DEF Inv, ReportOK, Still
<1> QED BY <1>3, <1>4, <1>5, VisitScanOK, <1>7, <1>8, <1>9 DEF Inv

-----------------------------------------------------------------------------
(* Reports *)

(* The ranks of the levels. *)
LEMMA Ranks ==
    /\ Rank("UNATTRIBUTED") = 0 /\ Rank("EVENT_BOUND") = 2
    /\ Rank("RECEIPT_BOUND") = 3 /\ Rank("BASELINE_OBSERVED") = 4
BY DEF Rank

(* strongerEvidence finds the strongest level there is: the baseline's,    *)
(* else a receipt's, else an event's.                                      *)
LEMMA StrongerOK ==
    ASSUME NEW level \in {"UNATTRIBUTED", "BASELINE_OBSERVED"},
           NEW evs \in SUBSET Events
    PROVE  LET l == StrongerEvidence(level, evs) IN
           /\ l \in Levels
           /\ level = "BASELINE_OBSERVED" => l = "BASELINE_OBSERVED"
           /\ level = "UNATTRIBUTED" =>
                 /\ l = "UNATTRIBUTED" <=> evs = {}
                 /\ l = "RECEIPT_BOUND" <=> \E e \in evs : e.receipt
<1> DEFINE found == {level} \cup {Bound(e) : e \in evs}
           Top(l) == l \in found /\ \A m \in found : Rank(m) <= Rank(l)
           s == StrongerEvidence(level, evs)
<1>1. found \subseteq Levels
  BY DEF Bound, Levels
<1>2. /\ "RECEIPT_BOUND" \in found <=> \E e \in evs : e.receipt
      /\ "EVENT_BOUND" \in found <=> \E e \in evs : ~e.receipt
      /\ "BASELINE_OBSERVED" \in found <=> level = "BASELINE_OBSERVED"
      /\ "UNATTRIBUTED" \in found <=> level = "UNATTRIBUTED"
  BY DEF Bound
<1> HIDE DEF found
<1>3. \E l \in found : \A m \in found : Rank(m) <= Rank(l)
  <2>1. CASE "BASELINE_OBSERVED" \in found
    BY <1>1, <2>1, Ranks DEF Levels
  <2>2. CASE "BASELINE_OBSERVED" \notin found /\ "RECEIPT_BOUND" \in found
    BY <1>1, <2>2, Ranks DEF Levels
  <2>3. CASE /\ "BASELINE_OBSERVED" \notin found /\ "RECEIPT_BOUND" \notin found
             /\ "EVENT_BOUND" \in found
    BY <1>1, <2>3, Ranks DEF Levels
  <2>4. CASE /\ "BASELINE_OBSERVED" \notin found /\ "RECEIPT_BOUND" \notin found
             /\ "EVENT_BOUND" \notin found
    BY <1>1, <1>2, <2>4, Ranks DEF Levels
  <2> QED BY <2>1, <2>2, <2>3, <2>4
<1>4. s = CHOOSE l \in found : \A m \in found : Rank(m) <= Rank(l)
  BY DEF StrongerEvidence, found
<1> HIDE DEF s
<1>5. s \in found /\ \A m \in found : Rank(m) <= Rank(s)
  BY <1>3, <1>4
<1>6. s \in Levels
  BY <1>1, <1>5
<1>7. level = "BASELINE_OBSERVED" => s = "BASELINE_OBSERVED"
  BY <1>2, <1>5, <1>6, Ranks DEF Levels
<1>8. ASSUME level = "UNATTRIBUTED"
      PROVE  /\ s = "UNATTRIBUTED" <=> evs = {}
             /\ s = "RECEIPT_BOUND" <=> \E e \in evs : e.receipt
  <2>1. s = "RECEIPT_BOUND" <=> "RECEIPT_BOUND" \in found
    BY <1>2, <1>5, <1>6, <1>8, Ranks DEF Levels
  <2>2. s = "UNATTRIBUTED" <=> "RECEIPT_BOUND" \notin found /\ "EVENT_BOUND" \notin found
    BY <1>2, <1>5, <1>6, <1>8, Ranks DEF Levels
  <2> QED BY <1>2, <2>1, <2>2
<1> QED BY <1>6, <1>7, <1>8 DEF s

(* What a report made by BuildReport says. *)
Built(r, paths, level) ==
    /\ r \in Reports /\ DOMAIN r.candidates = paths
    /\ r.status # "OBSERVATION_FAILED"
    /\ \A p \in paths :
          LET c == r.candidates[p] IN
          /\ c.ino = entries[p].ino /\ c.size = entries[p].size
          /\ level = "BASELINE_OBSERVED" => c.level = "BASELINE_OBSERVED"
          /\ level = "UNATTRIBUTED" =>
                /\ c.level = "UNATTRIBUTED" <=> c.cites = {}
                /\ c.level = "RECEIPT_BOUND" <=> \E e \in c.cites : e.receipt

(* BuildReport: which candidates there are, and what is said of each. *)
LEMMA BuildReportOK ==
    ASSUME NEW paths \in SUBSET Recorded(entries), NEW evs \in SUBSET Events,
           NEW level \in {"UNATTRIBUTED", "BASELINE_OBSERVED"},
           NEW status \in [Paths -> Status], NEW limited \in BOOLEAN,
           entries \in [Paths -> Object \cup {None}]
    PROVE  Built(BuildReport(paths, evs, level, status, limited), paths, level)
<1> DEFINE r == BuildReport(paths, evs, level, status, limited)
           M(p) == {e \in evs : EventMatchesCandidate(e, p)}
           c(p) == [ino |-> entries[p].ino, size |-> entries[p].size,
                    level |-> StrongerEvidence(level, M(p)), cites |-> M(p),
                    conflict |-> \E e \in M(p) : e.cleanup, status |-> status[p]]
<1>1. /\ r.candidates = [p \in paths |-> c(p)]
      /\ r.status = IF limited THEN "PARTIAL_EVIDENCE"
                    ELSE IF paths = {} THEN "NO_CANDIDATES" ELSE "REVIEW_REQUIRED"
      /\ r = [status |-> r.status, candidates |-> r.candidates]
  BY DEF BuildReport
<1> HIDE DEF r
<1>2. ASSUME NEW p \in paths
      PROVE  /\ c(p) \in Candidate /\ c(p).ino = entries[p].ino
             /\ c(p).size = entries[p].size
             /\ c(p).level = StrongerEvidence(level, M(p)) /\ c(p).cites = M(p)
             /\ M(p) \in SUBSET Events
  <2>1. M(p) \in SUBSET Events /\ p \in Paths /\ entries[p] \in Object
    BY DEF Recorded
  <2> HIDE DEF M
  <2>2. StrongerEvidence(level, M(p)) \in Levels
    BY <2>1, StrongerOK
  <2> QED BY <2>1, <2>2 DEF Candidate, Object
<1> HIDE DEF c, M
<1>3. r.candidates \in [paths -> Candidate] /\ paths \in SUBSET Paths
  BY <1>1, <1>2 DEF Recorded
<1>4. r \in Reports
  <2>1. r.candidates \in UNION {[D -> Candidate] : D \in SUBSET Paths}
    BY <1>3
  <2>2. r.status \in {"PARTIAL_EVIDENCE", "NO_CANDIDATES", "REVIEW_REQUIRED"}
    BY <1>1
  <2> QED BY <1>1, <2>1, <2>2 DEF Reports
<1>5. ASSUME NEW p \in paths
      PROVE  LET d == r.candidates[p] IN
             /\ d.ino = entries[p].ino /\ d.size = entries[p].size
             /\ level = "BASELINE_OBSERVED" => d.level = "BASELINE_OBSERVED"
             /\ level = "UNATTRIBUTED" =>
                   /\ d.level = "UNATTRIBUTED" <=> d.cites = {}
                   /\ d.level = "RECEIPT_BOUND" <=> \E e \in d.cites : e.receipt
  BY <1>1, <1>2, StrongerOK
<1>6. Built(r, paths, level)
  BY <1>1, <1>3, <1>4, <1>5 DEF Built
<1> QED BY <1>6 DEF r

(* The reports without candidates. *)
LEMMA EmptyReports ==
    /\ NoReport \in Reports /\ FailureReport \in Reports
    /\ DOMAIN NoReport.candidates = {} /\ DOMAIN FailureReport.candidates = {}
    /\ NoReport.status = "NONE" /\ FailureReport.status = "OBSERVATION_FAILED"
<1>1. <<>> \in [{} -> Candidate] /\ DOMAIN <<>> = {}
  OBVIOUS
<1>2. <<>> \in UNION {[D -> Candidate] : D \in SUBSET Paths}
  BY <1>1
<1> QED BY <1>1, <1>2 DEF NoReport, FailureReport, Reports

(* The end of a scan, whatever it leaves as baseline and as report. *)
LEMMA DoneOK ==
    ASSUME Inv, NEW next \in {"idle", "active", "reported"},
           NEW newBase, NEW newReport \in Reports,
           Done(next, newBase, newReport),
           newBase \in [root: RootInodes \cup {None},
                        entries: [Paths -> Object \cup {None}]],
           ghost' \in [{"scan", "baseFrom", "baseTo", "root"} -> 0..MaxChanges],
           /\ ghost'.scan = ghost.scan /\ ghost'.root = ghost.root
           /\ ghost'.baseFrom <= ghost'.baseTo /\ ghost'.baseTo <= clock,
           next = "active" =>
               /\ newBase.root \in RootInodes
               /\ ghost'.baseTo = clock
               /\ \A p \in Paths : newBase.entries[p] # None =>
                     newBase.entries[p].mtime <= ghost'.baseTo
               /\ \A p \in Paths : Still(p, ghost'.baseFrom) =>
                     newBase.entries[p] = tree[p],
           next = "reported" =>
               \A p \in DOMAIN newReport.candidates : Still(p, ghost.scan) =>
                   /\ newReport.candidates[p].ino = tree[p].ino
                   /\ newReport.candidates[p].size = tree[p].size
    PROVE  Inv'
<1> USE LimitsAssumption
<1>0. /\ phase' = next /\ base' = newBase /\ report' = newReport
      /\ rootSeen' = None /\ todo' = {} /\ entries' = Nothing
      /\ UNCHANGED <<tree, rootID, clock>>
  BY DEF Done
<1>2. entries' \in [Paths -> Object \cup {None}] /\ \A p \in Paths : entries'[p] = None
  BY <1>0 DEF Nothing
<1>3. TypeInv'
  BY <1>0, <1>2 DEF Inv, TypeInv, Scanning
<1>4. TimesOK'
  BY <1>0, <1>2 DEF Inv, TypeInv, TimesOK
<1>5. TreeOK'
  BY <1>0 DEF Inv, TreeOK, Recorded
<1>6. ScanOK'
  BY <1>0 DEF ScanOK, Scanning
<1>7. BaseOK'
  BY <1>0 DEF BaseOK, Still
<1>8. RootOK'
  BY <1>0 DEF Inv, RootOK, TypeInv, TimesOK
<1>9. ReportOK'
  BY <1>0 DEF ReportOK, Still
<1> QED BY <1>3, <1>4, <1>5, <1>6, <1>7, <1>8, <1>9 DEF Inv

(* No baseline has the type of one. *)
LEMMA NoBaseType ==
    NoBase \in [root: RootInodes \cup {None},
                entries: [Paths -> Object \cup {None}]]
BY DEF NoBase, Nothing

(* A scan that fails leaves nothing behind that is not empty. *)
LEMMA ScanFailsOK ==
    ASSUME Inv, ScanFails
    PROVE  Inv'
<1>1. /\ ghost' = ghost
      /\ ghost \in [{"scan", "baseFrom", "baseTo", "root"} -> 0..MaxChanges]
      /\ ghost.baseFrom <= ghost.baseTo /\ ghost.baseTo <= clock
  BY DEF ScanFails, Inv, TypeInv, TimesOK
<1>2. CASE Done("reported", NoBase, FailureReport)
  BY <1>1, <1>2, EmptyReports, NoBaseType, DoneOK
<1>3. CASE Done("idle", NoBase, NoReport)
  BY <1>1, <1>3, EmptyReports, NoBaseType, DoneOK
<1> QED BY <1>2, <1>3 DEF ScanFails

(* At the end of a walk all that held still is recorded. *)
LEMMA WalkedAll ==
    ASSUME Inv, Scanning, todo = {}, NEW p \in Paths, Still(p, ghost.scan)
    PROVE  entries[p] = tree[p]
<1>1. Upwards(Paths \cup {Root})
  BY ParentType DEF Upwards
<1> QED BY <1>1 DEF Inv, ScanOK

(* The baseline of Begin. *)
LEMMA CaptureOK ==
    ASSUME Inv, Capture
    PROVE  Inv'
<1> DEFINE b == [root |-> rootSeen, entries |-> entries]
<1>0. phase = "capture" /\ Scanning /\ todo = {} /\ Done("active", b, NoReport)
      /\ ghost' = [ghost EXCEPT !.baseFrom = ghost.scan, !.baseTo = clock]
  BY DEF Capture, Scanning
<1>1. /\ ghost' \in [{"scan", "baseFrom", "baseTo", "root"} -> 0..MaxChanges]
      /\ ghost'.scan = ghost.scan /\ ghost'.root = ghost.root
      /\ ghost'.baseFrom = ghost.scan /\ ghost'.baseTo = clock
  BY <1>0 DEF Inv, TypeInv
<1>2. b \in [root: RootInodes \cup {None}, entries: [Paths -> Object \cup {None}]]
      /\ b.root = rootSeen /\ b.entries = entries
  BY DEF Inv, TypeInv
<1> HIDE DEF b
<1>3. rootSeen \in RootInodes /\ ghost.scan <= clock /\ clock <= clock
  BY <1>0, LimitsAssumption DEF Inv, TypeInv, TimesOK
<1>4. \A p \in Paths : b.entries[p] # None => b.entries[p].mtime <= clock
  BY <1>2 DEF Inv, TimesOK
<1>5. \A p \in Paths : Still(p, ghost.scan) => b.entries[p] = tree[p]
  BY <1>0, <1>2, WalkedAll
<1> QED BY <1>0, <1>1, <1>2, <1>3, <1>4, <1>5, EmptyReports, DoneOK

(* Both reports: candidates are entries of a walk that has ended. *)
LEMMA ReportedOK ==
    ASSUME Inv, Scanning, todo = {}, UNCHANGED ghost,
           NEW paths \in SUBSET Recorded(entries), NEW evs \in SUBSET Events,
           NEW level \in {"UNATTRIBUTED", "BASELINE_OBSERVED"},
           NEW status \in [Paths -> Status], NEW limited \in BOOLEAN,
           Done("reported", NoBase, BuildReport(paths, evs, level, status, limited))
    PROVE  Inv'
<1> DEFINE r == BuildReport(paths, evs, level, status, limited)
<1>1. Built(r, paths, level)
  <2>1. entries \in [Paths -> Object \cup {None}]
    BY DEF Inv, TypeInv
  <2> QED BY <2>1, BuildReportOK
<1>2. Done("reported", NoBase, r)
  OBVIOUS
<1> HIDE DEF r
<1>3. \A p \in paths : p \in Paths /\ (Still(p, ghost.scan) => entries[p] = tree[p])
  BY WalkedAll DEF Recorded
<1>4. \A p \in DOMAIN r.candidates : Still(p, ghost.scan) =>
          /\ r.candidates[p].ino = tree[p].ino
          /\ r.candidates[p].size = tree[p].size
  BY <1>1, <1>3 DEF Built
<1>6. /\ ghost' \in [{"scan", "baseFrom", "baseTo", "root"} -> 0..MaxChanges]
      /\ ghost'.scan = ghost.scan /\ ghost'.root = ghost.root
      /\ ghost'.baseFrom <= ghost'.baseTo /\ ghost'.baseTo <= clock
  BY DEF Inv, TypeInv, TimesOK
<1>7. r \in Reports
  BY <1>1 DEF Built
<1> QED BY <1>2, <1>4, <1>6, <1>7, NoBaseType, DoneOK

(* Compare, whose report is about the changed entries of the second scan. *)
LEMMA CompareOK ==
    ASSUME Inv, NEW evs \in SUBSET Events, NEW limited \in BOOLEAN,
           Compare(evs, limited)
    PROVE  Inv'
<1> DEFINE status == [p \in Paths |-> IF base.entries[p] = None THEN "PRESENT"
                                      ELSE "CHANGED_SINCE_REPORT"]
           paths == {p \in Recorded(entries) : Changed(p)}
<1>1. phase = "compare" /\ Scanning /\ todo = {} /\ ghost' = ghost
      /\ Done("reported", NoBase,
              IF ~SameRoot THEN FailureReport
              ELSE BuildReport(paths, evs, "BASELINE_OBSERVED", status, limited))
  BY DEF Compare, Scanning
<1>2. status \in [Paths -> Status] /\ paths \in SUBSET Recorded(entries)
  BY DEF Status
<1> HIDE DEF status, paths
<1>3. CASE ~SameRoot
  <2>1. /\ ghost \in [{"scan", "baseFrom", "baseTo", "root"} -> 0..MaxChanges]
        /\ ghost.baseFrom <= ghost.baseTo /\ ghost.baseTo <= clock
    BY DEF Inv, TypeInv, TimesOK
  <2>2. Done("reported", NoBase, FailureReport)
    BY <1>1, <1>3
  <2> QED BY <1>1, <2>1, <2>2, EmptyReports, NoBaseType, DoneOK
<1>4. CASE SameRoot
  BY <1>1, <1>2, <1>4, ReportedOK
<1> QED BY <1>3, <1>4

(* InspectCompletedAuthorized, whose report has no baseline. *)
LEMMA InspectOK ==
    ASSUME Inv, NEW evs \in SUBSET Events, InspectCompletedAuthorized(evs)
    PROVE  Inv'
<1> DEFINE status == [p \in Paths |-> "PRESENT"]
           paths == {p \in Recorded(entries) : entries[p].mtime \in Window}
<1>1. Scanning /\ todo = {} /\ ghost' = ghost
      /\ Done("reported", NoBase,
              BuildReport(paths, evs, "UNATTRIBUTED", status, TRUE))
  BY DEF InspectCompletedAuthorized, Scanning
<1>2. status \in [Paths -> Status] /\ paths \in SUBSET Recorded(entries)
  BY DEF Status
<1> HIDE DEF status, paths
<1> QED BY <1>1, <1>2, ReportedOK

(* Verify gives one candidate a status and changes nothing else of it. *)
LEMMA VerifyStep ==
    ASSUME Inv, NEW p \in Paths, Verify(p)
    PROVE  /\ report' \in Reports /\ DOMAIN report'.candidates = DOMAIN report.candidates
           /\ report'.status = report.status
           /\ \A q \in DOMAIN report.candidates :
                 LET c == report.candidates[q]
                     d == report'.candidates[q] IN
                 /\ q # p => d = c
                 /\ q = p => d.status \in {VerifyCandidate(p), "UNKNOWN"}
                 /\ d.ino = c.ino /\ d.size = c.size
                 /\ d.level = c.level /\ d.cites = c.cites
<1>0. p \in DOMAIN report.candidates
  BY DEF Verify
<1>1. PICK status \in {VerifyCandidate(p), "UNKNOWN"} :
          report' = [report EXCEPT !.candidates[p].status = status]
  BY DEF Verify
<1>2. status \in Status
  BY DEF VerifyCandidate, Status
<1> DEFINE cs == report.candidates
           d == [cs[p] EXCEPT !.status = status]
<1>3. PICK D \in SUBSET Paths : cs \in [D -> Candidate]
  BY DEF Inv, TypeInv, Reports
<1>4. cs[p] \in Candidate
  BY <1>0, <1>3
<1>5. d \in Candidate /\ d.status = status /\ d.ino = cs[p].ino /\ d.size = cs[p].size
      /\ d.level = cs[p].level /\ d.cites = cs[p].cites
  BY <1>2, <1>4 DEF Candidate
<1>6. report = [status |-> report.status, candidates |-> cs]
  BY DEF Inv, TypeInv, Reports
<1>7. report' = [status |-> report.status, candidates |-> [cs EXCEPT ![p] = d]]
  BY <1>1, <1>6
<1> HIDE DEF d, cs
<1>8. /\ [cs EXCEPT ![p] = d] \in [D -> Candidate]
      /\ \A q \in D : [cs EXCEPT ![p] = d][q] = IF q = p THEN d ELSE cs[q]
  BY <1>3, <1>5
<1>9. report' \in Reports
  <2>1. [cs EXCEPT ![p] = d] \in UNION {[E -> Candidate] : E \in SUBSET Paths}
    BY <1>8
  <2> QED BY <1>7, <2>1 DEF Inv, TypeInv, Reports
<1>10. report'.candidates = [cs EXCEPT ![p] = d] /\ report'.status = report.status
  BY <1>7
<1> QED BY <1>1, <1>3, <1>5, <1>8, <1>9, <1>10 DEF cs

(* So a verification keeps what the invariant says of the report. *)
LEMMA VerifyOK ==
    ASSUME Inv, NEW p \in Paths, Verify(p)
    PROVE  Inv'
<1>0. UNCHANGED <<tree, rootID, clock, phase, rootSeen, todo, entries, base, ghost>>
  BY DEF Verify
<1>1. TypeInv'
  BY <1>0, VerifyStep DEF Inv, TypeInv, Scanning
<1>2. TimesOK' /\ TreeOK'
  BY <1>0 DEF Inv, TimesOK, TreeOK, Recorded
<1>3. ScanOK'
  BY <1>0 DEF Inv, ScanOK, Scanning, Still, Upwards
<1>4. BaseOK' /\ RootOK'
  BY <1>0 DEF Inv, BaseOK, RootOK, Still
<1>5. ReportOK'
  BY <1>0, VerifyStep DEF Inv, ReportOK, Still
<1> QED BY <1>1, <1>2, <1>3, <1>4, <1>5 DEF Inv

-----------------------------------------------------------------------------
(* The invariant holds at first. *)
LEMMA InitOK == Init => Inv
<1> SUFFICES ASSUME Init PROVE Inv
  OBVIOUS
<1>1. Nothing \in [Paths -> Object \cup {None}] /\ \A p \in Paths : Nothing[p] = None
  BY DEF Nothing
<1>2. ghost \in [{"scan", "baseFrom", "baseTo", "root"} -> 0..MaxChanges]
      /\ ghost.scan = 0 /\ ghost.baseFrom = 0 /\ ghost.baseTo = 0 /\ ghost.root = 0
  BY LimitsAssumption DEF Init
<1>3. TypeInv
  BY <1>1, <1>2, LimitsAssumption, EmptyReports DEF Init, TypeInv, Scanning
<1>4. TimesOK /\ TreeOK
  BY <1>1, <1>2 DEF Init, TimesOK, TreeOK
<1>5. ScanOK /\ BaseOK /\ RootOK /\ ReportOK
  BY <1>1, EmptyReports
     DEF Init, ScanOK, BaseOK, RootOK, ReportOK, Scanning
<1> QED BY <1>3, <1>4, <1>5 DEF Inv

(* Every step keeps it. *)
LEMMA NextOK == Inv /\ [Next]_vars => Inv'
<1> SUFFICES ASSUME Inv, [Next]_vars PROVE Inv'
  OBVIOUS
<1>1. CASE \E p \in Paths, ino \in Inodes, size \in Sizes : Create(p, ino, size)
  BY <1>1, CreateOK
<1>2. CASE \E p \in Paths, size \in Sizes : WriteFile(p, size)
  BY <1>2, WriteFileOK
<1>3. CASE \E p \in Paths : Delete(p)
  BY <1>3, DeleteOK
<1>4. CASE \E ino \in RootInodes : ReplaceRoot(ino)
  BY <1>4, ReplaceRootOK
<1>5. CASE Begin
  BY <1>5, StartScanOK DEF Begin
<1>6. CASE Capture
  BY <1>6, CaptureOK
<1>7. CASE End
  BY <1>7, StartScanOK DEF End
<1>8. CASE \E p \in Paths \cup {Root} : Visit(p)
  BY <1>8, VisitOK
<1>9. CASE ScanFails
  BY <1>9, ScanFailsOK
<1>10. CASE \E evs \in SUBSET Events, limited \in BOOLEAN : Compare(evs, limited)
  BY <1>10, CompareOK
<1>11. CASE StartInspect
  BY <1>11, StartScanOK DEF StartInspect
<1>12. CASE \E evs \in SUBSET Events : InspectCompletedAuthorized(evs)
  BY <1>12, InspectOK
<1>13. CASE \E p \in Paths : Verify(p)
  BY <1>13, VerifyOK
<1>14. CASE UNCHANGED vars
  <2>1. UNCHANGED <<tree, rootID, clock, phase, rootSeen, todo, entries, base,
                    report, ghost>>
    BY <1>14 DEF vars, service
  <2>2. TypeInv'
    BY <2>1 DEF Inv, TypeInv, Scanning
  <2>3. TimesOK' /\ TreeOK'
    BY <2>1 DEF Inv, TimesOK, TreeOK, Recorded
  <2>4. ScanOK'
    BY <2>1 DEF Inv, ScanOK, Scanning, Still, Upwards
  <2>5. BaseOK' /\ RootOK'
    BY <2>1 DEF Inv, BaseOK, RootOK, Still
  <2>6. ReportOK'
    BY <2>1 DEF Inv, ReportOK, Still
  <2> QED BY <2>2, <2>3, <2>4, <2>5, <2>6 DEF Inv
<1> QED BY <1>1, <1>2, <1>3, <1>4, <1>5, <1>6, <1>7, <1>8, <1>9, <1>10, <1>11,
           <1>12, <1>13, <1>14 DEF Next

(* The invariant holds in every reachable state. *)
LEMMA InvAlways == Spec => []Inv
BY InitOK, NextOK, PTL DEF Spec

-----------------------------------------------------------------------------
(* Theorems *)

(* Every variable keeps its type: candidates are complete in the reports   *)
(* of both kinds of scan (candidateFor), and no count passes its bound.    *)
THEOREM TypeCorrect == Spec => []TypeOK
<1>1. Inv => TypeOK
  <2> SUFFICES ASSUME Inv PROVE TypeOK
    OBVIOUS
  <2>1. base.entries \in [Paths -> Object \cup {None}]
    BY DEF Inv, TypeInv
  <2>2. PICK D \in SUBSET Paths : report.candidates \in [D -> Candidate]
    BY DEF Inv, TypeInv, Reports
  <2>3. /\ DOMAIN report.candidates \subseteq Paths
        /\ \A p \in DOMAIN report.candidates : report.candidates[p] \in Candidate
    BY <2>2
  <2> QED BY <2>1, <2>3 DEF Inv, TypeInv, TypeOK
<1> QED BY <1>1, InvAlways, PTL

(* What a step of a comparison that reports must have been. *)
LEMMA ReportingStep ==
    ASSUME Inv, [Next]_vars, phase' # phase, phase = "compare", Reported
    PROVE  /\ todo = {} /\ Scanning /\ rootSeen = base.root
           /\ DOMAIN report'.candidates = {p \in Recorded(entries) : Changed(p)}
           /\ \A p \in DOMAIN report'.candidates :
                 report'.candidates[p].level = "BASELINE_OBSERVED"
<1>1. PICK evs \in SUBSET Events, limited \in BOOLEAN : Compare(evs, limited)
  <2>1. ~ScanFails
    BY EmptyReports DEF ScanFails, Done, Reported
  <2> QED BY <2>1 DEF Next, vars, service, Create, WriteFile, Delete, ReplaceRoot,
             Begin, Capture, End, Visit, StartInspect, InspectCompletedAuthorized,
             Verify
<1> DEFINE status == [p \in Paths |-> IF base.entries[p] = None THEN "PRESENT"
                                      ELSE "CHANGED_SINCE_REPORT"]
           paths == {p \in Recorded(entries) : Changed(p)}
<1>2. /\ todo = {} /\ Scanning
      /\ report' = IF ~SameRoot THEN FailureReport
                   ELSE BuildReport(paths, evs, "BASELINE_OBSERVED", status, limited)
  BY <1>1 DEF Compare, Done, Scanning
<1>3. status \in [Paths -> Status] /\ paths \in SUBSET Recorded(entries)
  BY DEF Status
<1> HIDE DEF status, paths
<1>4. SameRoot
  BY <1>2, EmptyReports DEF Reported
<1>5. entries \in [Paths -> Object \cup {None}]
  BY DEF Inv, TypeInv
<1>6. Built(report', paths, "BASELINE_OBSERVED")
  BY <1>2, <1>3, <1>4, <1>5, BuildReportOK
<1> QED BY <1>2, <1>4, <1>6 DEF SameRoot, Built, paths

(* Compare is exact for every path that holds still: what was made or      *)
(* changed between Begin and End is reported, what was not touched since   *)
(* Begin is not, for every tree and whatever moves during the scans.       *)
THEOREM ComparisonIsExact == Spec => DiffExact
<1> DEFINE A == phase = "compare" /\ Reported =>
                  \A p \in Paths : tree[p] # None =>
                      /\ tree[p].mtime \in (ghost.baseTo + 1)..ghost.scan
                             => p \in DOMAIN report'.candidates
                      /\ tree[p].mtime <= ghost.baseFrom
                             => p \notin DOMAIN report'.candidates
<1>1. Inv /\ [Next]_vars => [A]_phase
  <2> SUFFICES ASSUME Inv, [Next]_vars, phase' # phase, phase = "compare", Reported,
                      NEW p \in Paths, tree[p] # None
               PROVE  /\ tree[p].mtime \in (ghost.baseTo + 1)..ghost.scan
                             => p \in DOMAIN report'.candidates
                      /\ tree[p].mtime <= ghost.baseFrom
                             => p \notin DOMAIN report'.candidates
    OBVIOUS
  <2>1. /\ todo = {} /\ Scanning
        /\ p \in DOMAIN report'.candidates <=> p \in Recorded(entries) /\ Changed(p)
    BY ReportingStep
  <2>2. tree[p].mtime <= ghost.scan => entries[p] = tree[p]
    BY <2>1, WalkedAll DEF Still
  <2>3. /\ tree[p].mtime \in Int /\ ghost.baseTo \in Int /\ ghost.scan \in Int
        /\ ghost.baseFrom \in Int /\ ghost.baseFrom <= ghost.baseTo
        /\ ghost.baseTo <= ghost.scan
    BY LimitsAssumption DEF Inv, TypeInv, TimesOK, Object
  <2>4. /\ base.entries[p] # None => base.entries[p].mtime <= ghost.baseTo
        /\ tree[p].mtime <= ghost.baseFrom => base.entries[p] = tree[p]
    BY DEF Inv, BaseOK, Still
  <2>5. ASSUME tree[p].mtime \in (ghost.baseTo + 1)..ghost.scan
        PROVE  p \in DOMAIN report'.candidates
    BY <2>1, <2>2, <2>3, <2>4, <2>5 DEF Recorded, Changed
  <2>6. ASSUME tree[p].mtime <= ghost.baseFrom
        PROVE  p \notin DOMAIN report'.candidates
    BY <2>1, <2>2, <2>3, <2>4, <2>6 DEF Changed
  <2> QED BY <2>5, <2>6
<1> QED BY <1>1, InvAlways, PTL DEF Spec, DiffExact

(* When the directory at the root's path was replaced after Begin, End     *)
(* reports nothing unless the new one has the inode number of the old, and *)
(* then all its files: none passes for one of the baseline (Compare).      *)
THEOREM NoneOfOtherRoot == Spec => ReplacedRootShown
<1> DEFINE A == phase = "compare" /\ Reported /\ ghost.root > ghost.baseTo =>
                  /\ rootSeen = base.root
                  /\ \A p \in Paths : tree[p] # None /\ tree[p].mtime <= ghost.scan
                         => p \in DOMAIN report'.candidates
<1>1. Inv /\ [Next]_vars => [A]_phase
  <2> SUFFICES ASSUME Inv, [Next]_vars, phase' # phase, phase = "compare", Reported,
                      ghost.root > ghost.baseTo
               PROVE  A
    OBVIOUS
  <2>1. /\ rootSeen = base.root /\ todo = {} /\ Scanning
        /\ DOMAIN report'.candidates = {p \in Recorded(entries) : Changed(p)}
    BY ReportingStep
  <2>2. ASSUME NEW p \in Paths, tree[p] # None, tree[p].mtime <= ghost.scan
        PROVE  p \in DOMAIN report'.candidates
    <3>1. entries[p] = tree[p]
      BY <2>1, <2>2, WalkedAll DEF Still
    <3>2. /\ tree[p].mtime \in Int /\ ghost.baseTo \in Int /\ ghost.root \in Int
          /\ tree[p].mtime > ghost.root
      BY <2>2, LimitsAssumption DEF Inv, TypeInv, RootOK, Object
    <3>3. base.entries[p] # None => /\ base.entries[p].mtime <= ghost.baseTo
                                    /\ base.entries[p].mtime \in Int
      BY LimitsAssumption DEF Inv, TypeInv, BaseOK, Object
    <3> QED BY <2>1, <2>2, <3>1, <3>2, <3>3 DEF Recorded, Changed
  <2> QED BY <2>1, <2>2
<1> QED BY <1>1, InvAlways, PTL DEF Spec, ReplacedRootShown

(* In every report each candidate has the strongest level its baseline or  *)
(* its citations support, and Verify leaves it (strongerEvidence).         *)
THEOREM LevelIsStrongest == Spec => StrongestEvidence
<1> DEFINE B(p) == LET c == report'.candidates[p] IN
                   /\ phase = "compare" => c.level = "BASELINE_OBSERVED"
                   /\ phase = "inspect" =>
                         /\ c.level = "UNATTRIBUTED" <=> c.cites = {}
                         /\ c.level = "RECEIPT_BOUND" <=> \E e \in c.cites : e.receipt
                   /\ phase \notin {"compare", "inspect"} =>
                         /\ p \in DOMAIN report.candidates
                         /\ c.level = report.candidates[p].level
                         /\ c.cites = report.candidates[p].cites
           A == \A p \in DOMAIN report'.candidates : B(p)
<1>1. Inv /\ [Next]_vars => [A]_report
  <2> SUFFICES ASSUME Inv, [Next]_vars, report' # report,
                      NEW p \in DOMAIN report'.candidates
               PROVE  B(p)
    OBVIOUS
  <2>1. /\ report' # NoReport /\ report' # FailureReport
    BY EmptyReports
  <2>2. CASE \E evs \in SUBSET Events, limited \in BOOLEAN : Compare(evs, limited)
    <3>1. phase = "compare" /\ phase' = "reported" /\ phase' # phase
      BY <2>2 DEF Compare, Done
    <3>2. PICK evs \in SUBSET Events, limited \in BOOLEAN : Compare(evs, limited)
      BY <2>2
    <3>3. report'.status # "OBSERVATION_FAILED"
      <4> DEFINE status == [q \in Paths |-> IF base.entries[q] = None THEN "PRESENT"
                                            ELSE "CHANGED_SINCE_REPORT"]
                 paths == {q \in Recorded(entries) : Changed(q)}
      <4>1. report' = BuildReport(paths, evs, "BASELINE_OBSERVED", status, limited)
        BY <3>2, <2>1 DEF Compare, Done
      <4>2. status \in [Paths -> Status] /\ paths \in SUBSET Recorded(entries)
        BY DEF Status
      <4> HIDE DEF status, paths
      <4>3. entries \in [Paths -> Object \cup {None}]
        BY DEF Inv, TypeInv
      <4>4. Built(report', paths, "BASELINE_OBSERVED")
        BY <4>1, <4>2, <4>3, BuildReportOK
      <4> QED BY <4>4 DEF Built
    <3>4. report'.candidates[p].level = "BASELINE_OBSERVED"
      BY <3>1, <3>3, ReportingStep DEF Reported
    <3> QED BY <3>1, <3>4
  <2>3. CASE \E evs \in SUBSET Events : InspectCompletedAuthorized(evs)
    <3>1. PICK evs \in SUBSET Events : InspectCompletedAuthorized(evs)
      BY <2>3
    <3> DEFINE status == [q \in Paths |-> "PRESENT"]
               paths == {q \in Recorded(entries) : entries[q].mtime \in Window}
    <3>2. phase = "inspect"
          /\ report' = BuildReport(paths, evs, "UNATTRIBUTED", status, TRUE)
      BY <3>1 DEF InspectCompletedAuthorized, Done
    <3>3. status \in [Paths -> Status] /\ paths \in SUBSET Recorded(entries)
      BY DEF Status
    <3> HIDE DEF status, paths
    <3>4. entries \in [Paths -> Object \cup {None}]
      BY DEF Inv, TypeInv
    <3>5. Built(report', paths, "UNATTRIBUTED")
      BY <3>2, <3>3, <3>4, BuildReportOK
    <3> QED BY <3>2, <3>5 DEF Built
  <2>4. CASE \E q \in Paths : Verify(q)
    <3>1. PICK q \in Paths : Verify(q)
      BY <2>4
    <3>2. phase = "reported"
      BY <3>1 DEF Verify
    <3> QED BY <3>1, <3>2, VerifyStep
  <2> QED
    BY <2>1, <2>2, <2>3, <2>4
    DEF Next, vars, service, Create, WriteFile, Delete, ReplaceRoot, Begin,
        StartScan, Capture, End, Visit, Scanning, ScanFails, Done, StartInspect
<1> QED BY <1>1, InvAlways, PTL DEF Spec, StrongestEvidence

(* Verify says "present" or "unknown" of a candidate that nobody touched   *)
(* since the scan it comes from: no false alarm.                           *)
THEOREM UntouchedVerifies == Spec => UntouchedIsPresent
<1> DEFINE A == phase = "reported" =>
                  \A p \in DOMAIN report.candidates :
                      /\ report'.candidates[p] # report.candidates[p]
                      /\ tree[p] # None /\ tree[p].mtime <= ghost.scan
                      => report'.candidates[p].status \in {"PRESENT", "UNKNOWN"}
<1>1. Inv /\ [Next]_vars => [A]_report
  <2> SUFFICES ASSUME Inv, [Next]_vars, report' # report, phase = "reported",
                      NEW p \in DOMAIN report.candidates,
                      report'.candidates[p] # report.candidates[p],
                      tree[p] # None, tree[p].mtime <= ghost.scan
               PROVE  report'.candidates[p].status \in {"PRESENT", "UNKNOWN"}
    OBVIOUS
  <2>1. PICK q \in Paths : Verify(q)
    BY DEF Next, vars, service, Create, WriteFile, Delete, ReplaceRoot, Begin,
           StartScan, Capture, End, Visit, Scanning, ScanFails, Compare,
           StartInspect, InspectCompletedAuthorized
  <2>2. p = q /\ report'.candidates[p].status \in {VerifyCandidate(p), "UNKNOWN"}
    BY <2>1, VerifyStep
  <2>3. VerifyCandidate(p) = "PRESENT"
    BY DEF Inv, ReportOK, Still, VerifyCandidate
  <2> QED BY <2>2, <2>3
<1> QED BY <1>1, InvAlways, PTL DEF Spec, UntouchedIsPresent
=============================================================================
