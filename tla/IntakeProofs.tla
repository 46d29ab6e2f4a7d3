---------------------------- MODULE IntakeProofs ----------------------------
(***************************************************************************)
(* What Intake promises for every scope, tree, grant and event: how clean  *)
(* paths and aliases stand for each other, and what follows for the events *)
(* that are stored and for the report they become part of.                 *)
(***************************************************************************)
EXTENDS Intake, Induction

-----------------------------------------------------------------------------
(* Clean paths *)

(* A prefix agrees part by part. *)
LEMMA PrefixParts ==
    ASSUME NEW X, NEW s \in Seq(X), NEW t \in Seq(X)
    PROVE  PathWithin(s, t) <=> Len(s) <= Len(t) /\ \A i \in 1..Len(s) : s[i] = t[i]
<1>1. Len(s) \in Nat /\ Len(t) \in Nat /\ SubSeq(s, 1, Len(s)) = s
  OBVIOUS
<1>2. ASSUME Len(s) <= Len(t)
      PROVE  s = SubSeq(t, 1, Len(s)) <=> \A i \in 1..Len(s) : s[i] = t[i]
  BY <1>1, <1>2
<1> QED BY <1>1, <1>2 DEF PathWithin

(* A prefix of a prefix is one. *)
LEMMA PrefixOfPrefix ==
    ASSUME NEW X, NEW s \in Seq(X), NEW t \in Seq(X), NEW u \in Seq(X),
           PathWithin(s, t), PathWithin(t, u)
    PROVE  PathWithin(s, u)
<1>1. Len(s) <= Len(t) /\ \A i \in 1..Len(s) : s[i] = t[i]
  BY PrefixParts
<1>2. Len(t) <= Len(u) /\ \A i \in 1..Len(t) : t[i] = u[i]
  BY PrefixParts
<1>3. Len(s) \in Nat /\ Len(t) \in Nat /\ Len(u) \in Nat
  OBVIOUS
<1>4. Len(s) <= Len(u) /\ \A i \in 1..Len(s) : s[i] = u[i]
  BY <1>1, <1>2, <1>3
<1> QED BY <1>4, PrefixParts

(* Two prefixes of one sequence are one a prefix of the other. *)
LEMMA PrefixesCompare ==
    ASSUME NEW X, NEW s \in Seq(X), NEW t \in Seq(X), NEW u \in Seq(X),
           PathWithin(s, u), PathWithin(t, u)
    PROVE  PathWithin(s, t) \/ PathWithin(t, s)
<1>1. Len(s) \in Nat /\ Len(t) \in Nat
  OBVIOUS
<1>2. \A n \in 1..Len(s) : s[n] = u[n]
  BY PrefixParts
<1>3. \A n \in 1..Len(t) : t[n] = u[n]
  BY PrefixParts
<1>4. CASE Len(s) <= Len(t)
  <2>1. \A n \in 1..Len(s) : s[n] = t[n]
    BY <1>1, <1>2, <1>3, <1>4
  <2> QED BY <1>4, <2>1, PrefixParts
<1>5. CASE Len(t) <= Len(s)
  <2>1. \A n \in 1..Len(t) : t[n] = s[n]
    BY <1>1, <1>2, <1>3, <1>5
  <2> QED BY <1>5, <2>1, PrefixParts
<1> QED BY <1>1, <1>4, <1>5

(* A path stays one with another part. *)
LEMMA EnterOK ==
    ASSUME NEW path \in Seq(Name), NEW part \in STRING
    PROVE  Enter(path, part) \in Seq(Name)
<1>1. CASE part = Empty
  BY Zenon, <1>1 DEF Enter, Up, Empty
<1>2. CASE part = Up
  BY <1>2 DEF Enter, Up, Empty
<1>3. CASE part # Empty /\ part # Up
  BY <1>3 DEF Enter, Name
<1> QED BY Zenon, <1>1, <1>2, <1>3

(* What Clean goes through, part by part. *)
Cleans(f, parts) ==
    /\ f \in [0..Len(parts) -> Seq(Name)]
    /\ f[0] = <<>>
    /\ \A i \in 1..Len(parts) : f[i] = Enter(f[i - 1], parts[i])

(* Clean is the end of that. *)
LEMMA CleanRuns ==
    ASSUME NEW parts \in Seq(STRING)
    PROVE  \E f : Cleans(f, parts) /\ Clean(parts) = f[Len(parts)]
<1> DEFINE k == Len(parts)
           D == Seq(Name)
           start == <<>>
           F == [i \in 1..k |-> [path \in D |-> Enter(path, parts[i])]]
           Body(f) == [i \in 0..k |-> IF i = 0 THEN <<>>
                                      ELSE Enter(f[i - 1], parts[i])]
           done == CHOOSE f : f = Body(f)
<1>1. k \in Nat /\ \A i \in 1..k : parts[i] \in STRING
  OBVIOUS
<1>0. start \in D /\ \A i \in 1..k, path \in D : Enter(path, parts[i]) \in D
  <2>1. start \in D
    OBVIOUS
  <2>2. ASSUME NEW i \in 1..k, NEW path \in D PROVE Enter(path, parts[i]) \in D
    BY Zenon, <1>1, EnterOK
  <2> QED BY <2>1, <2>2
<1> HIDE DEF D, k, start
<1>2. F \in [1..k -> [D -> D]]
  BY <1>0
<1>3. \A i \in 1..k, path \in D : F[i][path] = Enter(path, parts[i])
  OBVIOUS
<1> HIDE DEF F
<1>4. PICK f \in [0..k -> D] :
          f[0] = start /\ \A i \in 1..k : f[i] = F[i][f[i - 1]]
  <2>1. start \in D
    BY <1>0
  <2>2. k \in Nat
    BY <1>1
  <2> QED BY ONLY <2>1, <2>2, <1>2, IterationExists
<1>5. \A i \in 1..k : f[i] = Enter(f[i - 1], parts[i])
  <2>1. \A i \in 1..k : i - 1 \in 0..k
    BY <1>1
  <2> QED BY <1>3, <1>4, <2>1
<1>6. f = Body(f)
  BY <1>1, <1>4, <1>5 DEF start
<1>7. done = Body(done)
  BY Zenon, <1>6
<1>8. Clean(parts) = done[k]
  BY DEF Clean, k
<1> HIDE DEF done
<1>9. DOMAIN done = 0..k /\ done[0] = <<>>
      /\ \A i \in 1..k : done[i] = Enter(done[i - 1], parts[i])
  BY <1>1, <1>7
<1>10. \A i \in 0..k : done[i] \in D
  <2> DEFINE S == {i \in 0..k : done[i] \in D}
  <2>1. 0 \in S
    BY <1>0, <1>1, <1>9 DEF start
  <2>2. \A n \in 0..(k - 1) : n \in S => n + 1 \in S
    <3> SUFFICES ASSUME NEW n \in 0..(k - 1), done[n] \in D
                 PROVE  n + 1 \in 0..k /\ done[n + 1] \in D
      OBVIOUS
    <3>1. n + 1 \in 1..k /\ n + 1 \in 0..k /\ (n + 1) - 1 = n
      BY <1>1
    <3>2. done[n + 1] = Enter(done[n], parts[n + 1])
      BY <1>9, <3>1
    <3> QED BY <1>0, <3>1, <3>2
  <2> HIDE DEF S
  <2>3. \A n \in 0..k : n \in S
    BY Zenon, <1>1, <2>1, <2>2, BoundedInduction
  <2> QED BY <2>3 DEF S
<1>11. Cleans(done, parts)
  BY Zenon, <1>7, <1>9, <1>10 DEF Cleans, D, k
<1> QED BY <1>8, <1>11 DEF k

(* The path after some of the parts is what these alone come to. *)
LEMMA CleanPrefix ==
    ASSUME NEW parts \in Seq(STRING), NEW g, Cleans(g, parts),
           NEW k \in 0..Len(parts)
    PROVE  Clean(SubSeq(parts, 1, k)) = g[k]
<1> DEFINE a == SubSeq(parts, 1, k)
<1>1. k \in Nat /\ Len(parts) \in Nat /\ a \in Seq(STRING) /\ Len(a) = k
      /\ \A i \in 1..k : a[i] = parts[i] /\ i \in 1..Len(parts)
  OBVIOUS
<1> HIDE DEF a
<1>2. PICK f : Cleans(f, a) /\ Clean(a) = f[k]
  BY <1>1, CleanRuns
<1>3. /\ f[0] = <<>> /\ g[0] = <<>>
      /\ \A i \in 1..k : /\ f[i] = Enter(f[i - 1], a[i])
                         /\ g[i] = Enter(g[i - 1], parts[i])
  BY Zenon, <1>1, <1>2 DEF Cleans
<1> DEFINE T == {i \in 0..k : f[i] = g[i]}
<1>4. 0 \in T
  BY <1>1, <1>3
<1>5. \A n \in 0..(k - 1) : n \in T => n + 1 \in T
  <2> SUFFICES ASSUME NEW n \in 0..(k - 1), f[n] = g[n]
               PROVE  n + 1 \in 0..k /\ f[n + 1] = g[n + 1]
    OBVIOUS
  <2>1. n + 1 \in 1..k /\ n + 1 \in 0..k /\ (n + 1) - 1 = n
    BY <1>1
  <2> QED BY <1>1, <1>3, <2>1
<1> HIDE DEF T
<1>6. \A n \in 0..k : n \in T
  BY Zenon, <1>1, <1>4, <1>5, BoundedInduction
<1>7. f[k] = g[k]
  BY <1>1, <1>6 DEF T
<1> QED BY <1>2, <1>7 DEF a

(* Clean leaves names only. *)
LEMMA CleanType ==
    ASSUME NEW parts \in Seq(STRING)
    PROVE  Clean(parts) \in Seq(Name)
BY CleanRuns DEF Cleans

(* A path of names is clean. *)
LEMMA CleanSame ==
    ASSUME NEW path \in Seq(Name)
    PROVE  Clean(path) = path
<1> DEFINE k == Len(path)
<1>1. path \in Seq(STRING) /\ k \in Nat
      /\ \A i \in 1..k : path[i] \in STRING /\ path[i] # Up /\ path[i] # Empty
  BY DEF Name
<1>2. PICK f : Cleans(f, path) /\ Clean(path) = f[k]
  BY <1>1, CleanRuns
<1> DEFINE T == {i \in 0..k : f[i] = SubSeq(path, 1, i)}
<1>3. 0 \in T
  BY <1>1, <1>2 DEF Cleans
<1>4. \A n \in 0..(k - 1) : n \in T => n + 1 \in T
  <2> SUFFICES ASSUME NEW n \in 0..(k - 1), f[n] = SubSeq(path, 1, n)
               PROVE  n + 1 \in 0..k /\ f[n + 1] = SubSeq(path, 1, n + 1)
    OBVIOUS
  <2>1. n + 1 \in 1..k /\ n + 1 \in 0..k /\ (n + 1) - 1 = n
    BY <1>1
  <2>2. f[n + 1] = Enter(f[n], path[n + 1])
    BY Zenon, <1>2, <2>1 DEF Cleans
  <2>3. Enter(f[n], path[n + 1]) = Append(f[n], path[n + 1])
    BY <1>1, <2>1 DEF Enter
  <2>4. Append(SubSeq(path, 1, n), path[n + 1]) = SubSeq(path, 1, n + 1)
    BY <1>1, <2>1
  <2> QED BY Zenon, <2>1, <2>2, <2>3, <2>4
<1> HIDE DEF T
<1>5. \A n \in 0..k : n \in T
  BY Zenon, <1>1, <1>3, <1>4, BoundedInduction
<1>6. f[k] = SubSeq(path, 1, k)
  BY <1>1, <1>5 DEF T
<1>7. SubSeq(path, 1, k) = path
  BY <1>1
<1> QED BY <1>2, <1>6, <1>7

(* Parts that go nowhere up lead from a path to one below it. *)
LEMMA CleanExtends ==
    ASSUME NEW a \in Seq(STRING), NEW b \in Seq(STRING),
           \A i \in 1..Len(b) : b[i] # Up
    PROVE  PathWithin(Clean(a), Clean(a \o b))
<1> DEFINE m == Len(a)
           k == Len(b)
           parts == a \o b
<1>1. /\ m \in Nat /\ k \in Nat /\ parts \in Seq(STRING) /\ Len(parts) = m + k
      /\ SubSeq(parts, 1, m) = a /\ \A i \in 1..k : parts[m + i] = b[i]
  OBVIOUS
<1> HIDE DEF parts
<1>2. PICK g : Cleans(g, parts) /\ Clean(parts) = g[m + k]
  BY Zenon, <1>1, CleanRuns
<1>3. Clean(a) = g[m]
  <2>1. m \in 0..Len(parts)
    BY <1>1
  <2>2. Clean(SubSeq(parts, 1, m)) = g[m]
    BY <1>1, <1>2, <2>1, CleanPrefix
  <2> QED BY Zenon, <1>1, <2>2
<1>4. \A i \in 0..(m + k) : g[i] \in Seq(Name)
  BY <1>1, <1>2 DEF Cleans
<1> DEFINE T == {j \in 0..k : PathWithin(g[m], g[m + j])}
<1>5. 0 \in T
  <2>1. g[m] \in Seq(Name) /\ m + 0 = m
    BY <1>1, <1>4
  <2> QED BY <1>1, <2>1 DEF PathWithin
<1>6. \A n \in 0..(k - 1) : n \in T => n + 1 \in T
  <2> SUFFICES ASSUME NEW n \in 0..(k - 1), PathWithin(g[m], g[m + n])
               PROVE  n + 1 \in 0..k /\ PathWithin(g[m], g[m + (n + 1)])
    OBVIOUS
  <2> DEFINE p == g[m + n]
             q == g[m + (n + 1)]
  <2>1. n + 1 \in 1..k /\ n + 1 \in 0..k /\ m + (n + 1) \in 1..(m + k)
        /\ (m + (n + 1)) - 1 = m + n /\ m + n \in 0..(m + k) /\ m \in 0..(m + k)
    BY <1>1
  <2>2. q = Enter(p, parts[m + (n + 1)]) /\ parts[m + (n + 1)] # Up
    BY Zenon, <1>1, <1>2, <2>1 DEF Cleans
  <2>3. q = p \/ q = Append(p, parts[m + (n + 1)])
    BY <2>2 DEF Enter
  <2>4. g[m] \in Seq(Name) /\ p \in Seq(Name) /\ q \in Seq(Name)
    BY <1>4, <2>1
  <2> HIDE DEF p, q
  <2>5. PathWithin(g[m], p) => PathWithin(g[m], q)
    <3>1. Len(p) <= Len(q) /\ \A i \in 1..Len(p) : q[i] = p[i]
      BY <2>3, <2>4
    <3>2. PathWithin(p, q)
      BY <2>4, <3>1, PrefixParts
    <3> QED BY <2>4, <3>2, PrefixOfPrefix
  <2> QED BY <2>1, <2>5 DEF p, q
<1> HIDE DEF T
<1>7. \A n \in 0..k : n \in T
  BY Zenon, <1>1, <1>5, <1>6, BoundedInduction
<1>8. PathWithin(g[m], g[m + k])
  BY <1>1, <1>7 DEF T
<1> QED BY <1>2, <1>3, <1>8 DEF parts

(* A slash at the end changes nothing. *)
LEMMA CleanTrim ==
    ASSUME NEW a \in Seq(STRING), NEW b \in Seq(STRING)
    PROVE  Clean(a \o TrimSuffix(b)) = Clean(a \o b)
<1> DEFINE m == Len(a)
           k == Len(b)
           parts == a \o b
<1>1. CASE b # <<>> /\ b[Len(b)] = Empty
  <2>1. /\ m \in Nat /\ k \in Nat \ {0} /\ parts \in Seq(STRING)
        /\ Len(parts) = m + k /\ parts[m + k] = b[k] /\ b[k] = Empty
        /\ m + k \in 1..(m + k) /\ (m + k) - 1 \in 0..(m + k)
    BY <1>1
  <2>2. a \o TrimSuffix(b) = SubSeq(parts, 1, (m + k) - 1)
    <3>1. TrimSuffix(b) = SubSeq(b, 1, k - 1)
      BY <1>1 DEF TrimSuffix
    <3>2. a \o SubSeq(b, 1, k - 1) = SubSeq(parts, 1, (m + k) - 1)
      BY <2>1
    <3> QED BY <3>1, <3>2
  <2> HIDE DEF parts
  <2>3. PICK g : Cleans(g, parts) /\ Clean(parts) = g[m + k]
    BY Zenon, <2>1, CleanRuns
  <2>4. Clean(SubSeq(parts, 1, (m + k) - 1)) = g[(m + k) - 1]
    BY <2>1, <2>3, CleanPrefix
  <2>5. g[m + k] = Enter(g[(m + k) - 1], Empty)
    BY Zenon, <2>1, <2>3 DEF Cleans
  <2>6. g[m + k] = g[(m + k) - 1]
    BY <2>5 DEF Enter, Up, Empty
  <2> QED BY <2>2, <2>3, <2>4, <2>6 DEF parts
<1>2. CASE ~(b # <<>> /\ b[Len(b)] = Empty)
  BY <1>2 DEF TrimSuffix
<1> QED BY <1>1, <1>2

-----------------------------------------------------------------------------
(* Aliases *)

(* What an executor may name is, once it is clean, below what it was given. *)
LEMMA GrantHolds ==
    ASSUME NEW path \in Seq(STRING), NEW root \in Texts, NEW text \in Texts,
           ~HasTraversal(text.parts),
           \/ text.parts = root.parts
           \/ Descendant(TrimSuffix(root.parts), text.parts)
    PROVE  PathWithin(Clean(path \o root.parts), Clean(path \o text.parts))
<1> DEFINE r == root.parts
           p == text.parts
           t == TrimSuffix(r)
<1>1. r \in Seq(STRING) /\ p \in Seq(STRING) /\ \A i \in 1..Len(p) : p[i] # Up
  BY DEF Texts, HasTraversal, Range
<1>2. t \in Seq(STRING)
  <2> HIDE DEF r
  <2>1. r # <<>> => SubSeq(r, 1, Len(r) - 1) \in Seq(STRING)
    BY <1>1
  <2> QED BY Zenon, <1>1, <2>1 DEF TrimSuffix
<1>3. CASE p = r
  <2>1. path \o r \in Seq(STRING)
    BY <1>1
  <2>2. Clean(path \o r) \in Seq(Name)
    BY Zenon, <2>1, CleanType
  <2> QED BY <1>3, <2>2, PrefixParts
<1>4. CASE PathWithin(t, p)
  <2> HIDE DEF r, p, t
  <2> DEFINE b == SubSeq(p, Len(t) + 1, Len(p))
  <2>1. Len(t) <= Len(p) /\ \A i \in 1..Len(t) : t[i] = p[i]
    BY <1>1, <1>2, <1>4, PrefixParts
  <2>2. b \in Seq(STRING) /\ Len(b) = Len(p) - Len(t)
        /\ \A i \in 1..Len(b) : b[i] = p[Len(t) + i] /\ Len(t) + i \in 1..Len(p)
    BY <1>1, <1>2, <2>1
  <2>3. (path \o t) \o b = path \o p
    <3>1. t \o b = p
      BY <1>1, <1>2, <2>1, <2>2
    <3> HIDE DEF b
    <3>2. (path \o t) \o b = path \o (t \o b)
      BY <1>2, <2>2
    <3> QED BY <3>1, <3>2
  <2>4. \A i \in 1..Len(b) : b[i] # Up
    BY <1>1, <2>2
  <2> HIDE DEF b
  <2>5. path \o t \in Seq(STRING)
    BY <1>2
  <2>6. PathWithin(Clean(path \o t), Clean((path \o t) \o b))
    BY Zenon, <2>2, <2>4, <2>5, CleanExtends
  <2>7. Clean(path \o t) = Clean(path \o r)
    BY <1>1, CleanTrim DEF t
  <2> QED BY <2>3, <2>6, <2>7 DEF r, p
<1> QED BY <1>3, <1>4 DEF Descendant

(* Table binds the roots of a scope. *)
Binds(table, scope) ==
    /\ scope \in Scopes /\ Validate(scope, Home)
    /\ DOMAIN table = DOMAIN scope
    /\ \A i \in DOMAIN scope : table[i].path = scope[i]

(* A root that is bound is a path. *)
LEMMA RootBound ==
    ASSUME NEW table, NEW scope, Binds(table, scope), NEW i \in DOMAIN table
    PROVE  LET root == table[i].path
           IN  root \in Path /\ root \in Seq(STRING) /\ root # <<>>
<1> DEFINE root == table[i].path
<1>1. scope \in Seq(Path) /\ i \in DOMAIN scope /\ root = scope[i]
  BY PathsAssumption, Zenon DEF Binds
<1>2. root # <<>>
  BY <1>1, Zenon DEF Binds, Validate, ValidateRoot
<1> HIDE DEF root
<1>3. root \in Path
  BY <1>1
<1>4. root \in Seq(Name)
  BY <1>3, Zenon DEF Path
<1>5. \A n \in Name : n \in STRING
  BY Zenon DEF Name
<1>6. root \in Seq(STRING)
  BY <1>4, <1>5
<1> QED BY <1>2, <1>3, <1>6, Zenon DEF root

(* A path is below one root at most. *)
LEMMA RootsApart ==
    ASSUME NEW table, NEW scope, Binds(table, scope), NEW path \in Seq(Name),
           NEW i \in DOMAIN table, PathWithin(table[i].path, path),
           NEW j \in DOMAIN table, PathWithin(table[j].path, path)
    PROVE  i = j
<1>1. scope \in Seq(Path) /\ i \in DOMAIN scope /\ j \in DOMAIN scope
      /\ table[i].path = scope[i] /\ table[j].path = scope[j]
  BY PathsAssumption DEF Binds
<1>2. i \in Nat /\ j \in Nat /\ scope[i] \in Path /\ scope[j] \in Path
  BY <1>1
<1> DEFINE s == scope[i]
           t == scope[j]
<1>3. s \in Seq(Name) /\ t \in Seq(Name) /\ PathWithin(s, path) /\ PathWithin(t, path)
  BY <1>1, <1>2 DEF Path
<1>4. i # j => ~PathWithin(s, t) /\ ~PathWithin(t, s)
  BY <1>1, <1>2 DEF Binds, Validate, PathsOverlap
<1> HIDE DEF s, t
<1>5. PathWithin(s, t) \/ PathWithin(t, s)
  BY <1>3, PrefixesCompare
<1> QED BY <1>4, <1>5

(* The alias of a path names the root it is below, and the rest. *)
LEMMA Projects ==
    ASSUME NEW table, NEW scope, Binds(table, scope), NEW path \in Seq(Name),
           NEW i \in DOMAIN table, PathWithin(table[i].path, path)
    PROVE  Project(table, path) =
               Text("alias", i, SubSeq(path, Len(table[i].path) + 1, Len(path)))
<1> DEFINE holding == {j \in DOMAIN table : PathWithin(table[j].path, path)}
           first == CHOOSE j \in holding : \A n \in holding : j <= n
<1>1. i \in Nat
  BY PathsAssumption DEF Binds
<1>2. holding = {i}
  BY RootsApart
<1>3. first = i
  BY <1>1, <1>2
<1> QED BY Zenon, <1>2, <1>3 DEF Project

(* An alias is resolved to the path it stands for, while its root is the   *)
(* directory that was bound.                                               *)
LEMMA ProjectResolves ==
    ASSUME NEW table, NEW scope, Binds(table, scope), NEW path \in Seq(Name),
           NEW i \in DOMAIN table, PathWithin(table[i].path, path), NEW ident
    PROVE  Resolve(table, ident, Project(table, path)) =
               IF ident[table[i].path] = table[i].identity THEN path ELSE NoPath
<1> DEFINE root == table[i].path
           rest == SubSeq(path, Len(root) + 1, Len(path))
           alias == Project(table, path)
<1>1. root \in Seq(Name)
  <2>1. root \in Path
    BY RootBound, Zenon
  <2> QED BY <2>1, Zenon DEF Path
<1>2. alias.root = i /\ alias.parts = rest
  <2>1. alias = Text("alias", i, rest)
    BY Projects
  <2> HIDE DEF alias, rest
  <2> QED BY <2>1 DEF Text
<1> HIDE DEF root, alias
<1>3. Len(root) <= Len(path) /\ \A n \in 1..Len(root) : root[n] = path[n]
  BY <1>1, PrefixParts DEF root
<1>4. rest \in Seq(Name) /\ root \o rest = path
  BY <1>1, <1>3
<1> HIDE DEF rest
<1>5. ~IsAbs(rest) /\ ~HasTraversal(rest)
  BY <1>4 DEF IsAbs, HasTraversal, Range, Name
<1>6. Clean(root \o rest) = path
  BY <1>4, CleanSame
<1> QED BY <1>2, <1>5, <1>6 DEF Resolve, root, alias

-----------------------------------------------------------------------------
(* The inductive invariant *)

(* What is stored of an event: the owner's paths are exact, an executor's  *)
(* are aliases within its grant.                                           *)
EventOK(e) ==
    IF e.by = Owner
    THEN \A text \in Paths(e) : text.form = "absolute" /\ text.parts \in Path
    ELSE /\ e.by \in Grants
         /\ \A text \in Paths(e) :
               text \in Texts /\ SafeAlias(text) /\ AllowedAlias(e.by.roots, text)

(* A candidate of the report is below a root and has the path's alias. *)
CandidateOK(c) ==
    /\ c.id \in Path /\ c.path = Project(aliases, c.id)
    /\ \E i \in DOMAIN aliases : PathWithin(aliases[i].path, c.id)

IntakeInv ==
    /\ TypeOK
    /\ phase = "active" => Binds(aliases, roots)
    /\ phase # "active" => events = {}
    /\ phase # "completed" => report = {} /\ revisions = <<>>
    /\ report # {} => \E scope \in Scopes : Binds(aliases, scope)
    /\ \A e \in events : EventOK(e)
    /\ \A c \in report : CandidateOK(c)
    /\ targets = [id \in {c.id : c \in report} |-> id]
    /\ revisions \in Seq(SUBSET Candidate)

-----------------------------------------------------------------------------
(* Events on their way in *)

(* One part is a sequence of parts. *)
LEMMA OnePart ==
    ASSUME NEW S, NEW part \in S
    PROVE  <<part>> \in Seq(S)
OBVIOUS

(* The parts the model itself writes are texts. *)
LEMMA OwnParts == <<"alias:">> \in Seq(STRING) /\ NoPath \in Seq(STRING)
<1> DEFINE alias == "alias:"
           none == "none"
<1>1. alias \in STRING /\ none \in STRING
  BY LiteralsAssumption, Zenon
<1> HIDE DEF alias, none
<1>2. <<alias>> \in Seq(STRING) /\ <<none>> \in Seq(STRING)
  BY Zenon, <1>1, OnePart
<1> QED BY <1>2, Zenon DEF alias, none, NoPath

(* A path that is not refused is clean and in the scope, both by its names *)
(* and with links followed.                                                *)
LEMMA ScopedPathOK ==
    ASSUME NEW text \in Texts, NEW base \in Seq(STRING), NEW scope \in Scopes,
           Validate(scope, Home), links \in Links
    PROVE  LET path == ScopedPath(text, base, scope)
           IN  /\ path \in Seq(STRING)
               /\ path # NoPath =>
                     /\ path \in Path
                     /\ \E i \in DOMAIN scope :
                           /\ PathWithin(scope[i], path)
                           /\ PathWithin(EvalSymlinks(links, scope[i]),
                                         EvalSymlinks(links, path))
<1> DEFINE joined == CASE text.form = "absolute" -> text.parts
                       [] text.form = "relative" -> base \o text.parts
                       [] text.form = "alias" -> base \o <<"alias:">> \o text.parts
           abs == Joined(text, base)
           path == ScopedPath(text, base, scope)
           holding == {i \in DOMAIN scope : PathWithin(scope[i], abs)}
<1>1. joined \in Seq(STRING)
  <2>1. text.parts \in Seq(STRING) /\ text.form \in {"absolute", "relative", "alias"}
    BY DEF Texts
  <2>2. base \o text.parts \in Seq(STRING)
        /\ base \o <<"alias:">> \o text.parts \in Seq(STRING)
    <3> DEFINE alias == <<"alias:">>
    <3>1. alias \in Seq(STRING)
      BY OwnParts
    <3> HIDE DEF alias
    <3>2. base \o alias \in Seq(STRING)
      BY <3>1
    <3>3. base \o alias \o text.parts \in Seq(STRING)
      BY <2>1, <3>2
    <3>4. base \o text.parts \in Seq(STRING)
      BY <2>1
    <3> QED BY <3>3, <3>4 DEF alias
  <2>3. CASE text.form = "absolute"
    BY <2>1, <2>3
  <2>4. CASE text.form = "relative"
    BY <2>2, <2>4
  <2>5. CASE text.form = "alias"
    BY <2>2, <2>5
  <2> QED BY <2>1, <2>3, <2>4, <2>5
<1>2. abs \in Seq(Name)
  <2> HIDE DEF joined
  <2>1. Clean(joined) \in Seq(Name)
    BY <1>1, CleanType
  <2> QED BY Zenon, <2>1 DEF joined, Joined
<1> HIDE DEF joined, abs
<1>3. path \in {NoPath, abs}
  BY DEF ScopedPath, NormalizeScopedPath, abs
<1>4. NoPath \in Seq(STRING) /\ abs \in Seq(STRING)
  <2>1. \A n \in Name : n \in STRING
    BY Zenon DEF Name
  <2>2. abs \in Seq(STRING)
    BY <1>2, <2>1
  <2> QED BY <2>2, OwnParts
<1>5. ASSUME path # NoPath
      PROVE  /\ path \in Path
             /\ \E i \in DOMAIN scope :
                   /\ PathWithin(scope[i], path)
                   /\ PathWithin(EvalSymlinks(links, scope[i]),
                                 EvalSymlinks(links, path))
  <2>1. path = abs /\ path \in Path
    BY <1>2, <1>3, <1>5 DEF Path
  <2>2. NormalizeScopedPath(text, base, scope, links) # NoPath
    BY <1>5 DEF ScopedPath
  <2>3. /\ holding # {}
        /\ \A i \in holding : PathWithin(EvalSymlinks(links, scope[i]),
                                         EvalSymlinks(links, abs))
    BY <2>2 DEF NormalizeScopedPath, abs
  <2>4. PICK i \in DOMAIN scope : PathWithin(scope[i], abs)
    BY <2>3
  <2>5. PathWithin(EvalSymlinks(links, scope[i]), EvalSymlinks(links, abs))
    BY <2>3, <2>4
  <2> QED BY <2>1, <2>4, <2>5
<1> QED BY <1>3, <1>4, <1>5

(* What Normalize makes of an event of the owner *)
LEMMA NormalizeOK ==
    ASSUME NEW e \in OwnerInputs, NEW scope \in Scopes, Validate(scope, Home),
           links \in Links, Normalize(e, scope) # None
    PROVE  LET s == Normalize(e, scope)
           IN  /\ s.by = Owner
               /\ \A text \in Paths(s) :
                     /\ text.form = "absolute" /\ text.parts \in Path
                     /\ \E i \in DOMAIN scope :
                           /\ PathWithin(scope[i], text.parts)
                           /\ PathWithin(EvalSymlinks(links, scope[i]),
                                         EvalSymlinks(links, text.parts))
<1> DEFINE wdPath == ScopedPath(e.wd, NoPath, scope)
           wd == IF e.wd = None THEN None ELSE Exact(wdPath)
           base == IF e.wd = None THEN scope[1] ELSE wd.parts
           outputs == {Output(text, base, scope) : text \in e.outputs}
           InScope(path) ==
               /\ path \in Path
               /\ \E i \in DOMAIN scope :
                     /\ PathWithin(scope[i], path)
                     /\ PathWithin(EvalSymlinks(links, scope[i]),
                                   EvalSymlinks(links, path))
<1>1. e.outputs \subseteq Texts /\ e.wd \in Texts \cup {None}
  BY InputsAssumption
<1>2. NoPath \in Seq(STRING)
  BY OwnParts
<1>3. e.wd # None => wdPath \in Seq(STRING) /\ (wdPath # NoPath => InScope(wdPath))
  BY <1>1, <1>2, ScopedPathOK
<1>4. base \in Seq(STRING)
  <2>1. CASE e.wd = None
    <3>1. scope \in Seq(Path) /\ scope # <<>>
      BY PathsAssumption DEF Validate
    <3>2. scope[1] \in Path
      BY <3>1
    <3> QED BY <2>1, <3>2 DEF Path, Name
  <2>2. CASE e.wd # None
    BY <1>3, <2>2 DEF Exact, Text
  <2> QED BY <2>1, <2>2
<1>5. /\ Normalize(e, scope) = Summary(e, Owner, wd, outputs)
      /\ Exact(NoPath) \notin outputs \cup {wd}
  BY Zenon DEF Normalize
<1> DEFINE s == Summary(e, Owner, wd, outputs)
<1> HIDE DEF base
<1>6. ASSUME NEW text \in Paths(s)
      PROVE  text.form = "absolute" /\ InScope(text.parts)
  <2>1. text \in outputs \/ (e.wd # None /\ text = wd)
    BY Zenon, <1>6 DEF Paths, Summary
  <2>2. CASE text \in outputs
    <3>1. PICK t \in e.outputs : text = Exact(ScopedPath(t, base, scope))
      BY <2>2 DEF Output
    <3> DEFINE path == ScopedPath(t, base, scope)
    <3>2. path # NoPath
      BY <1>5, <2>2, <3>1
    <3>3. InScope(path)
      BY <1>1, <1>4, <3>2, ScopedPathOK
    <3> HIDE DEF path
    <3>4. text.form = "absolute" /\ text.parts = path
      BY Zenon, <3>1 DEF Exact, Text, path
    <3> QED BY <3>3, <3>4
  <2>3. CASE e.wd # None /\ text = wd
    <3>1. wdPath # NoPath
      BY <1>5, <2>3
    <3>2. InScope(wdPath)
      BY <1>3, <2>3, <3>1
    <3> HIDE DEF wdPath
    <3>3. text.form = "absolute" /\ text.parts = wdPath
      BY <2>3 DEF Exact, Text
    <3> QED BY <3>2, <3>3
  <2> QED BY <2>1, <2>2, <2>3
<1>7. s.by = Owner
  BY Zenon DEF Summary
<1> QED BY <1>5, <1>6, <1>7

-----------------------------------------------------------------------------
(* The steps *)

(* What a stored event must be implies what its type says. *)
LEMMA EventType ==
    ASSUME NEW e, EventOK(e), NEW text \in Paths(e), text.form = "absolute"
    PROVE  text.parts = Clean(text.parts)
<1>1. CASE e.by = Owner
  <2>1. text.parts \in Seq(Name)
    BY <1>1 DEF EventOK, Path
  <2> QED BY <2>1, CleanSame
<1>2. CASE e.by # Owner
  BY <1>2 DEF EventOK, SafeAlias
<1> QED BY <1>1, <1>2

(* A step that leaves the report and the table alone *)
LEMMA ReportUntouched ==
    ASSUME IntakeInv, UNCHANGED <<phase, roots, aliases, report, targets, revisions>>,
           identity' \in [RootPaths -> Identities], links' \in Links,
           grants' \subseteq Grants,
           phase # "active" => events' = {},
           \A e \in events' : EventOK(e)
    PROVE  IntakeInv'
<1>1. Candidate' = Candidate
  BY DEF Candidate
<1>2. \A e \in events' : \A text \in Paths(e) :
          text.form = "absolute" => text.parts = Clean(text.parts)
  BY EventType
<1>3. TypeOK'
  BY <1>1, <1>2 DEF IntakeInv, TypeOK
<1>4. \A c \in report' : CandidateOK(c)'
  BY DEF IntakeInv, CandidateOK
<1> QED BY <1>1, <1>3, <1>4 DEF IntakeInv

(* The table of a scope binds it. *)
LEMMA NewBinds ==
    ASSUME NEW scope \in Scopes, Validate(scope, Home)
    PROVE  Binds(New(scope, identity), scope)
BY DEF Binds, New

(* Begin: there is no report yet, and the new table binds the scope. *)
LEMMA BeginMoves ==
    ASSUME IntakeInv, NEW scope \in Scopes, Begin(scope)
    PROVE  IntakeInv'
<1>1. report = {} /\ revisions = <<>> /\ events = {} /\ report' = {}
      /\ revisions' = <<>> /\ events' = {} /\ phase' = "active"
      /\ roots' = scope /\ targets' = targets
  BY DEF Begin, IntakeInv, chain
<1>2. Binds(aliases, roots)'
  BY <1>1, NewBinds DEF Begin
<1>3. TypeOK'
  BY <1>1 DEF Begin, IntakeInv, TypeOK, world, chain
<1>4. targets' = [id \in {c.id : c \in report'} |-> id]
  BY <1>1 DEF IntakeInv
<1>5. revisions' \in Seq(SUBSET Candidate')
  BY <1>1
<1> QED BY <1>1, <1>2, <1>3, <1>4, <1>5 DEF IntakeInv

(* Verify: a revision has the candidates of the one before, with another   *)
(* status.                                                                 *)
LEMMA VerifyMoves ==
    ASSUME IntakeInv, Verify
    PROVE  IntakeInv'
<1>1. UNCHANGED <<identity, links, phase, roots, aliases, grants, events, report, targets>>
      /\ phase = "completed"
  BY DEF Verify, world, task
<1>2. PICK status \in [{c.id : c \in Latest} -> Found] :
          revisions' = Append(revisions,
              {[c EXCEPT !.status = status[c.id]] : c \in Latest})
  BY Zenon DEF Verify
<1> DEFINE New1 == {[c EXCEPT !.status = status[c.id]] : c \in Latest}
<1>3. Latest \subseteq Candidate
  <2>1. report \subseteq Candidate /\ revisions \in Seq(SUBSET Candidate)
    BY DEF IntakeInv, TypeOK
  <2>2. revisions # <<>> => revisions[Len(revisions)] \in SUBSET Candidate
    BY <2>1
  <2> QED BY <2>1, <2>2 DEF Latest
<1>4. New1 \subseteq Candidate
  <2>1. ASSUME NEW c \in Latest
        PROVE  [c EXCEPT !.status = status[c.id]] \in Candidate
    <3>1. c \in Candidate /\ status[c.id] \in Found
      BY <1>3
    <3> QED BY <3>1 DEF Candidate
  <2> QED BY <2>1
<1>5. Candidate' = Candidate
  BY <1>1 DEF Candidate
<1> HIDE DEF New1
<1>6. revisions' \in Seq(SUBSET Candidate)
  BY <1>2, <1>4 DEF IntakeInv, New1
<1>7. TypeOK'
  <2>1. \A n \in DOMAIN revisions' : revisions'[n] \subseteq Candidate
    BY <1>6
  <2> QED BY <1>1, <1>5, <2>1 DEF IntakeInv, TypeOK
<1>8. \A c \in report' : CandidateOK(c)'
  BY <1>1 DEF IntakeInv, CandidateOK
<1> QED BY <1>1, <1>5, <1>6, <1>7, <1>8 DEF IntakeInv

(* A candidate as BuildReport makes it, before its path is hidden *)
Reported ==
    [id: {n.path : n \in Tree}, path: {n.path : n \in Tree}, dir: BOOLEAN,
     status: {"PRESENT", "CHANGED_SINCE_REPORT"} \cup Found, conflict: BOOLEAN,
     level: {"BASELINE_OBSERVED", "EVENT_BOUND", "UNATTRIBUTED"}]

(* What a scan finds is of the tree and below a root of the scope. *)
LEMMA ScanFinds ==
    ASSUME NEW scope \in Scopes, NEW found \in Scans[scope], NEW f \in found
    PROVE  /\ f.path \in {n.path : n \in Tree} /\ f.dir \in BOOLEAN
           /\ f.status \in {"PRESENT", "CHANGED_SINCE_REPORT"}
           /\ \E i \in DOMAIN scope : PathWithin(scope[i], f.path)
<1> DEFINE nodes == {n \in Tree : \E r \in Range(scope) : PathWithin(r, n.path)}
           Statuses == {"PRESENT", "CHANGED_SINCE_REPORT"}
           Seen(ns, st) == {[path |-> n.path, dir |-> n.dir, status |-> st[n]] : n \in ns}
<1>1. Scans[scope] =
          UNION {{Seen(ns, st) : st \in [ns -> Statuses]} : ns \in SUBSET nodes}
  BY DEF Scans
<1>2. PICK ns \in SUBSET nodes : \E st \in [ns -> Statuses] : found = Seen(ns, st)
  BY <1>1
<1>7. PICK st \in [ns -> Statuses] : found = Seen(ns, st)
  BY <1>2
<1>3. PICK n \in ns : f = [path |-> n.path, dir |-> n.dir, status |-> st[n]]
  BY <1>7
<1>4. n \in Tree /\ n.dir \in BOOLEAN /\ st[n] \in Statuses
  BY <1>2, <1>7, <1>3, PathsAssumption
<1>5. \E i \in DOMAIN scope : PathWithin(scope[i], n.path)
  BY <1>3 DEF Range
<1>6. f.path = n.path /\ f.dir = n.dir /\ f.status = st[n]
  BY <1>3
<1> QED BY <1>4, <1>5, <1>6

(* So are the candidates of the report that is made of it. *)
LEMMA BuildReportOK ==
    ASSUME NEW scope \in Scopes, NEW found \in Scans[scope], NEW evs,
           NEW baseline \in BOOLEAN, NEW c \in BuildReport(found, evs, baseline)
    PROVE  /\ c \in Reported /\ c.path = c.id
           /\ \E i \in DOMAIN scope : PathWithin(scope[i], c.id)
<1>1. PICK f \in found :
          c = [id |-> f.path, path |-> f.path, dir |-> f.dir, status |-> f.status,
               conflict |-> \E e \in Matching(evs, f.path) :
                                e.type = "cleanup_attempted",
               level |-> IF baseline THEN "BASELINE_OBSERVED"
                         ELSE IF Matching(evs, f.path) = {}
                              THEN "UNATTRIBUTED" ELSE "EVENT_BOUND"]
  BY DEF BuildReport
<1> DEFINE conflict == \E e \in Matching(evs, f.path) : e.type = "cleanup_attempted"
           level == IF baseline THEN "BASELINE_OBSERVED"
                    ELSE IF Matching(evs, f.path) = {}
                         THEN "UNATTRIBUTED" ELSE "EVENT_BOUND"
<1>2. conflict \in BOOLEAN
      /\ level \in {"BASELINE_OBSERVED", "EVENT_BOUND", "UNATTRIBUTED"}
  OBVIOUS
<1>3. c = [id |-> f.path, path |-> f.path, dir |-> f.dir, status |-> f.status,
           conflict |-> conflict, level |-> level]
  BY <1>1
<1> HIDE DEF conflict, level
<1>4. /\ f.path \in {n.path : n \in Tree} /\ f.dir \in BOOLEAN
      /\ f.status \in {"PRESENT", "CHANGED_SINCE_REPORT"}
      /\ \E i \in DOMAIN scope : PathWithin(scope[i], f.path)
  BY ScanFinds
<1>5. c.id = f.path /\ c.path = f.path
  BY <1>3
<1>6. c \in Reported
  BY <1>2, <1>3, <1>4 DEF Reported
<1> QED BY <1>4, <1>5, <1>6

(* The report that is stored: End, EndFailed, Inspect *)
LEMMA CompleteMoves ==
    ASSUME IntakeInv, phase # "completed", NEW candidates, NEW table,
           Complete(candidates, table),
           candidates # {} => \E scope \in Scopes : Binds(table, scope),
           \A c \in candidates :
               /\ c \in Reported /\ c.path = c.id
               /\ \E i \in DOMAIN table : PathWithin(table[i].path, c.id)
    PROVE  IntakeInv'
<1> DEFINE Hide(c) == [c EXCEPT !.path = Project(table, @)]
<1>1. phase' = "completed" /\ aliases' = table /\ grants' = {} /\ events' = {}
      /\ report' = {Hide(c) : c \in candidates}
      /\ targets' = [id \in {c.id : c \in candidates} |-> id]
      /\ UNCHANGED <<identity, links, roots, revisions>> /\ revisions = <<>>
  BY DEF Complete, world, IntakeInv
<1>2. ASSUME NEW c \in candidates
      PROVE  /\ Hide(c) \in Candidate' /\ Hide(c).id = c.id /\ c.id \in Path
             /\ Hide(c).path = Project(table, c.id)
  <2>1. c \in Reported /\ c.path = c.id
    OBVIOUS
  <2>2. PICK n \in Tree : c.id = n.path
    BY Zenon, <2>1 DEF Reported
  <2>3. Project(table, c.path) \in {Project(table, m.path) : m \in Tree}
    BY <2>1, <2>2
  <2>4. Hide(c) = [c EXCEPT !.path = Project(table, c.path)]
    BY <2>1 DEF Reported
  <2> DEFINE hidden == Project(table, c.path)
  <2> HIDE DEF hidden
  <2>5. [c EXCEPT !.path = hidden].id = c.id /\ [c EXCEPT !.path = hidden].path = hidden
    BY <2>1 DEF Reported
  <2>6. [c EXCEPT !.path = hidden] \in
            [id: {m.path : m \in Tree}, dir: BOOLEAN, conflict: BOOLEAN,
             status: {"PRESENT", "CHANGED_SINCE_REPORT"} \cup Found,
             level: {"BASELINE_OBSERVED", "EVENT_BOUND", "UNATTRIBUTED"},
             path: {Project(table, m.path) : m \in Tree}]
    BY <2>1, <2>3 DEF Reported, hidden
  <2>7. Hide(c) \in Candidate'
    BY <1>1, <2>4, <2>6 DEF Candidate, hidden
  <2>8. c.id \in Path
    BY <2>2, PathsAssumption
  <2> QED BY <2>1, <2>4, <2>5, <2>7, <2>8 DEF hidden
<1>3. report' \subseteq Candidate'
  BY <1>1, <1>2
<1>5. \A c \in report' : CandidateOK(c)'
  BY Zenon, <1>1, <1>2 DEF CandidateOK
<1> HIDE DEF Hide
<1>4. {c.id : c \in report'} = {c.id : c \in candidates}
  <2>1. \A c \in candidates : Hide(c).id = c.id
    BY <1>2
  <2>2. report' = {Hide(c) : c \in candidates}
    BY <1>1
  <2> DEFINE new == report'
  <2> HIDE DEF new
  <2>3. ASSUME NEW id PROVE id \in {c.id : c \in new} <=> id \in {c.id : c \in candidates}
    BY <2>1, <2>2 DEF new
  <2>4. {c.id : c \in new} = {c.id : c \in candidates}
    BY <2>3, Zenon
  <2> QED BY <2>4 DEF new
<1>6. TypeOK'
  <2>1. DOMAIN targets' = {c.id : c \in report'}
    BY <1>1, <1>4, Zenon
  <2>2. \A n \in DOMAIN revisions' : revisions'[n] \subseteq Candidate'
    BY <1>1
  <2>3. identity' \in [RootPaths -> Identities] /\ links' \in Links
    BY <1>1 DEF IntakeInv, TypeOK
  <2> QED BY Zenon, <1>1, <1>3, <2>1, <2>2, <2>3 DEF TypeOK
<1>7. report' # {} => \E scope \in Scopes : Binds(table, scope)
  BY <1>1
<1>8. targets' = [id \in {c.id : c \in report'} |-> id]
  BY Zenon, <1>1, <1>4
<1>9. revisions' \in Seq(SUBSET Candidate')
  BY <1>1
<1> QED BY Zenon, <1>1, <1>5, <1>6, <1>7, <1>8, <1>9 DEF IntakeInv

(* Batches are made of the inputs. *)
LEMMA BatchOf ==
    ASSUME NEW inputs, NEW batch \in Batches(inputs), NEW e \in batch
    PROVE  e \in inputs
BY DEF Batches, kSubset

(* AppendEvents stores exact paths of the scope. *)
LEMMA OwnerStores ==
    ASSUME IntakeInv, AppendEvents, NEW e \in events' \ events
    PROVE  /\ e.by = Owner
           /\ \A text \in Paths(e) :
                 /\ text.form = "absolute" /\ text.parts \in Path
                 /\ \E i \in DOMAIN roots :
                       /\ PathWithin(roots[i], text.parts)
                       /\ PathWithin(EvalSymlinks(links, roots[i]),
                                     EvalSymlinks(links, text.parts))
<1>1. PICK batch \in Batches(OwnerInputs) :
          /\ None \notin {Normalize(f, roots) : f \in batch}
          /\ events' = events \cup {Normalize(f, roots) : f \in batch}
  BY DEF AppendEvents, OwnerBatches, Store
<1>2. PICK f \in batch : e = Normalize(f, roots)
  BY <1>1
<1>3. f \in OwnerInputs /\ Normalize(f, roots) # None
  BY <1>1, BatchOf
<1>4. roots \in Scopes /\ Validate(roots, Home) /\ links \in Links
  BY DEF AppendEvents, IntakeInv, Binds, TypeOK
<1> QED BY <1>2, <1>3, <1>4, NormalizeOK

(* AppendExecutorEvents stores aliases within the executor's grant. *)
LEMMA ExecutorStores ==
    ASSUME IntakeInv, NEW g \in Grants, AppendExecutorEvents(g),
           NEW e \in events' \ events
    PROVE  e.by # Owner /\ EventOK(e)
<1>1. PICK batch \in Batches(ExecutorInputs) :
          /\ \A f \in batch : \A text \in Paths(f) :
                SafeAlias(text) /\ AllowedAlias(g.roots, text)
          /\ events' = events \cup {Summary(f, g, f.wd, f.outputs) : f \in batch}
  BY DEF AppendExecutorEvents, ExecutorBatches, Store
<1>2. PICK f \in batch : e = Summary(f, g, f.wd, f.outputs)
  BY <1>1
<1>3. f \in ExecutorInputs
  BY BatchOf
<1>4. e.by = g /\ e.wd = f.wd /\ e.outputs = f.outputs
  BY <1>2 DEF Summary
<1>5. Paths(e) = Paths(f)
  BY <1>4 DEF Paths
<1>6. \A text \in Paths(f) : text \in Texts
  BY <1>3, InputsAssumption DEF Paths
<1>7. g # Owner
  BY InputsAssumption DEF Owner
<1> QED BY <1>1, <1>4, <1>5, <1>6, <1>7 DEF EventOK

(* The initial state *)
LEMMA IntakeInit == Init => IntakeInv
<1> SUFFICES ASSUME Init PROVE IntakeInv
  OBVIOUS
<1>1. identity \in [RootPaths -> Identities] /\ links \in Links
  BY IdentitiesAssumption, LinksAssumption DEF Init
<1>2. TypeOK
  <2>1. DOMAIN targets = {c.id : c \in report}
    BY DEF Init
  <2> QED BY <1>1, <2>1 DEF Init, TypeOK
<1>3. targets = [id \in {c.id : c \in report} |-> id]
  BY DEF Init
<1> QED BY <1>2, <1>3 DEF Init, IntakeInv

(* Every step keeps the invariant. *)
LEMMA IntakeNext == IntakeInv /\ [Next]_vars => IntakeInv'
<1> SUFFICES ASSUME IntakeInv, [Next]_vars PROVE IntakeInv'
  OBVIOUS
<1>1. /\ identity \in [RootPaths -> Identities] /\ links \in Links
      /\ grants \subseteq Grants /\ \A e \in events : EventOK(e)
      /\ phase # "active" => events = {}
  BY DEF IntakeInv, TypeOK
<1>2. CASE UNCHANGED vars
  BY <1>1, <1>2, ReportUntouched DEF vars, world, task, chain
<1>3. ASSUME NEW r \in RootPaths, ReplaceRoot(r)
      PROVE  IntakeInv'
  <2>1. identity' \in [RootPaths -> Identities]
    BY <1>1, <1>3 DEF ReplaceRoot
  <2> QED BY <1>1, <1>3, <2>1, ReportUntouched DEF ReplaceRoot, task, chain
<1>4. CASE Relink
  BY <1>1, <1>4, ReportUntouched DEF Relink, task, chain
<1>5. ASSUME NEW scope \in Scopes, Begin(scope)
      PROVE  IntakeInv'
  BY <1>5, BeginMoves
<1>6. ASSUME NEW scope \in Scopes, Inspect(scope)
      PROVE  IntakeInv'
  <2> DEFINE table == New(scope, identity)
  <2>1. PICK batch \in OwnerBatches, found \in Scans[scope] :
            Complete(BuildReport(found, {Normalize(e, scope) : e \in batch}, FALSE),
                     table)
    BY Zenon, <1>6 DEF Inspect
  <2> DEFINE evs == {Normalize(e, scope) : e \in batch}
             candidates == BuildReport(found, evs, FALSE)
  <2>2. Binds(table, scope) /\ phase # "completed"
    BY Zenon, <1>6, NewBinds DEF Inspect
  <2> HIDE DEF evs, table
  <2>3. \A c \in candidates :
            /\ c \in Reported /\ c.path = c.id
            /\ \E i \in DOMAIN scope : PathWithin(scope[i], c.id)
    BY Zenon, BuildReportOK
  <2>4. Complete(candidates, table)
    BY Zenon, <2>1 DEF evs
  <2> HIDE DEF candidates
  <2>5. \A c \in candidates : \E i \in DOMAIN table : PathWithin(table[i].path, c.id)
    BY <2>2, <2>3 DEF Binds
  <2> QED BY <2>2, <2>3, <2>4, <2>5, CompleteMoves
<1>7. CASE AppendEvents
  <2>1. \A e \in events' : EventOK(e)
    BY <1>1, <1>7, OwnerStores DEF EventOK
  <2> QED BY <1>1, <1>7, <2>1, ReportUntouched DEF AppendEvents, Store, world, chain
<1>8. ASSUME NEW g \in Grants, DelegateExecutor(g)
      PROVE  IntakeInv'
  BY <1>1, <1>8, ReportUntouched DEF DelegateExecutor, world, chain
<1>9. ASSUME NEW g \in Grants, AppendExecutorEvents(g)
      PROVE  IntakeInv'
  <2>1. \A e \in events' : EventOK(e)
    BY <1>1, <1>9, ExecutorStores
  <2> QED BY <1>1, <1>9, <2>1, ReportUntouched
          DEF AppendExecutorEvents, Store, world, chain
<1>10. CASE End
  <2>1. PICK found \in Scans[roots] :
            Complete(BuildReport(found, events, TRUE), aliases)
    BY Zenon, <1>10 DEF End
  <2> DEFINE candidates == BuildReport(found, events, TRUE)
  <2>2. Binds(aliases, roots) /\ roots \in Scopes /\ phase # "completed"
    BY Zenon, <1>10 DEF End, IntakeInv, Binds
  <2>3. \A c \in candidates :
            /\ c \in Reported /\ c.path = c.id
            /\ \E i \in DOMAIN roots : PathWithin(roots[i], c.id)
    BY Zenon, <2>2, BuildReportOK
  <2> HIDE DEF candidates
  <2>4. \A c \in candidates :
            \E i \in DOMAIN aliases : PathWithin(aliases[i].path, c.id)
    BY <2>2, <2>3 DEF Binds
  <2> QED BY Zenon, <2>1, <2>2, <2>3, <2>4, CompleteMoves DEF candidates
<1>11. CASE EndFailed
  BY <1>11, CompleteMoves DEF EndFailed
<1>12. CASE Verify
  BY <1>12, VerifyMoves
<1>13. ASSUME NEW revision, NEW start, NEW limit, NEW before,
              ReadPage(revision, start, limit, before)
       PROVE  IntakeInv'
  BY <1>1, <1>13, ReportUntouched DEF ReadPage, world, task, chain
<1> QED BY <1>2, <1>3, <1>4, <1>5, <1>6, <1>7, <1>8, <1>9, <1>10, <1>11, <1>12,
           <1>13 DEF Next, FirstPage, NextPage

(* The invariant holds in every state of every run of the model. *)
THEOREM IntakeInvAlways == Spec => []IntakeInv
BY IntakeInit, IntakeNext, PTL DEF Spec

-----------------------------------------------------------------------------
(* What follows *)

(* The types of the task, the report and its revisions, for any scope,     *)
(* inputs and grants (normalizeScopedPath, projectReportPaths).            *)
THEOREM TypeCorrect == Spec => []TypeOK
<1>1. IntakeInv => TypeOK
  BY DEF IntakeInv
<1> QED BY <1>1, IntakeInvAlways, PTL

(* An alias that End resolves does not come out as no path. *)
LEMMA ResolvesToPath ==
    ASSUME NEW path \in Path, path # <<>>, NEW text \in Texts,
           ~HasTraversal(text.parts)
    PROVE  Clean(path \o text.parts) # NoPath
<1> DEFINE clean == Clean(path \o text.parts)
<1>1. path \in Seq(Name) /\ path \in Seq(STRING) /\ path # NoPath
  <2>1. \A n \in Name : n \in STRING
    BY DEF Name
  <2>2. path \in Seq(Name) /\ path # NoPath
    BY DEF Path
  <2> QED BY <2>1, <2>2
<1>2. text.parts \in Seq(STRING) /\ \A i \in 1..Len(text.parts) : text.parts[i] # Up
  BY DEF Texts, HasTraversal, Range
<1>3. PathWithin(Clean(path), clean)
  BY <1>1, <1>2, CleanExtends
<1>4. clean \in Seq(Name)
  <2>1. path \o text.parts \in Seq(STRING)
    BY <1>1, <1>2
  <2> QED BY Zenon, <2>1, CleanType
<1> HIDE DEF clean
<1>5. Len(path) <= Len(clean) /\ \A i \in 1..Len(path) : path[i] = clean[i]
  BY <1>1, <1>3, <1>4, CleanSame, PrefixParts
<1>6. ASSUME clean = NoPath PROVE FALSE
  <2>1. Len(clean) = 1 /\ clean[1] = "none"
    BY <1>6 DEF NoPath
  <2>2. Len(path) = 1
    <3>1. Len(path) \in Nat /\ Len(path) # 0
      BY <1>1
    <3>2. Len(path) <= 1
      BY <1>5, <2>1
    <3>3. \A n \in Nat : n # 0 /\ n <= 1 => n = 1
      OBVIOUS
    <3> QED BY <3>1, <3>2, <3>3, Zenon
  <2>3. path[1] = "none"
    BY <1>5, <2>1, <2>2
  <2>4. path = <<"none">>
    BY <1>1, <2>2, <2>3
  <2> QED BY <1>1, <2>4 DEF NoPath
<1> QED BY <1>6 DEF clean

(* No path of the owner fails to expand, and an executor's only with an    *)
(* alias that is not one of a root as it was bound (Normalize, safeAlias,  *)
(* expandAliasedEvents), whatever was declared and however it is spelt.    *)
THEOREM EndIsStoppedOnlyBy == Spec => []EndStoppedBy
<1>1. IntakeInv => EndStoppedBy
  <2> SUFFICES ASSUME IntakeInv, NEW e \in events, NEW text \in Paths(e),
                      Expand(text) = NoPath
               PROVE  /\ e.by # Owner
                      /\ \/ text.root \notin DOMAIN aliases
                         \/ identity[aliases[text.root].path]
                                # aliases[text.root].identity
                         \/ IsAbs(text.parts)
    BY DEF EndStoppedBy
  <2>1. EventOK(e) /\ Binds(aliases, roots)
    BY DEF IntakeInv
  <2>2. e.by # Owner
    <3> SUFFICES ASSUME e.by = Owner PROVE FALSE
      OBVIOUS
    <3>1. text.form = "absolute" /\ text.parts \in Path
      BY <2>1 DEF EventOK
    <3> QED BY <3>1 DEF Expand, Path
  <2>3. text \in Texts /\ text.form = "alias" /\ ~HasTraversal(text.parts)
    BY <2>1, <2>2 DEF EventOK, SafeAlias
  <2>4. ASSUME text.root \in DOMAIN aliases,
               identity[aliases[text.root].path] = aliases[text.root].identity,
               ~IsAbs(text.parts)
        PROVE  FALSE
    <3> DEFINE path == aliases[text.root].path
    <3>1. Clean(path \o text.parts) = NoPath
      BY <2>3, <2>4 DEF Expand, Resolve
    <3>2. path \in Path /\ path # <<>>
      BY Zenon, <2>1, <2>4, RootBound
    <3> QED BY <2>3, <3>1, <3>2, ResolvesToPath
  <2> QED BY <2>2, <2>4
<1> QED BY <1>1, IntakeInvAlways, PTL

(* ResolveCandidate tells the path that was observed, exactly while the    *)
(* root is the directory that was bound (Project, Resolve).                *)
THEOREM ResolutionIsExact == Spec => []ResolvesToTarget
<1>1. IntakeInv => ResolvesToTarget
  <2> SUFFICES ASSUME IntakeInv, NEW c \in report
               PROVE  LET bound == CHOOSE i \in DOMAIN aliases :
                                       PathWithin(aliases[i].path, c.id)
                      IN  ResolveCandidate(c.id) =
                              IF identity[aliases[bound].path]
                                     = aliases[bound].identity
                              THEN c.id ELSE Denied
    BY DEF ResolvesToTarget
  <2> DEFINE bound == CHOOSE i \in DOMAIN aliases : PathWithin(aliases[i].path, c.id)
             named == CHOOSE d \in report : d.id = c.id
  <2>1. PICK scope \in Scopes : Binds(aliases, scope)
    BY Zenon DEF IntakeInv
  <2>2. /\ c.id \in Seq(Name) /\ c.id # NoPath
        /\ \E i \in DOMAIN aliases : PathWithin(aliases[i].path, c.id)
    BY Zenon DEF IntakeInv, CandidateOK, Path
  <2>3. bound \in DOMAIN aliases /\ PathWithin(aliases[bound].path, c.id)
    BY <2>2
  <2>4. named \in report /\ named.id = c.id
    OBVIOUS
  <2>5. named.path = Project(aliases, c.id)
    BY <2>4 DEF IntakeInv, CandidateOK
  <2>6. c.id \in DOMAIN targets /\ targets[c.id] = c.id
    BY DEF IntakeInv
  <2> HIDE DEF bound
  <2>7. Resolve(aliases, identity, Project(aliases, c.id)) =
            IF identity[aliases[bound].path] = aliases[bound].identity
            THEN c.id ELSE NoPath
    BY <2>1, <2>2, <2>3, ProjectResolves
  <2>8. ResolveCandidate(c.id) =
            IF Resolve(aliases, identity, named.path) # c.id THEN Denied ELSE c.id
    BY <2>6 DEF ResolveCandidate
  <2> HIDE DEF named
  <2> QED BY Zenon, <2>2, <2>5, <2>7, <2>8 DEF bound
<1> QED BY <1>1, IntakeInvAlways, PTL

(* What the steps of the model do to the stored events and to the report *)
LEMMA StepKinds ==
    ASSUME [Next]_vars
    PROVE  \/ events' = events /\ report' = report
           \/ AppendEvents
           \/ \E g \in Grants : AppendExecutorEvents(g)
           \/ phase # "active" /\ events' = {}
           \/ (End \/ EndFailed) /\ events' = {}
<1>1. CASE UNCHANGED vars
  BY <1>1 DEF vars, task, chain
<1>2. ASSUME NEW r \in RootPaths, ReplaceRoot(r)
      PROVE  events' = events /\ report' = report
  BY <1>2 DEF ReplaceRoot, task, chain
<1>3. CASE Relink
  BY <1>3 DEF Relink, task, chain
<1>4. ASSUME NEW scope \in Scopes, Begin(scope)
      PROVE  events' = events /\ report' = report
  BY <1>4 DEF Begin, chain
<1>5. ASSUME NEW scope \in Scopes, Inspect(scope)
      PROVE  phase # "active" /\ events' = {}
  BY <1>5 DEF Inspect, Complete
<1>6. ASSUME NEW g \in Grants, DelegateExecutor(g)
      PROVE  events' = events /\ report' = report
  BY <1>6 DEF DelegateExecutor, chain
<1>7. End \/ EndFailed => events' = {}
  BY Zenon DEF End, EndFailed, Complete
<1>8. CASE Verify
  BY <1>8 DEF Verify, task
<1>9. ASSUME NEW revision, NEW start, NEW limit, NEW before,
             ReadPage(revision, start, limit, before)
      PROVE  events' = events /\ report' = report
  BY <1>9 DEF ReadPage, task, chain
<1> QED BY <1>1, <1>2, <1>3, <1>4, <1>5, <1>6, <1>7, <1>8, <1>9
        DEF Next, FirstPage, NextPage

(* What the owner names is stored only when it is in the scope, by its     *)
(* names and where links lead (normalizeScopedPath), wherever there are    *)
(* links.                                                                  *)
THEOREM OwnerPathsInScope == Spec => StoredInScope
<1>1. ASSUME IntakeInv, [Next]_vars, NEW e \in events' \ events, e.by = Owner,
             NEW text \in Paths(e)
      PROVE  \E i \in DOMAIN roots :
                 /\ PathWithin(roots[i], text.parts)
                 /\ PathWithin(EvalSymlinks(links, roots[i]),
                               EvalSymlinks(links, text.parts))
  <2>1. AppendEvents
    BY <1>1, StepKinds, ExecutorStores
  <2> QED BY <1>1, <2>1, OwnerStores
<1>2. IntakeInv /\ [Next]_vars =>
          [\A e \in events' \ events : e.by = Owner =>
              \A text \in Paths(e) : \E i \in DOMAIN roots :
                  /\ PathWithin(roots[i], text.parts)
                  /\ PathWithin(EvalSymlinks(links, roots[i]),
                                EvalSymlinks(links, text.parts))]_events
  BY <1>1
<1> QED BY <1>2, IntakeInvAlways, PTL DEF Spec, StoredInScope

(* Evidence from an executor reaches no candidate outside what it was      *)
(* given (normalizeExecutorEvents, allowedAlias, expandAliasedEvents),     *)
(* for any grant, any alias and any replacement of the roots.              *)
THEOREM EvidenceWithinGrant == Spec => BoundWithinGrant
<1> DEFINE Granted(c, e) ==
               \E g \in e.by.roots :
                   /\ g.root \in DOMAIN aliases
                   /\ PathWithin(Clean(aliases[g.root].path \o g.parts), c.id)
                   /\ identity[aliases[g.root].path] = aliases[g.root].identity
<1>1. ASSUME IntakeInv, [Next]_vars, phase = "active", report' # report,
             NEW c \in report', NEW e \in Matching(events, c.id), e.by # Owner
      PROVE  Granted(c, e)
  <2>1. IntakeInv'
    BY <1>1, IntakeNext
  <2>2. c.id \in Path
    BY <2>1 DEF IntakeInv, CandidateOK
  <2>3. PICK text \in e.outputs : Expand(text) = c.id
    BY DEF Matching
  <2>4. e \in events /\ text \in Paths(e)
    BY DEF Matching, Paths
  <2>5. /\ e.by \in Grants /\ text \in Texts /\ SafeAlias(text)
        /\ AllowedAlias(e.by.roots, text)
    BY <1>1, <2>4 DEF IntakeInv, EventOK
  <2>6. PICK g \in e.by.roots :
            /\ text.root = g.root
            /\ \/ text.parts = g.parts
               \/ Descendant(TrimSuffix(g.parts), text.parts)
    BY <2>5 DEF AllowedAlias
  <2>7. g \in Texts
    BY <2>5, <2>6, InputsAssumption
  <2>8. /\ g.root \in DOMAIN aliases /\ ~HasTraversal(text.parts)
        /\ identity[aliases[g.root].path] = aliases[g.root].identity
        /\ c.id = Clean(aliases[g.root].path \o text.parts)
    BY Zenon, <2>2, <2>3, <2>5, <2>6 DEF Expand, SafeAlias, Resolve, Path
  <2> DEFINE path == aliases[g.root].path
  <2>9. path \in Seq(STRING)
    <3>1. Binds(aliases, roots)
      BY Zenon, <1>1 DEF IntakeInv
    <3> QED BY Zenon, <2>8, <3>1, RootBound
  <2> HIDE DEF path
  <2>10. PathWithin(Clean(path \o g.parts), Clean(path \o text.parts))
    BY Zenon, <2>6, <2>7, <2>8, <2>5, <2>9, GrantHolds
  <2> QED BY Zenon, <2>6, <2>8, <2>10 DEF path
<1>2. IntakeInv /\ [Next]_vars =>
          [phase = "active" =>
              \A c \in report' :
                  \A e \in {e \in Matching(events, c.id) : e.by # Owner} :
                      Granted(c, e)]_report
  BY Zenon, <1>1
<1> QED BY <1>2, IntakeInvAlways, PTL DEF Spec, BoundWithinGrant

-----------------------------------------------------------------------------
(* The order of aliases *)

(* Aliases whose names have a place in the order *)
AliasPath == [form: {"alias"}, root: Nat, parts: Seq(Range(Names))]

(* A name has one place. *)
LEMMA RankOK ==
    ASSUME NEW m \in Range(Names), NEW n \in Range(Names)
    PROVE  Rank(m) \in Nat /\ (Rank(m) = Rank(n) => m = n)
<1>1. ASSUME NEW x \in Range(Names)
      PROVE  Rank(x) \in DOMAIN Names /\ Names[Rank(x)] = x
  <2>1. \E i \in DOMAIN Names : Names[i] = x
    BY DEF Range
  <2> QED BY <2>1, Zenon DEF Rank
<1>2. DOMAIN Names \subseteq Nat
  BY NamesAssumption
<1> QED BY <1>1, <1>2

(* Two lists of names agree up to place i, where the first ends or has the *)
(* name that comes first.                                                  *)
Splits(s, t, i) ==
    /\ i \in Nat /\ i # 0 /\ i - 1 <= Len(s) /\ i <= Len(t)
    /\ \A j \in 1..(i - 1) : s[j] = t[j]
    /\ i <= Len(s) => Rank(s[i]) < Rank(t[i])

(* This is how names decide about the order of two aliases. *)
LEMMA BeforeSplits ==
    ASSUME NEW p \in AliasPath, NEW q \in AliasPath, p.root = q.root
    PROVE  Before(p, q) <=> \E i : Splits(p.parts, q.parts, i)
<1> DEFINE s == p.parts
           t == q.parts
<1>1. s \in Seq(Range(Names)) /\ t \in Seq(Range(Names)) /\ p.root \in Nat
  BY DEF AliasPath
<1>2. Before(p, q) <=>
          \/ Descendant(s, t)
          \/ \E i \in DOMAIN s \cap DOMAIN t :
                (\A j \in 1..(i - 1) : s[j] = t[j]) /\ Rank(s[i]) < Rank(t[i])
  BY <1>1 DEF Before
<1> HIDE DEF s, t
<1>3. Len(s) \in Nat /\ Len(t) \in Nat /\ DOMAIN s = 1..Len(s) /\ DOMAIN t = 1..Len(t)
  BY <1>1
<1>4. ASSUME Descendant(s, t) PROVE \E i : Splits(s, t, i)
  <2>1. Len(s) <= Len(t) /\ \A i \in 1..Len(s) : s[i] = t[i]
    BY <1>1, <1>4, PrefixParts DEF Descendant
  <2>2. Len(s) # Len(t)
    <3> SUFFICES ASSUME Len(s) = Len(t) PROVE FALSE
      OBVIOUS
    <3>1. s = t
      BY <1>1, <2>1
    <3> QED BY <1>4, <3>1 DEF Descendant
  <2> DEFINE k == Len(s) + 1
  <2>3. k \in Nat /\ k # 0 /\ k - 1 = Len(s) /\ k <= Len(t) /\ ~ (k <= Len(s))
    <3>1. \A m, n \in Nat : m <= n /\ m # n =>
              /\ m + 1 \in Nat /\ m + 1 # 0 /\ (m + 1) - 1 = m
              /\ m + 1 <= n /\ ~ (m + 1 <= m)
      OBVIOUS
    <3> QED BY <1>3, <2>1, <2>2, <3>1, Zenon
  <2> HIDE DEF k
  <2>4. Splits(s, t, k)
    BY <1>3, <2>1, <2>3 DEF Splits
  <2> QED BY <2>4
<1>5. ASSUME NEW i \in DOMAIN s \cap DOMAIN t,
             \A j \in 1..(i - 1) : s[j] = t[j], Rank(s[i]) < Rank(t[i])
      PROVE  Splits(s, t, i)
  BY <1>3, <1>5 DEF Splits
<1>6. ASSUME NEW i, Splits(s, t, i), i <= Len(s)
      PROVE  /\ i \in DOMAIN s \cap DOMAIN t
             /\ (\A j \in 1..(i - 1) : s[j] = t[j]) /\ Rank(s[i]) < Rank(t[i])
  BY <1>3, <1>6 DEF Splits
<1>7. ASSUME NEW i, Splits(s, t, i), ~ (i <= Len(s))
      PROVE  Descendant(s, t)
  <2>1. Len(s) = i - 1 /\ Len(s) < Len(t) /\ \A j \in 1..Len(s) : s[j] = t[j]
    BY <1>3, <1>7 DEF Splits
  <2>2. PathWithin(s, t)
    BY <1>1, <1>3, <2>1, PrefixParts
  <2>3. s # t
    BY <1>3, <2>1
  <2> QED BY <2>2, <2>3 DEF Descendant
<1>8. (\E i : Splits(s, t, i)) => Before(p, q)
  BY <1>2, <1>6, <1>7
<1>9. Before(p, q) => \E i : Splits(s, t, i)
  BY <1>2, <1>4, <1>5
<1> QED BY <1>8, <1>9 DEF s, t

(* Splits goes over two steps. *)
LEMMA SplitsTwice ==
    ASSUME NEW s \in Seq(Range(Names)), NEW t \in Seq(Range(Names)),
           NEW u \in Seq(Range(Names)), NEW i, Splits(s, t, i), NEW k, Splits(t, u, k)
    PROVE  Splits(s, u, IF i < k THEN i ELSE k)
<1>1. Len(s) \in Nat /\ Len(t) \in Nat /\ Len(u) \in Nat /\ i \in Nat /\ k \in Nat
  BY DEF Splits
<1>2. /\ i # 0 /\ i - 1 <= Len(s) /\ i <= Len(t) /\ \A j \in 1..(i - 1) : s[j] = t[j]
      /\ i <= Len(s) => Rank(s[i]) < Rank(t[i])
  BY DEF Splits
<1>3. /\ k # 0 /\ k - 1 <= Len(t) /\ k <= Len(u) /\ \A j \in 1..(k - 1) : t[j] = u[j]
      /\ k <= Len(t) => Rank(t[k]) < Rank(u[k])
  BY DEF Splits
<1>4. CASE i < k
  <2>1. i \in 1..(k - 1) /\ i <= Len(u)
    BY <1>1, <1>2, <1>3, <1>4
  <2>2. \A j \in 1..(i - 1) : s[j] = u[j]
    BY <1>1, <1>2, <1>3, <1>4
  <2>3. i <= Len(s) => Rank(s[i]) < Rank(u[i])
    BY <1>2, <1>3, <2>1
  <2> QED BY <1>1, <1>2, <1>4, <2>1, <2>2, <2>3 DEF Splits
<1>5. CASE k < i
  <2>1. k \in 1..(i - 1) /\ k - 1 <= Len(s) /\ k <= Len(t) /\ ~ (i < k)
    BY <1>1, <1>2, <1>3, <1>5
  <2>2. \A j \in 1..(k - 1) : s[j] = u[j]
    BY <1>1, <1>2, <1>3, <1>5
  <2>3. Rank(s[k]) < Rank(u[k])
    BY <1>2, <1>3, <2>1
  <2> QED BY <1>1, <1>3, <2>1, <2>2, <2>3 DEF Splits
<1>6. CASE i = k
  <2>1. \A j \in 1..(k - 1) : s[j] = u[j]
    BY <1>1, <1>2, <1>3, <1>6
  <2>2. ASSUME k <= Len(s) PROVE Rank(s[k]) < Rank(u[k])
    <3>1. s[k] \in Range(Names) /\ t[k] \in Range(Names) /\ u[k] \in Range(Names)
      BY <1>1, <1>2, <1>3, <1>6, <2>2
    <3>2. Rank(s[k]) \in Nat /\ Rank(t[k]) \in Nat /\ Rank(u[k]) \in Nat
      BY <3>1, RankOK
    <3>3. Rank(s[k]) < Rank(t[k]) /\ Rank(t[k]) < Rank(u[k])
      BY <1>2, <1>3, <1>6, <2>2
    <3> QED BY <3>2, <3>3
  <2> QED BY <1>1, <1>2, <1>3, <1>6, <2>1, <2>2 DEF Splits
<1> QED BY <1>1, <1>4, <1>5, <1>6

(* Two different lists of names split one way or the other. *)
LEMMA SplitsSomewhere ==
    ASSUME NEW s \in Seq(Range(Names)), NEW t \in Seq(Range(Names)), s # t
    PROVE  \E i : Splits(s, t, i) \/ Splits(t, s, i)
<1> DEFINE Apart == {n \in Nat \ {0} : n > Len(s) \/ n > Len(t) \/ s[n] # t[n]}
<1>1. Len(s) \in Nat /\ Len(t) \in Nat
  OBVIOUS
<1>2. Len(s) + 1 \in Apart
  BY <1>1
<1>3. PICK i \in Apart : \A n \in Apart : i <= n
  BY Zenon, <1>2, LeastExists
<1>4. i \in Nat /\ i # 0
  OBVIOUS
<1>5. ASSUME NEW j \in 1..(i - 1)
      PROVE  j <= Len(s) /\ j <= Len(t) /\ s[j] = t[j]
  <2>1. j \notin Apart
    BY <1>3, <1>4
  <2> QED BY <1>1, <1>4, <2>1
<1>6. i - 1 <= Len(s) /\ i - 1 <= Len(t)
  BY <1>1, <1>4, <1>5
<1>7. CASE i <= Len(s) /\ i <= Len(t)
  <2>1. s[i] # t[i]
    BY <1>1, <1>4, <1>7
  <2>2. s[i] \in Range(Names) /\ t[i] \in Range(Names)
    BY <1>4, <1>7
  <2>3. Rank(s[i]) \in Nat /\ Rank(t[i]) \in Nat /\ Rank(s[i]) # Rank(t[i])
    BY <2>1, <2>2, RankOK
  <2>4. Rank(s[i]) < Rank(t[i]) \/ Rank(t[i]) < Rank(s[i])
    BY <2>3
  <2> QED BY <1>4, <1>5, <1>6, <1>7, <2>4 DEF Splits
<1>8. CASE ~ (i <= Len(s)) /\ i <= Len(t)
  BY Zenon, <1>4, <1>5, <1>6, <1>8 DEF Splits
<1>9. CASE i <= Len(s) /\ ~ (i <= Len(t))
  BY <1>4, <1>5, <1>6, <1>9 DEF Splits
<1>10. CASE ~ (i <= Len(s)) /\ ~ (i <= Len(t))
  <2>1. Len(s) = i - 1 /\ Len(t) = i - 1
    BY <1>1, <1>4, <1>6, <1>10
  <2>2. s = t
    BY <1>5, <2>1
  <2> QED BY <2>2
<1> QED BY <1>7, <1>8, <1>9, <1>10

(* Before is an order of aliases: it goes over two steps, *)
LEMMA BeforeTwice ==
    ASSUME NEW p \in AliasPath, NEW q \in AliasPath, NEW r \in AliasPath,
           Before(p, q), Before(q, r)
    PROVE  Before(p, r)
<1>1. p.root \in Nat /\ q.root \in Nat /\ r.root \in Nat
  BY DEF AliasPath
<1>2. CASE p.root = q.root /\ q.root = r.root
  <2>1. PICK i : Splits(p.parts, q.parts, i)
    BY <1>2, BeforeSplits
  <2>2. PICK k : Splits(q.parts, r.parts, k)
    BY <1>2, BeforeSplits
  <2>3. /\ p.parts \in Seq(Range(Names)) /\ q.parts \in Seq(Range(Names))
        /\ r.parts \in Seq(Range(Names))
    BY DEF AliasPath
  <2>4. \E n : Splits(p.parts, r.parts, n)
    BY <2>1, <2>2, <2>3, SplitsTwice
  <2> QED BY <1>2, <2>4, BeforeSplits
<1>3. ASSUME NEW a \in AliasPath, NEW b \in AliasPath, a.root # b.root
      PROVE  Before(a, b) <=> a.root # 1 /\ (b.root = 1 \/ a.root < b.root)
  BY <1>3 DEF Before
<1>4. CASE p.root # q.root /\ q.root = r.root
  BY <1>3, <1>4
<1>5. CASE p.root = q.root /\ q.root # r.root
  BY <1>3, <1>5
<1>6. CASE p.root # q.root /\ q.root # r.root
  <2>1. /\ p.root # 1 /\ (q.root = 1 \/ p.root < q.root)
        /\ q.root # 1 /\ (r.root = 1 \/ q.root < r.root)
    BY <1>3, <1>6
  <2>2. p.root # r.root /\ p.root # 1 /\ (r.root = 1 \/ p.root < r.root)
    BY <1>1, <2>1
  <2> QED BY <1>3, <2>2
<1> QED BY <1>2, <1>4, <1>5, <1>6

(* holds of no alias and itself, *)
LEMMA BeforeItself ==
    ASSUME NEW p \in AliasPath
    PROVE  ~Before(p, p)
<1> SUFFICES ASSUME Before(p, p) PROVE FALSE
  OBVIOUS
<1>1. PICK i : Splits(p.parts, p.parts, i)
  BY BeforeSplits
<1>2. p.parts \in Seq(Range(Names))
  BY DEF AliasPath
<1> DEFINE s == p.parts
<1> HIDE DEF s
<1>3. i \in Nat /\ i # 0 /\ i <= Len(s) /\ Rank(s[i]) < Rank(s[i])
  BY <1>1 DEF Splits, s
<1>4. s[i] \in Range(Names)
  BY <1>2, <1>3 DEF s
<1>5. Rank(s[i]) \in Nat
  BY <1>4, RankOK
<1> QED BY <1>3, <1>5

(* and of any two, one way. *)
LEMMA BeforeOrAfter ==
    ASSUME NEW p \in AliasPath, NEW q \in AliasPath, p # q
    PROVE  Before(p, q) \/ Before(q, p)
<1>1. p.root \in Nat /\ q.root \in Nat
      /\ p.parts \in Seq(Range(Names)) /\ q.parts \in Seq(Range(Names))
  BY DEF AliasPath
<1>2. CASE p.root = q.root
  <2>1. p.parts # q.parts
    BY <1>2 DEF AliasPath
  <2>2. PICK i : Splits(p.parts, q.parts, i) \/ Splits(q.parts, p.parts, i)
    BY <1>1, <2>1, SplitsSomewhere
  <2> QED BY <1>2, <2>2, BeforeSplits
<1>3. CASE p.root # q.root
  BY <1>1, <1>3 DEF Before
<1> QED BY <1>2, <1>3

(* Candidates that can be sorted: each is known by its alias. *)
Sortable(S) ==
    /\ IsFiniteSet(S)
    /\ \A c \in S : c.path \in AliasPath
    /\ \A c, d \in S : c.path = d.path => c = d

(* Sorted has them all, each after those that come before it. *)
LEMMA SortedOK ==
    ASSUME NEW S, Sortable(S)
    PROVE  LET s == Sorted(S)
           IN  /\ s \in Seq(S) /\ Range(s) = S
               /\ \A i, j \in 1..Len(s) : Before(s[i].path, s[j].path) => i < j
<1> DEFINE R == {e \in S \X S : Before(e[1].path, e[2].path)}
           k == Cardinality(S)
           s == Sorted(S)
<1>1. ASSUME NEW x \in S, NEW y \in S
      PROVE  <<x, y>> \in R <=> Before(x.path, y.path)
  OBVIOUS
<1>2. \A x \in S : x.path \in AliasPath
  BY DEF Sortable
<1> HIDE DEF R
<1>3. Orders(R, S)
  <2>1. ASSUME NEW x \in S, NEW y \in S, x # y
        PROVE  <<x, y>> \in R \/ <<y, x>> \in R
    <3>1. x.path # y.path
      BY <2>1 DEF Sortable
    <3>2. Before(x.path, y.path) \/ Before(y.path, x.path)
      BY <1>2, <3>1, BeforeOrAfter
    <3> QED BY <1>1, <3>2
  <2>2. ASSUME NEW x \in S, NEW y \in S, NEW z \in S, <<x, y>> \in R, <<y, z>> \in R
        PROVE  <<x, z>> \in R
    <3>1. Before(x.path, y.path) /\ Before(y.path, z.path)
      BY <1>1, <2>2
    <3>2. Before(x.path, z.path)
      BY <1>2, <3>1, BeforeTwice
    <3> QED BY <1>1, <3>2
  <2> QED BY <2>1, <2>2 DEF Orders
<1>4. k \in Nat
  BY FS_CardinalityType DEF Sortable
<1>5. PICK l : Lists(l, S, R)
  BY <1>3, ListExists DEF Sortable
<1>6. l \in [1..k -> S] /\ Range(l) = S
      /\ \A i, j \in DOMAIN l : i < j => Before(l[i].path, l[j].path)
  <2>1. l \in [1..k -> S] /\ (\A x \in S : \E i \in 1..k : l[i] = x)
        /\ \A i, j \in 1..k : i < j => <<l[i], l[j]>> \in R
    BY <1>5 DEF Lists
  <2>2. Range(l) = S
    BY <2>1 DEF Range
  <2>3. ASSUME NEW i \in 1..k, NEW j \in 1..k, i < j
        PROVE  Before(l[i].path, l[j].path)
    BY Zenon, <1>1, <2>1, <2>3
  <2> QED BY <2>1, <2>2, <2>3
<1>7. s \in [1..k -> S] /\ Range(s) = S
      /\ \A i, j \in DOMAIN s : i < j => Before(s[i].path, s[j].path)
  BY Zenon, <1>6 DEF Sorted
<1> HIDE DEF s, k
<1>8. s \in Seq(S) /\ Len(s) = k
  BY <1>4, <1>7
<1>9. ASSUME NEW i \in 1..k, NEW j \in 1..k, Before(s[i].path, s[j].path)
      PROVE  i < j
  <2>1. s[i].path \in AliasPath /\ s[j].path \in AliasPath
    BY <1>2, <1>7
  <2>2. i # j
    BY <1>9, <2>1, BeforeItself
  <2>3. ~ (j < i)
    <3> SUFFICES ASSUME j < i PROVE FALSE
      OBVIOUS
    <3>1. Before(s[j].path, s[i].path)
      BY <1>7
    <3>2. Before(s[i].path, s[i].path)
      BY <1>9, <2>1, <3>1, BeforeTwice
    <3> QED BY <2>1, <3>2, BeforeItself
  <2> QED BY <1>4, <2>2, <2>3
<1> QED BY <1>7, <1>8, <1>9 DEF s

-----------------------------------------------------------------------------
(* Groups *)

(* The group a candidate makes of a set of them. *)
Group(S, c) == [head |-> c, members |-> {c} \cup {d \in S : Absorbs(c, d)}]

(* What Candidates goes through: a candidate that is not used makes a      *)
(* group and uses what it takes in.                                        *)
Makes(before, sorted, c) ==
    IF c \in before.used THEN before
    ELSE [used |-> before.used \cup {d \in Range(sorted) : Absorbs(c, d)},
          groups |-> Append(before.groups, Group(Range(sorted), c))]

GroupRuns(f, sorted) ==
    LET S == Range(sorted)
    IN  /\ f \in [0..Len(sorted) ->
                     [used: SUBSET S, groups: Seq({Group(S, c) : c \in S})]]
        /\ f[0] = [used |-> {}, groups |-> <<>>]
        /\ \A i \in 1..Len(sorted) : f[i] = Makes(f[i - 1], sorted, sorted[i])

(* Candidates is the end of such a run. *)
LEMMA CandidatesRun ==
    ASSUME NEW X, NEW sorted \in Seq(X)
    PROVE  \E f : GroupRuns(f, sorted)
                  /\ Candidates(sorted) = f[Len(sorted)].groups
<1> DEFINE k == Len(sorted)
           S == Range(sorted)
           D == [used: SUBSET S, groups: Seq({Group(S, c) : c \in S})]
           start == [used |-> {}, groups |-> <<>>]
           F == [i \in 1..k |-> [r \in D |-> Makes(r, sorted, sorted[i])]]
           Body(f) == [i \in 0..k |-> IF i = 0 THEN start
                                      ELSE Makes(f[i - 1], sorted, sorted[i])]
           done == CHOOSE f : f = Body(f)
<1>1. k \in Nat /\ \A i \in 1..k : sorted[i] \in S
  BY DEF Range
<1> HIDE DEF k
<1>2. start \in D
  OBVIOUS
<1>3. ASSUME NEW r \in D, NEW c \in S PROVE Makes(r, sorted, c) \in D
  <2>1. CASE c \in r.used
    BY <2>1 DEF Makes
  <2>2. CASE c \notin r.used
    <3> DEFINE G == {Group(S, d) : d \in S}
               more == {d \in S : Absorbs(c, d)}
    <3>1. Group(S, c) \in G /\ r.groups \in Seq(G) /\ r.used \in SUBSET S
          /\ more \in SUBSET S
      OBVIOUS
    <3>2. Makes(r, sorted, c) =
              [used |-> r.used \cup more, groups |-> Append(r.groups, Group(S, c))]
      BY Zenon, <2>2 DEF Makes
    <3> HIDE DEF G, more
    <3>3. Append(r.groups, Group(S, c)) \in Seq(G)
      BY <3>1
    <3> QED BY <3>1, <3>2, <3>3 DEF G
  <2> QED BY <2>1, <2>2
<1> HIDE DEF D, start, S
<1>4. F \in [1..k -> [D -> D]]
  BY <1>1, <1>3
<1>5. \A i \in 1..k, r \in D : F[i][r] = Makes(r, sorted, sorted[i])
  OBVIOUS
<1> HIDE DEF F
<1>6. PICK f \in [0..k -> D] :
          f[0] = start /\ \A i \in 1..k : f[i] = F[i][f[i - 1]]
  <2>1. k \in Nat
    BY <1>1
  <2> QED BY ONLY <1>2, <2>1, <1>4, IterationExists, SMTT(40)
<1>7. \A i \in 1..k : f[i] = Makes(f[i - 1], sorted, sorted[i])
  <2>1. \A i \in 1..k : i - 1 \in 0..k
    BY <1>1
  <2> QED BY <1>5, <1>6, <2>1
<1>8. f = Body(f)
  BY <1>1, <1>6, <1>7
<1>9. done = Body(done)
  BY Zenon, <1>8
<1>10. Candidates(sorted) = done[k].groups
  BY DEF Candidates, k, start, Makes, Group
<1> HIDE DEF done
<1>11. DOMAIN done = 0..k /\ done[0] = start
       /\ \A i \in 1..k : done[i] = Makes(done[i - 1], sorted, sorted[i])
  BY <1>1, <1>9
<1>12. \A i \in 0..k : done[i] \in D
  <2> DEFINE T == {i \in 0..k : done[i] \in D}
  <2>1. 0 \in T
    BY <1>1, <1>2, <1>11
  <2>2. \A n \in 0..(k - 1) : n \in T => n + 1 \in T
    <3> SUFFICES ASSUME NEW n \in 0..(k - 1), done[n] \in D
                 PROVE  n + 1 \in 0..k /\ done[n + 1] \in D
      OBVIOUS
    <3>1. n + 1 \in 1..k /\ n + 1 \in 0..k /\ (n + 1) - 1 = n
      BY <1>1
    <3>2. done[n + 1] = Makes(done[n], sorted, sorted[n + 1])
      BY <1>11, <3>1
    <3> QED BY <1>1, <1>3, <3>1, <3>2
  <2> HIDE DEF T
  <2>3. \A n \in 0..k : n \in T
    BY Zenon, <1>1, <2>1, <2>2, BoundedInduction
  <2> QED BY <2>3 DEF T
<1>13. done \in [0..k -> D]
  BY Zenon, <1>9, <1>11, <1>12
<1>14. GroupRuns(done, sorted)
  BY Zenon, <1>11, <1>13 DEF GroupRuns, D, k, S, start
<1> QED BY <1>10, <1>14 DEF k

(* A sequence has one more element with one appended. *)
LEMMA AppendRange ==
    ASSUME NEW X, NEW s \in Seq(X), NEW x \in X
    PROVE  Range(Append(s, x)) = Range(s) \cup {x}
<1> DEFINE t == Append(s, x)
           k == Len(s)
<1>1. k \in Nat /\ DOMAIN s = 1..k /\ DOMAIN t = 1..(k + 1)
      /\ t[k + 1] = x /\ \A i \in 1..k : t[i] = s[i]
  OBVIOUS
<1> HIDE DEF t, k
<1>2. 1..(k + 1) = (1..k) \cup {k + 1}
  BY <1>1
<1>3. Range(t) = Range(s) \cup {x}
  BY <1>1, <1>2 DEF Range
<1> QED BY <1>3 DEF t

(* After i candidates, the groups are those of the candidates that were    *)
(* not used at their turn, and what is used is what these take in.         *)
HeadsOnly(f, sorted, S, i) ==
    /\ \A g : g \in Range(f[i].groups) <=>
           \E j \in 1..i : /\ sorted[j] \notin f[j - 1].used
                           /\ g = Group(S, sorted[j])
    /\ \A d : d \in f[i].used <=>
           \E j \in 1..i : /\ sorted[j] \notin f[j - 1].used
                           /\ d \in S /\ Absorbs(sorted[j], d)

(* So it is at every turn of a run. *)
LEMMA RunHeads ==
    ASSUME NEW X, NEW sorted \in Seq(X), NEW f, GroupRuns(f, sorted)
    PROVE  \A i \in 0..Len(sorted) : HeadsOnly(f, sorted, Range(sorted), i)
<1> DEFINE k == Len(sorted)
           S == Range(sorted)
           G == {Group(S, c) : c \in S}
           IsHead(j) == sorted[j] \notin f[j - 1].used
           Made(i) == \A g : g \in Range(f[i].groups) <=>
                          \E j \in 1..i : IsHead(j) /\ g = Group(S, sorted[j])
           Used(i) == \A d : d \in f[i].used <=>
                          \E j \in 1..i : IsHead(j) /\ d \in S /\ Absorbs(sorted[j], d)
           T == {i \in 0..k : Made(i) /\ Used(i)}
<1>1. k \in Nat
  OBVIOUS
<1>2. /\ f[0] = [used |-> {}, groups |-> <<>>]
      /\ \A i \in 0..k : f[i].groups \in Seq(G)
      /\ \A i \in 1..k : f[i] = Makes(f[i - 1], sorted, sorted[i])
  BY Zenon DEF GroupRuns
<1> HIDE DEF k, S, G
<1>3. 0 \in T
  <2>1. Range(f[0].groups) = {} /\ f[0].used = {}
    BY <1>2 DEF Range
  <2>2. 1..0 = {}
    OBVIOUS
  <2> HIDE DEF IsHead
  <2>3. Made(0)
    BY <2>1, <2>2
  <2>4. Used(0)
    BY <2>1, <2>2
  <2>5. 0 \in 0..k
    BY <1>1
  <2> QED BY <2>3, <2>4, <2>5
<1>4. ASSUME NEW n \in 0..(k - 1), n \in T
      PROVE  n + 1 \in T
  <2> DEFINE m == n + 1
             c == sorted[m]
  <2>1. m \in 0..k /\ m \in 1..k /\ m - 1 = n /\ n \in 0..k
        /\ 1..m = (1..n) \cup {m}
    BY <1>1
  <2>2. f[m] = Makes(f[n], sorted, c)
    BY <1>2, <2>1
  <2>3. IsHead(m) <=> c \notin f[n].used
    BY <2>1
  <2> HIDE DEF m, c
  <2>4. CASE c \in f[n].used
    <3>1. f[m] = f[n]
      BY <2>2, <2>4 DEF Makes
    <3>2. ~IsHead(m)
      BY <2>3, <2>4
    <3> HIDE DEF IsHead
    <3>3. Made(m) /\ Used(m)
      BY <1>4, <2>1, <3>1, <3>2
    <3> QED BY <2>1, <3>3 DEF m
  <2>5. CASE c \notin f[n].used
    <3>1. /\ f[m].used = f[n].used \cup {d \in S : Absorbs(c, d)}
          /\ f[m].groups = Append(f[n].groups, Group(S, c))
      BY <2>2, <2>5 DEF Makes, S
    <3>2. IsHead(m)
      BY <2>3, <2>5
    <3> HIDE DEF IsHead
    <3>3. Range(f[m].groups) = Range(f[n].groups) \cup {Group(S, c)}
      <4>1. f[n].groups \in Seq(G)
        BY <1>2, <2>1
      <4>2. c \in S
        BY <2>1 DEF c, S, Range, k
      <4>3. Group(S, c) \in G
        BY <4>2 DEF G
      <4> QED BY <3>1, <4>1, <4>3, AppendRange
    <3>4. Made(m)
      BY <1>4, <2>1, <3>2, <3>3 DEF c
    <3>5. Used(m)
      BY <1>4, <2>1, <3>1, <3>2 DEF c
    <3> QED BY <2>1, <3>4, <3>5 DEF m
  <2> QED BY Zenon, <2>4, <2>5
<1>5. \A n \in 0..(k - 1) : n \in T => n + 1 \in T
  BY Zenon, <1>4
<1> HIDE DEF T
<1>6. \A n \in 0..k : n \in T
  BY <1>1, <1>3, <1>5, BoundedInduction
<1>7. \A n \in 0..k : Made(n) /\ Used(n)
  BY Zenon, <1>6 DEF T
<1> QED BY Zenon, <1>7 DEF HeadsOnly, S, k

(* Groups of candidates that can be sorted: a sequence of the groups of    *)
(* heads.  Every other candidate is taken in by a head, and no head by     *)
(* another, as a directory comes before what is in it.                     *)
LEMMA GroupsOK ==
    ASSUME NEW S, Sortable(S)
    PROVE  /\ Groups(S) \in Seq({Group(S, c) : c \in S})
           /\ \E H \in SUBSET S :
                 /\ Range(Groups(S)) = {Group(S, c) : c \in H}
                 /\ \A c \in S \ H : \E a \in H : Absorbs(a, c)
                 /\ \A a, b \in H : ~Absorbs(a, b)
<1> DEFINE s == Sorted(S)
           k == Len(s)
<1>1. /\ s \in Seq(S) /\ Range(s) = S
      /\ \A i, j \in 1..k : Before(s[i].path, s[j].path) => i < j
  BY SortedOK
<1>2. Groups(S) = Candidates(s)
  BY DEF Groups
<1> HIDE DEF s
<1>3. PICK f : GroupRuns(f, s) /\ Candidates(s) = f[k].groups
  BY <1>1, CandidatesRun
<1>4. k \in Nat /\ k \in 0..k
  BY <1>1
<1> DEFINE IsHead(j) == s[j] \notin f[j - 1].used
           H == {s[j] : j \in {i \in 1..k : IsHead(i)}}
<1>5. \A i \in 0..k :
          /\ \A g : g \in Range(f[i].groups) <=>
                 \E j \in 1..i : IsHead(j) /\ g = Group(S, s[j])
          /\ \A d : d \in f[i].used <=>
                 \E j \in 1..i : IsHead(j) /\ d \in S /\ Absorbs(s[j], d)
  <2>1. \A i \in 0..k : HeadsOnly(f, s, S, i)
    BY <1>1, <1>3, RunHeads
  <2> QED BY Zenon, <2>1 DEF HeadsOnly
<1>6. \A i \in 1..k : s[i] \in S /\ i - 1 \in 0..k /\ i \in Nat
  BY <1>1, <1>4
<1>7. \A c \in S : \E i \in 1..k : s[i] = c
  BY <1>1 DEF Range
<1>8. f[k].groups \in Seq({Group(S, c) : c \in S})
  BY <1>1, <1>3, <1>4 DEF GroupRuns
<1> HIDE DEF IsHead, k
<1>9. H \in SUBSET S
  BY <1>6
<1>10. Range(Groups(S)) = {Group(S, c) : c \in H}
  <2>1. ASSUME NEW g
        PROVE  g \in Range(Groups(S)) <=> g \in {Group(S, c) : c \in H}
    <3>1. g \in Range(Groups(S)) <=> \E j \in 1..k : IsHead(j) /\ g = Group(S, s[j])
      BY <1>2, <1>3, <1>4, <1>5
    <3> QED BY <3>1
  <2> QED BY <2>1
<1>11. ASSUME NEW c \in S \ H PROVE \E a \in H : Absorbs(a, c)
  <2>1. PICK i \in 1..k : s[i] = c
    BY <1>7
  <2>2. c \in f[i - 1].used
    BY <2>1 DEF IsHead
  <2>3. PICK j \in 1..(i - 1) : IsHead(j) /\ Absorbs(s[j], c)
    BY <1>5, <1>6, <2>2
  <2>4. j \in 1..k
    BY <1>4, <1>6
  <2> QED BY <2>3, <2>4
<1>12. ASSUME NEW a \in H, NEW b \in H, Absorbs(a, b) PROVE FALSE
  <2>1. PICK i \in 1..k : IsHead(i) /\ s[i] = a
    OBVIOUS
  <2>2. PICK j \in 1..k : IsHead(j) /\ s[j] = b
    OBVIOUS
  <2>3. Before(a.path, b.path)
    BY <1>12 DEF Absorbs, Below, Before
  <2>4. i < j
    BY <1>1, <2>1, <2>2, <2>3 DEF k
  <2>5. i \in 1..(j - 1)
    BY <1>6, <2>4
  <2>6. b \in f[j - 1].used
    BY <1>5, <1>6, <1>12, <2>1, <2>2, <2>5
  <2> QED BY <2>2, <2>6 DEF IsHead
<1> HIDE DEF H
<1> QED BY <1>2, <1>3, <1>8, <1>9, <1>10, <1>11, <1>12

(* Of two candidates that take in a third, one takes in the other, unless  *)
(* the cleanup of that one failed.                                         *)
LEMMA TakersMeet ==
    ASSUME NEW S, Sortable(S), NEW a \in S, NEW b \in S, NEW c \in S, a # b,
           Absorbs(a, c), Absorbs(b, c)
    PROVE  Absorbs(a, b) \/ Absorbs(b, a) \/ a.conflict \/ b.conflict
<1>1. a.path \in AliasPath /\ b.path \in AliasPath /\ c.path \in AliasPath
      /\ a.path # b.path
  BY DEF Sortable
<1>2. a.path.root = b.path.root
      /\ PathWithin(a.path.parts, c.path.parts) /\ PathWithin(b.path.parts, c.path.parts)
  BY DEF Absorbs, Below, Descendant
<1>3. a.path.parts # b.path.parts
  BY <1>1, <1>2 DEF AliasPath
<1>4. a.path.parts \in Seq(Range(Names)) /\ b.path.parts \in Seq(Range(Names))
      /\ c.path.parts \in Seq(Range(Names))
  BY <1>1 DEF AliasPath
<1>5. PathWithin(a.path.parts, b.path.parts) \/ PathWithin(b.path.parts, a.path.parts)
  BY <1>2, <1>4, PrefixesCompare
<1>6. Below(a.path, b.path) \/ Below(b.path, a.path)
  BY <1>2, <1>3, <1>5, Zenon DEF Below, Descendant
<1>7. a.dir /\ b.dir /\ a.level = b.level /\ a.status = b.status
  BY Zenon DEF Absorbs
<1> QED BY <1>6, <1>7, Zenon DEF Absorbs

-----------------------------------------------------------------------------
(* Snapshots: the candidates of the report and of its revisions *)

(* Candidates whose aliases stand for their paths, each path's once *)
Snapshot(S) ==
    /\ S \subseteq Candidate
    /\ S # {} => \E scope \in Scopes : Binds(aliases, scope)
    /\ \A c \in S : CandidateOK(c)
    /\ \A c, d \in S : c.id = d.id => c = d

(* A path is told by a prefix and the rest. *)
LEMMA RestTells ==
    ASSUME NEW X, NEW s \in Seq(X), NEW u \in Seq(X), NEW v \in Seq(X),
           PathWithin(s, u), PathWithin(s, v),
           SubSeq(u, Len(s) + 1, Len(u)) = SubSeq(v, Len(s) + 1, Len(v))
    PROVE  u = v
<1> DEFINE k == Len(s)
           m == Len(u)
           n == Len(v)
           w == SubSeq(u, k + 1, m)
<1>1. k \in Nat /\ m \in Nat /\ n \in Nat
  OBVIOUS
<1>2. k <= m /\ k <= n /\ (\A i \in 1..k : s[i] = u[i]) /\ (\A i \in 1..k : s[i] = v[i])
  BY PrefixParts
<1>3. Len(w) = m - k /\ \A i \in 1..(m - k) : w[i] = u[i + k]
  BY <1>1, <1>2
<1>4. Len(w) = n - k /\ \A i \in 1..(n - k) : w[i] = v[i + k]
  <2>1. w = SubSeq(v, k + 1, n)
    OBVIOUS
  <2> HIDE DEF w
  <2> QED BY <1>1, <1>2, <2>1
<1> HIDE DEF w, k, m, n
<1>5. m = n
  BY <1>1, <1>3, <1>4
<1>6. ASSUME NEW i \in 1..m PROVE u[i] = v[i]
  <2>1. CASE i <= k
    BY <1>1, <1>2, <2>1
  <2>2. CASE ~ (i <= k)
    <3>1. i - k \in 1..(m - k) /\ (i - k) + k = i
      BY <1>1, <2>2
    <3> QED BY <1>3, <1>4, <1>5, <3>1
  <2> QED BY <2>1, <2>2
<1> QED BY <1>5, <1>6 DEF m, n

(* An alias is made of names that are ordered, and tells its path. *)
LEMMA AliasesTell ==
    ASSUME NEW scope, Binds(aliases, scope), NEW x \in {n.path : n \in Tree},
           NEW i \in DOMAIN aliases, PathWithin(aliases[i].path, x)
    PROVE  /\ Project(aliases, x) \in AliasPath
           /\ \A y \in {n.path : n \in Tree} : \A j \in DOMAIN aliases :
                 PathWithin(aliases[j].path, y)
                 /\ Project(aliases, x) = Project(aliases, y) => x = y
<1> DEFINE paths == {n.path : n \in Tree}
           Rest(y, j) == SubSeq(y, Len(aliases[j].path) + 1, Len(y))
<1>1. \A y \in paths : y \in Seq(Name) /\ Range(y) \subseteq Range(Names)
  BY PathsAssumption, NamesAssumption DEF Path
<1>2. \A j \in DOMAIN aliases : j \in Nat /\ aliases[j].path \in Seq(Name)
  BY PathsAssumption DEF Binds, Path
<1>3. ASSUME NEW y \in paths, NEW j \in DOMAIN aliases, PathWithin(aliases[j].path, y)
      PROVE  Project(aliases, y) = [form |-> "alias", root |-> j, parts |-> Rest(y, j)]
  <2>1. y \in Seq(Name)
    BY <1>1
  <2>2. Project(aliases, y) = Text("alias", j, Rest(y, j))
    BY <1>3, <2>1, Projects
  <2> QED BY <2>2 DEF Text
<1>4. Rest(x, i) \in Seq(Range(Names))
  <2> DEFINE l == Len(aliases[i].path)
  <2>1. l \in Nat /\ x \in Seq(Name) /\ Range(x) \subseteq Range(Names)
    BY <1>1, <1>2
  <2> HIDE DEF l
  <2>2. x \in Seq(Range(Names))
    BY <2>1 DEF Range
  <2>3. SubSeq(x, l + 1, Len(x)) \in Seq(Range(Names))
    BY <2>1, <2>2
  <2> QED BY <2>3 DEF l
<1> HIDE DEF Rest, paths
<1>5. Project(aliases, x) \in AliasPath
  BY <1>2, <1>3, <1>4 DEF AliasPath, paths
<1>6. ASSUME NEW y \in paths, NEW j \in DOMAIN aliases, PathWithin(aliases[j].path, y),
             Project(aliases, x) = Project(aliases, y)
      PROVE  x = y
  <2>1. Project(aliases, x) = [form |-> "alias", root |-> i, parts |-> Rest(x, i)]
    BY <1>3 DEF paths
  <2>2. Project(aliases, y) = [form |-> "alias", root |-> j, parts |-> Rest(y, j)]
    BY <1>3, <1>6
  <2>3. i = j /\ Rest(x, i) = Rest(y, i)
    <3>1. \A a, b, c, d : [form |-> "alias", root |-> a, parts |-> c]
                              = [form |-> "alias", root |-> b, parts |-> d]
                          => a = b /\ c = d
      OBVIOUS
    <3>2. i = j /\ Rest(x, i) = Rest(y, j)
      BY <1>6, <2>1, <2>2, <3>1, Zenon
    <3> QED BY <3>2
  <2>4. PathWithin(aliases[i].path, x) /\ PathWithin(aliases[i].path, y)
    BY <1>6, <2>3
  <2>5. x \in Seq(Name) /\ y \in Seq(Name) /\ aliases[i].path \in Seq(Name)
    BY <1>1, <1>2 DEF paths
  <2> QED BY Zenon, <2>3, <2>4, <2>5, RestTells DEF Rest
<1> QED BY <1>5, <1>6 DEF paths

(* A snapshot can be sorted. *)
LEMMA SnapshotSorts ==
    ASSUME NEW S, Snapshot(S)
    PROVE  Sortable(S)
<1>1. ASSUME NEW c \in S PROVE c.path \in AliasPath
  <2>1. PICK scope \in Scopes : Binds(aliases, scope)
    BY <1>1 DEF Snapshot
  <2>2. c.id \in {n.path : n \in Tree} /\ c.path = Project(aliases, c.id)
    BY <1>1 DEF Snapshot, CandidateOK, Candidate
  <2>3. PICK i \in DOMAIN aliases : PathWithin(aliases[i].path, c.id)
    BY <1>1 DEF Snapshot, CandidateOK
  <2> QED BY Zenon, <2>1, <2>2, <2>3, AliasesTell
<1>2. ASSUME NEW c \in S, NEW d \in S, c.path = d.path PROVE c = d
  <2>1. PICK scope \in Scopes : Binds(aliases, scope)
    BY <1>2 DEF Snapshot
  <2>2. /\ c.id \in {n.path : n \in Tree} /\ c.path = Project(aliases, c.id)
        /\ d.id \in {n.path : n \in Tree} /\ d.path = Project(aliases, d.id)
    BY <1>2 DEF Snapshot, CandidateOK, Candidate
  <2>3. PICK i \in DOMAIN aliases : PathWithin(aliases[i].path, c.id)
    BY <1>2 DEF Snapshot, CandidateOK
  <2>4. PICK j \in DOMAIN aliases : PathWithin(aliases[j].path, d.id)
    BY <1>2 DEF Snapshot, CandidateOK
  <2>5. c.id = d.id
    BY Zenon, <1>2, <2>1, <2>2, <2>3, <2>4, AliasesTell
  <2> QED BY <2>5 DEF Snapshot
<1>3. IsFiniteSet(S)
  <2> DEFINE Of(c) == CHOOSE n \in Tree : n.path = c.id
             f == [c \in S |-> Of(c)]
  <2>1. \A c \in S : Of(c) \in Tree /\ Of(c).path = c.id
    BY DEF Snapshot, Candidate
  <2> HIDE DEF Of
  <2>2. f \in [S -> Tree] /\ \A c, d \in S : f[c] = f[d] => c = d
    BY <2>1 DEF Snapshot
  <2>3. f \in Injection(S, Tree)
    BY <2>2 DEF Injection, IsInjective
  <2> QED BY <2>3, FS_Injection, PathsAssumption
<1> QED BY <1>1, <1>2, <1>3 DEF Sortable

(* A client on its way has read the groups up to its cursor. *)
ReaderOK ==
    reader # None =>
        LET groups == Groups(CandidatesOf(reader.revision))
        IN  /\ phase = "completed" /\ reader.revision \in 0..Len(revisions)
            /\ reader.limit \in 1..MaxPage /\ reader.total = Len(groups)
            /\ reader.next \in 0..Len(groups)
            /\ reader.groups = IF reader.next = 0 THEN groups
                               ELSE SubSeq(groups, 1, reader.next)

SnapshotsInv == \A n \in 0..Len(revisions) : Snapshot(CandidatesOf(n))

(* A scan finds a path once. *)
LEMMA ScanOnce ==
    ASSUME NEW scope \in Scopes, NEW found \in Scans[scope],
           NEW f \in found, NEW g \in found, f.path = g.path
    PROVE  f = g
<1> DEFINE nodes == {n \in Tree : \E r \in Range(scope) : PathWithin(r, n.path)}
           Statuses == {"PRESENT", "CHANGED_SINCE_REPORT"}
           Row(n, st) == [path |-> n.path, dir |-> n.dir, status |-> st[n]]
<1>1. Scans[scope] =
          UNION {{{Row(n, st) : n \in ns} : st \in [ns -> Statuses]} : ns \in SUBSET nodes}
  BY DEF Scans
<1>2. PICK ns \in SUBSET nodes :
          \E st \in [ns -> Statuses] : found = {Row(n, st) : n \in ns}
  BY <1>1
<1>3. PICK st \in [ns -> Statuses] : found = {Row(n, st) : n \in ns}
  BY <1>2
<1>4. PICK m \in ns : f = Row(m, st)
  BY <1>3
<1>5. PICK n \in ns : g = Row(n, st)
  BY <1>3
<1>6. m.path = n.path
  BY <1>4, <1>5
<1>7. m = n
  BY <1>6, PathsAssumption
<1> QED BY <1>4, <1>5, <1>7

(* So has the report that is made of it. *)
LEMMA BuildReportOnce ==
    ASSUME NEW scope \in Scopes, NEW found \in Scans[scope], NEW evs, NEW baseline,
           NEW c \in BuildReport(found, evs, baseline),
           NEW d \in BuildReport(found, evs, baseline), c.id = d.id
    PROVE  c = d
<1> DEFINE Row(f) ==
               [id |-> f.path, path |-> f.path, dir |-> f.dir, status |-> f.status,
                conflict |-> \E e \in Matching(evs, f.path) :
                                 e.type = "cleanup_attempted",
                level |-> IF baseline THEN "BASELINE_OBSERVED"
                          ELSE IF Matching(evs, f.path) = {}
                               THEN "UNATTRIBUTED" ELSE "EVENT_BOUND"]
<1>1. PICK f \in found : c = Row(f)
  BY Zenon DEF BuildReport
<1>2. PICK g \in found : d = Row(g)
  BY Zenon DEF BuildReport
<1>3. \A x : Row(x).id = x.path
  OBVIOUS
<1> HIDE DEF Row
<1>4. f = g
  BY Zenon, <1>1, <1>2, <1>3, ScanOnce
<1> QED BY <1>1, <1>2, <1>4

(* What the steps do to the snapshots and to the client that reads them *)
LEMMA PageKinds ==
    ASSUME IntakeInv, [Next]_vars
    PROVE  \/ UNCHANGED <<phase, aliases, report, revisions, reader>>
           \/ phase # "completed" /\ UNCHANGED <<report, revisions, reader>>
           \/ /\ phase # "completed" /\ reader' = reader
              /\ \E candidates, table :
                    /\ Complete(candidates, table)
                    /\ \A c \in candidates : c \in Reported
                    /\ \A c, d \in candidates : c.id = d.id => c = d
           \/ Verify
           \/ \E revision \in 0..MaxRevisions, limit \in 1..MaxPage :
                 FirstPage(revision, limit)
           \/ NextPage
<1> DEFINE Same == UNCHANGED <<phase, aliases, report, revisions, reader>>
           Made == /\ phase # "completed" /\ reader' = reader
                   /\ \E candidates, table :
                         /\ Complete(candidates, table)
                         /\ \A c \in candidates : c \in Reported
                         /\ \A c, d \in candidates : c.id = d.id => c = d
<1>1. CASE UNCHANGED vars
  BY <1>1 DEF vars, task, chain
<1>2. ASSUME NEW r \in RootPaths, ReplaceRoot(r) PROVE Same
  BY <1>2 DEF ReplaceRoot, task, chain
<1>3. CASE Relink
  BY <1>3 DEF Relink, task, chain
<1>4. ASSUME NEW scope \in Scopes, Begin(scope)
      PROVE  phase # "completed" /\ UNCHANGED <<report, revisions, reader>>
  BY <1>4 DEF Begin, chain
<1>5. ASSUME NEW candidates, NEW table, Complete(candidates, table),
             phase # "completed",
             \A c \in candidates : c \in Reported,
             \A c, d \in candidates : c.id = d.id => c = d
      PROVE  Made
  BY Zenon, <1>5 DEF Complete
<1>6. ASSUME NEW scope \in Scopes, Inspect(scope) PROVE Made
  <2>1. PICK batch \in OwnerBatches, found \in Scans[scope] :
            Complete(BuildReport(found, {Normalize(e, scope) : e \in batch}, FALSE),
                     New(scope, identity))
    BY Zenon, <1>6 DEF Inspect
  <2> DEFINE candidates == BuildReport(found, {Normalize(e, scope) : e \in batch}, FALSE)
  <2>2. \A c \in candidates : c \in Reported
    BY Zenon, BuildReportOK
  <2>3. \A c, d \in candidates : c.id = d.id => c = d
    BY Zenon, BuildReportOnce
  <2>4. phase # "completed"
    BY <1>6, Zenon DEF Inspect
  <2> HIDE DEF candidates, Made
  <2> QED BY Zenon, <1>5, <2>1, <2>2, <2>3, <2>4 DEF candidates
<1>7. CASE AppendEvents
  BY <1>7 DEF AppendEvents, Store, chain
<1>8. ASSUME NEW g \in Grants, DelegateExecutor(g) PROVE Same
  BY <1>8 DEF DelegateExecutor, chain
<1>9. ASSUME NEW g \in Grants, AppendExecutorEvents(g) PROVE Same
  BY <1>9 DEF AppendExecutorEvents, Store, chain
<1>10. ASSUME End PROVE Made
  <2>1. PICK found \in Scans[roots] :
            Complete(BuildReport(found, events, TRUE), aliases)
    BY Zenon, <1>10 DEF End
  <2> DEFINE candidates == BuildReport(found, events, TRUE)
  <2>2. roots \in Scopes /\ phase # "completed"
    BY Zenon, <1>10 DEF End, IntakeInv, Binds
  <2>3. \A c \in candidates : c \in Reported
    BY Zenon, <2>2, BuildReportOK
  <2>4. \A c, d \in candidates : c.id = d.id => c = d
    BY Zenon, <2>2, BuildReportOnce
  <2> HIDE DEF candidates, Made
  <2> QED BY Zenon, <1>5, <2>1, <2>2, <2>3, <2>4 DEF candidates
<1>11. ASSUME EndFailed PROVE Made
  BY <1>5, <1>11 DEF EndFailed
<1> QED BY <1>1, <1>2, <1>3, <1>4, <1>6, <1>7, <1>8, <1>9, <1>10, <1>11 DEF Next

(* There is no report at first. *)
LEMMA SnapshotsInit == Init => SnapshotsInv /\ ReaderOK
<1> SUFFICES ASSUME Init PROVE SnapshotsInv /\ ReaderOK
  OBVIOUS
<1>1. revisions = <<>> /\ report = {} /\ reader = None
  BY DEF Init
<1>2. 0..Len(revisions) = {0}
  BY <1>1
<1>3. CandidatesOf(0) = {}
  BY <1>1 DEF CandidatesOf
<1>4. Snapshot({})
  BY DEF Snapshot
<1> QED BY Zenon, <1>1, <1>2, <1>3, <1>4 DEF SnapshotsInv, ReaderOK

(* Verify makes a snapshot of the latest one. *)
LEMMA VerifySnaps ==
    ASSUME IntakeInv, IntakeInv', SnapshotsInv, Verify
    PROVE  SnapshotsInv' /\ \A n \in 0..Len(revisions) : CandidatesOf(n)' = CandidatesOf(n)
<1>1. UNCHANGED <<aliases, report>>
  BY DEF Verify, task
<1>2. PICK status \in [{c.id : c \in Latest} -> Found] :
          revisions' = Append(revisions,
              {[c EXCEPT !.status = status[c.id]] : c \in Latest})
  BY Zenon DEF Verify
<1> DEFINE With(c) == [c EXCEPT !.status = status[c.id]]
<1>3. PICK new : new = {With(c) : c \in Latest}
  OBVIOUS
<1>4. PICK k : k = Len(revisions)
  OBVIOUS
<1>5. revisions \in Seq(SUBSET Candidate) /\ k \in Nat
  BY <1>4 DEF IntakeInv
<1>6. Latest = CandidatesOf(k)
  BY <1>5, <1>4 DEF Latest, CandidatesOf
<1>7. Snapshot(Latest)
  BY <1>5, <1>6, <1>4 DEF SnapshotsInv
<1>8. \A c \in Latest : With(c).id = c.id /\ With(c).path = c.path
  BY <1>7 DEF Snapshot, Candidate
<1> HIDE DEF With
<1>9. revisions' = Append(revisions, new)
  BY <1>2, <1>3 DEF With
<1>10. Len(revisions') = k + 1 /\ revisions'[k + 1] = new
      /\ \A n \in 1..k : revisions'[n] = revisions[n]
  BY <1>5, <1>9, <1>4
<1>11. \A n \in 0..k : CandidatesOf(n)' = CandidatesOf(n)
  BY <1>1, <1>5, <1>10 DEF CandidatesOf
<1>12. CandidatesOf(k + 1)' = new
  BY <1>5, <1>10 DEF CandidatesOf
<1>13. Snapshot(new)
  <2>1. new \subseteq Candidate
    <3>1. revisions' \in Seq(SUBSET Candidate')
      BY DEF IntakeInv
    <3>2. Candidate' = Candidate
      BY <1>1 DEF Candidate
    <3>3. k + 1 \in 1..Len(revisions')
      BY <1>5, <1>10
    <3> QED BY <1>10, <3>1, <3>2, <3>3
  <2>2. new # {} => \E scope \in Scopes : Binds(aliases, scope)
    BY <1>7, <1>3 DEF Snapshot
  <2>3. \A c \in new : CandidateOK(c)
    <3>1. \A c \in Latest : CandidateOK(c)
      BY <1>7 DEF Snapshot
    <3> QED BY <1>8, <1>3, <3>1 DEF CandidateOK
  <2>4. \A c, d \in new : c.id = d.id => c = d
    <3>1. \A c, d \in Latest : c.id = d.id => c = d
      BY <1>7 DEF Snapshot
    <3> QED BY <1>8, <1>3, <3>1
  <2> QED BY <2>1, <2>2, <2>3, <2>4 DEF Snapshot
<1>14. ASSUME NEW n \in 0..Len(revisions') PROVE Snapshot(CandidatesOf(n))'
  <2>1. CASE n = k + 1
    BY <1>1, <1>12, <1>13, <2>1 DEF Snapshot, Candidate, CandidateOK
  <2>2. CASE n # k + 1
    <3>1. n \in 0..k
      BY <1>5, <1>10, <2>2
    <3>2. Snapshot(CandidatesOf(n))
      BY <1>4, <3>1 DEF SnapshotsInv
    <3>3. CandidatesOf(n)' = CandidatesOf(n)
      BY <1>11, <3>1
    <3> QED BY <1>1, <3>2, <3>3 DEF Snapshot, Candidate, CandidateOK
  <2> QED BY <2>1, <2>2
<1> QED BY <1>11, <1>14, <1>4 DEF SnapshotsInv

(* Every step keeps the snapshots. *)
LEMMA SnapshotsNext ==
    IntakeInv /\ IntakeInv' /\ SnapshotsInv /\ [Next]_vars => SnapshotsInv'
<1> SUFFICES ASSUME IntakeInv, IntakeInv', SnapshotsInv, [Next]_vars
             PROVE  SnapshotsInv'
  OBVIOUS
<1>1. CASE UNCHANGED <<aliases, report, revisions>>
  <2>1. ASSUME NEW n \in 0..Len(revisions) PROVE Snapshot(CandidatesOf(n))'
    <3>1. CandidatesOf(n)' = CandidatesOf(n) /\ Snapshot(CandidatesOf(n))
      BY <1>1 DEF CandidatesOf, SnapshotsInv
    <3> QED BY <1>1, <3>1 DEF Snapshot, Candidate, CandidateOK
  <2> QED BY <1>1, <2>1 DEF SnapshotsInv
<1>2. ASSUME revisions' = <<>>, \A c, d \in report' : c.id = d.id => c = d
      PROVE  SnapshotsInv'
  <2>1. Snapshot(report)'
    BY Zenon, <1>2 DEF Snapshot, IntakeInv, TypeOK
  <2>2. 0..Len(revisions') = {0} /\ CandidatesOf(0)' = report'
    BY <1>2 DEF CandidatesOf
  <2> QED BY <2>1, <2>2 DEF SnapshotsInv
<1>3. CASE phase # "completed" /\ UNCHANGED <<report, revisions, reader>>
  <2>1. report' = {} /\ revisions' = <<>>
    BY <1>3 DEF IntakeInv
  <2> QED BY <1>2, <2>1
<1>4. ASSUME phase # "completed", NEW candidates, NEW table,
             Complete(candidates, table), \A c \in candidates : c \in Reported,
             \A c, d \in candidates : c.id = d.id => c = d
      PROVE  SnapshotsInv'
  <2> DEFINE Hide(c) == [c EXCEPT !.path = Project(table, @)]
  <2>1. \A c \in candidates : Hide(c).id = c.id
    BY <1>4 DEF Reported
  <2>2. report' = {Hide(c) : c \in candidates} /\ revisions' = <<>>
    BY <1>4 DEF Complete, IntakeInv
  <2> HIDE DEF Hide
  <2>3. \A c, d \in report' : c.id = d.id => c = d
    BY <1>4, <2>1, <2>2
  <2> QED BY <1>2, <2>2, <2>3
<1>5. CASE Verify
  BY <1>5, VerifySnaps
<1>6. ASSUME NEW revision, NEW start, NEW limit, NEW before,
             ReadPage(revision, start, limit, before)
      PROVE  SnapshotsInv'
  BY <1>1, <1>6 DEF ReadPage, task, chain
<1>7. ASSUME NEW revision, NEW limit, FirstPage(revision, limit) PROVE SnapshotsInv'
  BY <1>6, <1>7 DEF FirstPage
<1>8. CASE NextPage
  BY <1>6, <1>8 DEF NextPage
<1> QED BY <1>1, <1>3, <1>4, <1>5, <1>7, <1>8, PageKinds

(* A page goes on where those before it ended, and the last one at the end *)
(* of the items (Page).                                                    *)
LEMMA PageOK ==
    ASSUME NEW X, NEW items \in Seq(X), NEW start \in 0..Len(items),
           NEW limit \in Nat \ {0}
    PROVE  LET page == Page(items, start, limit)
               read == SubSeq(items, 1, start) \o page.items
           IN  /\ page.total = Len(items) /\ page.next \in 0..Len(items)
               /\ read = IF page.next = 0 THEN items ELSE SubSeq(items, 1, page.next)
<1> DEFINE k == Len(items)
           end == IF start + limit > k THEN k ELSE start + limit
           page == Page(items, start, limit)
<1>1. k \in Nat /\ start \in Nat /\ start <= k
  OBVIOUS
<1>2. end \in Nat /\ start <= end /\ end <= k /\ (end < k => end # 0)
  BY <1>1
<1>3. page = [items |-> SubSeq(items, start + 1, end), total |-> k,
              next |-> IF end < k THEN end ELSE 0]
  BY DEF Page
<1> HIDE DEF end, page
<1>4. page.items = SubSeq(items, start + 1, end) /\ page.total = k
      /\ page.next = IF end < k THEN end ELSE 0
  BY Zenon, <1>3
<1>5. SubSeq(items, 1, start) \o SubSeq(items, start + 1, end) = SubSeq(items, 1, end)
  <2> DEFINE s == SubSeq(items, 1, start)
             t == SubSeq(items, start + 1, end)
             u == SubSeq(items, 1, end)
  <2>1. s \in Seq(X) /\ Len(s) = start /\ \A i \in 1..start : s[i] = items[i]
    BY <1>1, <1>2
  <2>2. t \in Seq(X) /\ Len(t) = end - start
        /\ \A i \in 1..(end - start) : t[i] = items[start + i]
    BY <1>1, <1>2
  <2>3. u \in Seq(X) /\ Len(u) = end /\ \A i \in 1..end : u[i] = items[i]
    BY <1>1, <1>2
  <2> HIDE DEF s, t, u
  <2>4. s \o t \in Seq(X) /\ Len(s \o t) = end
    BY <1>1, <1>2, <2>1, <2>2
  <2>5. ASSUME NEW i \in 1..end PROVE (s \o t)[i] = items[i]
    <3>1. CASE i <= start
      BY <1>1, <1>2, <2>1, <2>2, <3>1
    <3>2. CASE ~ (i <= start)
      <4>1. i - start \in 1..(end - start) /\ start + (i - start) = i
        BY <1>1, <1>2, <3>2
      <4>2. (s \o t)[i] = t[i - start]
        BY <1>1, <1>2, <2>1, <2>2, <3>2
      <4> QED BY <2>2, <4>1, <4>2
    <3> QED BY Zenon, <3>1, <3>2
  <2> DEFINE v == s \o t
  <2> HIDE DEF v
  <2>6. v = u
    <3>1. v \in Seq(X) /\ Len(v) = end /\ \A i \in 1..end : v[i] = u[i]
      BY Zenon, <2>3, <2>4, <2>5 DEF v
    <3> QED BY <1>2, <2>3, <3>1
  <2> USE DEF v
  <2> QED BY Zenon, <2>6 DEF s, t, u
<1>6. CASE end < k
  <2>1. page.next = end /\ end # 0 /\ end \in 0..k
    BY <1>1, <1>2, <1>4, <1>6
  <2> QED BY <1>4, <1>5, <2>1 DEF page
<1>7. CASE ~ (end < k)
  <2>1. page.next = 0 /\ end = k
    BY <1>1, <1>2, <1>4, <1>7
  <2>2. SubSeq(items, 1, k) = items
    OBVIOUS
  <2>3. page.total = k /\ page.next \in 0..k
        /\ SubSeq(items, 1, start) \o page.items = items
    <3>1. 0 \in 0..k
      BY <1>1
    <3> HIDE DEF k
    <3>2. page.total = k /\ page.next \in 0..k
      BY <1>4, <2>1, <3>1, Zenon
    <3>3. SubSeq(items, 1, start) \o page.items = SubSeq(items, 1, end)
      BY <1>4, <1>5, Zenon
    <3>4. SubSeq(items, 1, end) = items
      BY <2>1, <2>2, Zenon
    <3> QED BY <3>2, <3>3, <3>4, Zenon
  <2> QED BY Zenon, <2>1, <2>3 DEF page
<1> QED BY Zenon, <1>6, <1>7

(* What a page adds to the groups a client has read *)
LEMMA ReadMoves ==
    ASSUME IntakeInv, SnapshotsInv, NEW revision \in Nat, NEW start, NEW limit,
           NEW before, ReadPage(revision, start, limit, before),
           LET groups == Groups(CandidatesOf(revision))
           IN  start \in 0..Len(groups) /\ before = SubSeq(groups, 1, start)
    PROVE  ReaderOK'
<1>1. PICK groups : groups = Groups(CandidatesOf(revision))
  OBVIOUS
<1> DEFINE page == Page(groups, start, limit)
<1>2. /\ phase = "completed" /\ revision <= Len(revisions) /\ limit \in 1..MaxPage
      /\ UNCHANGED <<phase, report, revisions>>
      /\ reader' = [revision |-> revision, limit |-> limit, next |-> page.next,
                    total |-> page.total, groups |-> before \o page.items]
  BY Zenon, <1>1 DEF ReadPage, task, chain
<1>3. Len(revisions) \in Nat /\ revision \in 0..Len(revisions)
  <2>1. Len(revisions) \in Nat
    BY DEF IntakeInv
  <2> QED BY <1>2, <2>1
<1>4. Snapshot(CandidatesOf(revision))
  BY <1>3 DEF SnapshotsInv
<1>5. groups \in Seq({Group(CandidatesOf(revision), c) : c \in CandidatesOf(revision)})
  BY <1>1, <1>4, SnapshotSorts, GroupsOK
<1>6. start \in 0..Len(groups) /\ before = SubSeq(groups, 1, start)
      /\ limit \in Nat \ {0}
  BY <1>1, <1>2, LimitsAssumption
<1>7. /\ page.total = Len(groups) /\ page.next \in 0..Len(groups)
      /\ before \o page.items = IF page.next = 0 THEN groups
                                ELSE SubSeq(groups, 1, page.next)
  BY Zenon, <1>5, <1>6, PageOK
<1> HIDE DEF page
<1>8. /\ reader'.revision = revision /\ reader'.limit = limit
      /\ reader'.next = page.next /\ reader'.total = page.total
      /\ reader'.groups = before \o page.items
  BY Zenon, <1>2
<1>9. CandidatesOf(reader.revision)' = CandidatesOf(revision)
  BY <1>2, <1>8 DEF CandidatesOf
<1>10. Groups(CandidatesOf(reader.revision))' = groups
  BY <1>1, <1>9
<1> QED BY Zenon, <1>2, <1>3, <1>7, <1>8, <1>10 DEF ReaderOK

(* Every step keeps what a client has read. *)
LEMMA ReaderNext ==
    IntakeInv /\ SnapshotsInv /\ IntakeInv' /\ ReaderOK /\ [Next]_vars => ReaderOK'
<1> SUFFICES ASSUME IntakeInv, IntakeInv', SnapshotsInv, ReaderOK, [Next]_vars
             PROVE  ReaderOK'
  OBVIOUS
<1>0. Len(revisions) \in Nat
  BY DEF IntakeInv
<1>1. ASSUME UNCHANGED <<phase, reader>>,
             reader # None => /\ CandidatesOf(reader.revision)' = CandidatesOf(reader.revision)
                              /\ reader.revision \in 0..Len(revisions')
      PROVE  ReaderOK'
  <2> SUFFICES ASSUME reader # None PROVE ReaderOK'
    BY <1>1 DEF ReaderOK
  <2>1. Groups(CandidatesOf(reader.revision))' = Groups(CandidatesOf(reader.revision))
    BY <1>1
  <2> QED BY <1>1, <2>1 DEF ReaderOK
<1>2. CASE UNCHANGED <<phase, aliases, report, revisions, reader>>
  BY <1>1, <1>2 DEF CandidatesOf, ReaderOK
<1>3. ASSUME phase # "completed", reader' = reader PROVE ReaderOK'
  BY <1>3 DEF ReaderOK
<1>4. CASE Verify
  <2>1. UNCHANGED <<phase, reader>>
    BY <1>4 DEF Verify, task
  <2>2. \A n \in 0..Len(revisions) : CandidatesOf(n)' = CandidatesOf(n)
    BY <1>4, VerifySnaps
  <2>3. Len(revisions') = Len(revisions) + 1
    BY <1>4 DEF Verify, IntakeInv
  <2>4. reader # None => /\ CandidatesOf(reader.revision)' = CandidatesOf(reader.revision)
                         /\ reader.revision \in 0..Len(revisions')
    <3> SUFFICES ASSUME reader # None
                 PROVE  /\ CandidatesOf(reader.revision)' = CandidatesOf(reader.revision)
                        /\ reader.revision \in 0..Len(revisions')
      OBVIOUS
    <3>1. PICK n : n = reader.revision
      OBVIOUS
    <3>2. n \in 0..Len(revisions) /\ n = reader'.revision
      BY <2>1, <3>1 DEF ReaderOK
    <3>3. CandidatesOf(n)' = CandidatesOf(n)
      BY <2>2, <3>2
    <3>4. n \in 0..Len(revisions')
      BY <1>0, <2>3, <3>2
    <3> QED BY <3>1, <3>2, <3>3, <3>4 DEF CandidatesOf
  <2> QED BY <1>1, <2>1, <2>4
<1>5. ASSUME NEW revision \in 0..MaxRevisions, NEW limit, FirstPage(revision, limit)
      PROVE  ReaderOK'
  <2>1. ReadPage(revision, 0, limit, <<>>) /\ revision \in Nat
    BY <1>5, LimitsAssumption DEF FirstPage
  <2> DEFINE groups == Groups(CandidatesOf(revision))
  <2>2. revision \in 0..Len(revisions)
    BY <1>0, <2>1 DEF ReadPage
  <2>3. groups \in Seq({Group(CandidatesOf(revision), c) : c \in CandidatesOf(revision)})
    BY <2>2, SnapshotSorts, GroupsOK DEF SnapshotsInv
  <2> HIDE DEF groups
  <2>4. 0 \in 0..Len(groups) /\ <<>> = SubSeq(groups, 1, 0)
    BY <2>3
  <2> QED BY Zenon, <2>1, <2>4, ReadMoves DEF groups
<1>6. CASE NextPage
  <2>1. PICK r : r = reader
    OBVIOUS
  <2>2. /\ r # None /\ r.next # 0
        /\ ReadPage(r.revision, r.next, r.limit, r.groups)
    BY <1>6, <2>1 DEF NextPage
  <2>3. LET groups == Groups(CandidatesOf(r.revision))
        IN  /\ r.revision \in 0..Len(revisions) /\ r.next \in 0..Len(groups)
            /\ r.groups = SubSeq(groups, 1, r.next)
    BY <2>1, <2>2 DEF ReaderOK
  <2>4. r.revision \in Nat
    BY <1>0, <2>3
  <2> QED BY Zenon, <2>2, <2>3, <2>4, ReadMoves
<1> QED BY <1>2, <1>3, <1>4, <1>5, <1>6, PageKinds

(* A summary has every candidate of a report and of each of its revisions  *)
(* with its own level and status, and once, but for what is in a directory *)
(* whose cleanup failed (Candidates), for any tree and any statuses.       *)
THEOREM SummaryCoversOnce == Spec => []CoveredOnce
<1>1. SnapshotsInv => CoveredOnce
  <2> SUFFICES ASSUME SnapshotsInv, NEW n \in 0..Len(revisions),
                      NEW c \in CandidatesOf(n)
               PROVE  LET holding == {g \in Range(Groups(CandidatesOf(n))) : c \in g.members}
                      IN  /\ holding # {}
                          /\ \A g \in holding : /\ g.head.level = c.level
                                                /\ g.head.status = c.status
                          /\ \A g, h \in holding :
                                g # h => g.head.conflict \/ h.head.conflict
    BY Zenon DEF CoveredOnce
  <2> DEFINE S == CandidatesOf(n)
             holding == {g \in Range(Groups(S)) : c \in g.members}
  <2>1. Sortable(S)
    BY SnapshotSorts DEF SnapshotsInv
  <2> HIDE DEF S
  <2>2. PICK H \in SUBSET S :
            /\ Range(Groups(S)) = {Group(S, a) : a \in H}
            /\ \A d \in S \ H : \E a \in H : Absorbs(a, d)
            /\ \A a, b \in H : ~Absorbs(a, b)
    BY Zenon, <2>1, GroupsOK
  <2>3. c \in S
    BY DEF S
  <2>4. \A a : Group(S, a).head = a
               /\ Group(S, a).members = {a} \cup {d \in S : Absorbs(a, d)}
    BY DEF Group
  <2>5. \A a \in H : c \in Group(S, a).members <=> c = a \/ Absorbs(a, c)
    BY <2>3, <2>4
  <2>6. \A g \in holding : \E a \in H : g = Group(S, a) /\ (c = a \/ Absorbs(a, c))
    BY <2>2, <2>5
  <2>7. holding # {}
    <3>1. \E a \in H : c = a \/ Absorbs(a, c)
      BY <2>2, <2>3
    <3> QED BY <2>2, <2>5, <3>1
  <2> HIDE DEF holding
  <2>8. ASSUME NEW g \in holding
        PROVE  g.head.level = c.level /\ g.head.status = c.status
    BY <2>4, <2>6 DEF Absorbs
  <2>9. ASSUME NEW g \in holding, NEW h \in holding, g # h
        PROVE  g.head.conflict \/ h.head.conflict
    <3>1. PICK a \in H : g = Group(S, a) /\ (c = a \/ Absorbs(a, c))
      BY <2>6
    <3>2. PICK b \in H : h = Group(S, b) /\ (c = b \/ Absorbs(b, c))
      BY <2>6
    <3>3. a # b /\ g.head = a /\ h.head = b
      BY <2>4, <2>9, <3>1, <3>2
    <3>4. ~Absorbs(a, b) /\ ~Absorbs(b, a)
      BY <2>2
    <3>5. Absorbs(a, c) /\ Absorbs(b, c)
      BY <3>1, <3>2, <3>3, <3>4
    <3>6. a.conflict \/ b.conflict
      BY <2>1, <2>3, <3>3, <3>4, <3>5, TakersMeet
    <3> QED BY <3>3, <3>6
  <2> QED BY Zenon, <2>7, <2>8, <2>9 DEF S, holding
<1> QED BY <1>1, IntakeInvAlways, SnapshotsInit, SnapshotsNext, PTL DEF Spec

(* A client that follows the cursors reads every group of the revision it  *)
(* asked for, once and in order, with any limit and however many revisions *)
(* are added meanwhile (Page, Summarize).                                  *)
THEOREM PagesAreComplete == Spec => []PagesComplete
<1>1. IntakeInv /\ SnapshotsInv /\ ReaderOK => PagesComplete
  <2> SUFFICES ASSUME IntakeInv, SnapshotsInv, ReaderOK, reader # None
               PROVE  LET groups == Groups(CandidatesOf(reader.revision))
                      IN  /\ reader.total = Len(groups)
                          /\ Len(reader.groups) <= Len(groups)
                          /\ reader.groups = SubSeq(groups, 1, Len(reader.groups))
                          /\ reader.next = 0 => reader.groups = groups
    BY Zenon DEF PagesComplete
  <2> DEFINE S == CandidatesOf(reader.revision)
             groups == Groups(S)
             G == {Group(S, c) : c \in S}
             next == reader.next
  <2>1. /\ reader.revision \in 0..Len(revisions) /\ reader.total = Len(groups)
        /\ next \in 0..Len(groups)
        /\ reader.groups = IF next = 0 THEN groups ELSE SubSeq(groups, 1, next)
    BY DEF ReaderOK
  <2>2. groups \in Seq(G)
    BY <2>1, SnapshotSorts, GroupsOK DEF SnapshotsInv
  <2> HIDE DEF groups, G, S, next
  <2>3. Len(reader.groups) <= Len(groups)
        /\ reader.groups = SubSeq(groups, 1, Len(reader.groups))
    <3>1. SubSeq(groups, 1, Len(groups)) = groups /\ Len(groups) \in Nat
      BY <2>2
    <3>2. Len(SubSeq(groups, 1, next)) = next /\ next <= Len(groups)
      BY <2>1, <2>2
    <3> QED BY <2>1, <3>1, <3>2
  <2>4. reader.next = 0 => reader.groups = groups
    BY <2>1 DEF next
  <2> QED BY <2>1, <2>3, <2>4 DEF groups, S
<1> QED BY <1>1, IntakeInvAlways, SnapshotsInit, SnapshotsNext, ReaderNext, PTL
        DEF Spec
=============================================================================
