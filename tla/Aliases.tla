------------------------------- MODULE Aliases -------------------------------
(***************************************************************************)
(* Paths and the aliases that stand for them outside the store:            *)
(* internal/pathalias, with the path rules of internal/scope and           *)
(* internal/event.                                                         *)
(*                                                                         *)
(* An exact path is the sequence of its names.  What a client writes is a  *)
(* text: an absolute path, a relative one, or parts behind the alias of a  *)
(* root (`workspace://' is root 1, `temp://0' root 2).  The parts of a     *)
(* text may be empty or `..'; an empty part in front of others makes them  *)
(* an absolute path.                                                       *)
(***************************************************************************)
EXTENDS Naturals, Sequences, FiniteSetsExt

Up == ".."
Empty == ""

Text(form, root, parts) == [form |-> form, root |-> root, parts |-> parts]

Texts == [form: {"absolute", "relative", "alias"}, root: Nat, parts: Seq(STRING)]

(* No path: what a refused text stands for *)
NoPath == <<"none">>

(* Names are what an exact path is made of. *)
Name == STRING \ {Up, Empty}

Path == Seq(Name) \ {NoPath}

(* True of every literal; the provers have no fact that says so. *)
ASSUME LiteralsAssumption == "none" \in STRING /\ "alias:" \in STRING

(* A path and one more part *)
Enter(path, part) ==
    CASE part = Empty -> path
      [] part = Up -> IF path = <<>> THEN <<>> ELSE SubSeq(path, 1, Len(path) - 1)
      [] OTHER -> Append(path, part)

(* filepath.Clean of an absolute path *)
Clean(parts) ==
    LET done[i \in 0..Len(parts)] ==
            IF i = 0 THEN <<>> ELSE Enter(done[i - 1], parts[i])
    IN  done[Len(parts)]

PathWithin(root, path) ==
    Len(root) <= Len(path) /\ SubSeq(path, 1, Len(root)) = root

PathsOverlap(a, b) == PathWithin(a, b) \/ PathWithin(b, a)

(* A root is neither the file system's root nor the user's home.  Roots    *)
(* are directories here, written without `..': what else is asked of them  *)
(* can only refuse more.                                                   *)
ValidateRoot(root, home) == root \notin {<<>>, home}

(* The directories a task may be scoped to do not overlap. *)
Validate(roots, home) ==
    /\ roots # <<>>
    /\ \A i \in DOMAIN roots : ValidateRoot(roots[i], home)
    /\ \A i, j \in DOMAIN roots : i < j => ~PathsOverlap(roots[i], roots[j])

(* A table binds each root's alias to its path and to the identity it has. *)
New(roots, stableIdentity) ==
    [i \in DOMAIN roots |->
        [path |-> roots[i], identity |-> stableIdentity[roots[i]]]]

Project(table, exact) ==
    LET holding == {i \in DOMAIN table : PathWithin(table[i].path, exact)}
        first == CHOOSE i \in holding : \A j \in holding : i <= j
    IN  IF holding = {} THEN Text("outside", 0, <<>>)
        ELSE Text("alias", first,
                  SubSeq(exact, Len(table[first].path) + 1, Len(exact)))

HasTraversal(parts) == Up \in Range(parts)

IsAbs(parts) == Len(parts) > 1 /\ Head(parts) = Empty

(* An alias is resolved while its root is the directory that was bound. *)
Resolve(table, stableIdentity, alias) ==
    IF \/ alias.root \notin DOMAIN table
       \/ stableIdentity[table[alias.root].path] # table[alias.root].identity
       \/ IsAbs(alias.parts) \/ HasTraversal(alias.parts)
    THEN NoPath
    ELSE Clean(table[alias.root].path \o alias.parts)

(* resolveExistingPrefix: a path with the link on it, if any, followed *)
EvalSymlinks(links, path) ==
    LET on == {l \in DOMAIN links : PathWithin(l, path)}
    IN  IF on = {} THEN path
        ELSE LET l == CHOOSE l \in on : TRUE
             IN  links[l] \o SubSeq(path, Len(l) + 1, Len(path))

(* Mutant: the joined path is not cleaned. *)
JoinedRaw(text, base) ==
    CASE text.form = "absolute" -> text.parts
      [] text.form = "relative" -> base \o text.parts
      [] text.form = "alias" -> base \o <<"alias:">> \o text.parts

(* A text that is no absolute path is joined to the base; an alias is not  *)
(* known here and is a relative path as any other, whose first name is     *)
(* what the alias is written with.                                         *)
Joined(text, base) ==
    Clean(CASE text.form = "absolute" -> text.parts
            [] text.form = "relative" -> base \o text.parts
            [] text.form = "alias" -> base \o <<"alias:">> \o text.parts)

(* Mutant: links are not followed. *)
NormalizeByName(text, base, roots, links) ==
    LET abs == Joined(text, base)
    IN  IF \/ text.form # "absolute" /\ base = NoPath
           \/ \A i \in DOMAIN roots : ~PathWithin(roots[i], abs)
        THEN NoPath ELSE abs

(* The exact path must lie below a root, by its names and with the links   *)
(* followed (normalizeScopedPath).  Only a text that needs one has a base. *)
NormalizeScopedPath(text, base, roots, links) ==
    LET abs == Joined(text, base)
        holding == {i \in DOMAIN roots : PathWithin(roots[i], abs)}
    IN  IF \/ text.form # "absolute" /\ base = NoPath
           \/ holding = {}
           \/ \E i \in holding :
                 ~PathWithin(EvalSymlinks(links, roots[i]),
                             EvalSymlinks(links, abs))
        THEN NoPath ELSE abs
==============================================================================
