------------------------------- MODULE MCFsScan -------------------------------
(***************************************************************************)
(* The instance of FsScan that is model checked: a file in the root and    *)
(* one in a directory of the root.                                         *)
(***************************************************************************)
EXTENDS FsScan, TLC

CONSTANTS file, dir, inner

MCPaths == {file, dir, inner}

MCParentOf == [p \in MCPaths |-> IF p = inner THEN dir ELSE Root]

MCWindow == 2..3

MCEvents == {[path |-> file, receipt |-> FALSE, cleanup |-> TRUE],
             [path |-> file, receipt |-> TRUE, cleanup |-> FALSE]}

(* Inode numbers are compared with each other and nothing else. *)
Symmetry == Permutations(Inodes) \cup Permutations(RootInodes)
===============================================================================
