------------------------------ MODULE MCIntake ------------------------------
(***************************************************************************)
(* The instance of Intake that is model checked: a workspace with a tree   *)
(* of two directories and a file, and one temporary root.                  *)
(***************************************************************************)
EXTENDS Intake, TLC

W == <<"w">>
T == <<"t">>

MCScopes == {<<W, T>>, <<W, <<"w", "a">>>>, <<T, <<"h">>>>}

MCHome == <<"h">>

MCNames == <<"a", "b", "c", "w">>

MCLinks == {<<>>, <<"w", "a">> :> <<"h">>}

MCTree == {[path |-> <<"w", "a">>, dir |-> TRUE],
           [path |-> <<"w", "a", "b">>, dir |-> TRUE],
           [path |-> <<"w", "a", "b", "c">>, dir |-> FALSE]}

Event(id, type, wd, outputs) ==
    [id |-> id, type |-> type, task |-> "task", wellFormed |-> TRUE, wd |-> wd,
     outputs |-> outputs]

Declared == "artifact_declared"
Cleanup == "cleanup_attempted"

Abs(parts) == Text("absolute", 0, parts)
Rel(parts) == Text("relative", 0, parts)
Alias(root, parts) == Text("alias", root, parts)

(* Twice the same file, a cleanup, a path out of the scope and one of      *)
(* another root, an alias; then events that are refused for themselves.    *)
MCOwnerInputs ==
    {Event(1, Declared, None, {Rel(<<"a", "b", "c">>)}),
     Event(2, Declared, Abs(<<"w", "a">>), {Rel(<<"b", "c">>)}),
     Event(3, Cleanup, None, {Abs(<<"w", "a", "b">>)}),
     Event(4, Declared, None, {Abs(<<"w", "a", Up, Up, "h">>)}),
     Event(4, Declared, None, {Rel(<<Up, "t", "a">>)}),
     Event(5, Declared, Rel(<<"a">>), {}),
     Event(5, Declared, None, {Alias(1, <<"a", Up, Up, "b">>)}),
     [Event(6, Declared, None, {}) EXCEPT !.task = "other"],
     [Event(6, Declared, None, {}) EXCEPT !.wellFormed = FALSE],
     Event(6, "unknown", None, {}),
     Event(6, Declared, None, {Rel(<<"a">>), Rel(<<"b">>)})}

(* A cleanup and an output, in two roots; an absolute path, a traversal    *)
(* and an unknown root behind an alias; a path without one; another task.  *)
MCExecutorInputs ==
    {Event(1, Cleanup, Alias(1, <<>>), {Alias(1, <<"a", "b">>)}),
     Event(2, Declared, None, {Alias(2, <<"a">>)}),
     Event(7, Declared, None, {Alias(1, <<Empty, "a">>)}),
     Event(7, Declared, None, {Alias(1, <<"a", Up, "b">>)}),
     Event(8, Declared, None, {Alias(3, <<"a">>)}),
     Event(9, Declared, None, {Rel(<<"a">>)}),
     [Event(9, Declared, None, {}) EXCEPT !.task = "other"]}

MCGrants ==
    {[types |-> {}, roots |-> {Alias(1, <<>>)}],
     [types |-> {Declared}, roots |-> {Alias(1, <<"a", Empty>>), Alias(2, <<>>)}],
     [types |-> {}, roots |-> {Alias(3, <<>>)}],
     [types |-> {}, roots |-> {}]}
==============================================================================
