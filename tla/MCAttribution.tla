---------------------------- MODULE MCAttribution ----------------------------
(***************************************************************************)
(* The instance of Attribution that is model checked: a process that works *)
(* in the task root and listens on a port, one that holds a candidate path *)
(* open, and one that does neither.                                        *)
(***************************************************************************)
EXTENDS Attribution, TLC

MCKinds == {[inRoot |-> TRUE, holds |-> FALSE, ports |-> Ports],
            [inRoot |-> FALSE, holds |-> TRUE, ports |-> {}],
            [inRoot |-> FALSE, holds |-> FALSE, ports |-> {}]}

(* Only events attribute these, and descent from a process an event names. *)
MCPlain == {[inRoot |-> FALSE, holds |-> FALSE, ports |-> {}]}

PIDSymmetry == Permutations(PIDs)
=============================================================================
