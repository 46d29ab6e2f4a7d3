----------------------------- MODULE ReportChain -----------------------------
(***************************************************************************)
(* What the store promises of the evidence of one owner: an observation is *)
(* opened once, publishes at most one report, and after that its history   *)
(* only grows by one verification at a time until it is dropped as a       *)
(* whole.  Nothing is published again for an owner whose report is gone.   *)
(***************************************************************************)
EXTENDS Naturals, Sequences

CONSTANT Owners

VARIABLES
    phase,  \* per owner: "new", "open", "published" or "gone"
    chain   \* per owner: the report and its revisions, oldest first

vars == <<phase, chain>>

Init ==
    /\ phase = [o \in Owners |-> "new"]
    /\ chain = [o \in Owners |-> <<>>]

Moves(o, from, to) ==
    /\ phase[o] = from
    /\ phase' = [phase EXCEPT ![o] = to]

Open(o) == Moves(o, "new", "open") /\ UNCHANGED chain

Publish(o) ==
    /\ Moves(o, "open", "published")
    /\ chain' = [chain EXCEPT ![o] = chain'[o]]
    /\ Len(chain'[o]) = 1

Extend(o) ==
    /\ phase[o] = "published"
    /\ chain' = [chain EXCEPT ![o] = chain'[o]]
    /\ Len(chain'[o]) = Len(chain[o]) + 1
    /\ SubSeq(chain'[o], 1, Len(chain[o])) = chain[o]
    /\ UNCHANGED phase

Drop(o) ==
    /\ Moves(o, "published", "gone")
    /\ chain' = [chain EXCEPT ![o] = <<>>]

(* An observation that was never ended, or a grant that was never used. *)
Abandon(o) == Moves(o, "open", "gone") /\ UNCHANGED chain

Next ==
    \E o \in Owners :
        Open(o) \/ Publish(o) \/ Extend(o) \/ Drop(o) \/ Abandon(o)

Spec == Init /\ [][Next]_vars

=============================================================================
