------------------------------- MODULE Grouping -------------------------------
(***************************************************************************)
(* How the files of a report are summarised: internal/group.  A candidate  *)
(* is a record whose path is an alias (Aliases); processes and ports have  *)
(* none and make groups of their own.  A group is the candidate it is      *)
(* named after and the members it counts: the number of descendants, their *)
(* total size and the samples are read off the members.                    *)
(***************************************************************************)
EXTENDS Aliases

Descendant(parent, child) == child # parent /\ PathWithin(parent, child)

Below(p, q) == p.root = q.root /\ Descendant(p.parts, q.parts)

(* A directory takes in what is below it, found and faring alike, unless a *)
(* failed cleanup makes it worth showing.                                  *)
Absorbs(c, child) ==
    /\ c.dir /\ Below(c.path, child.path)
    /\ child.level = c.level /\ child.status = c.status /\ ~child.conflict

(* Mutant: what a directory took in is not marked as used. *)
CandidatesUnmarked(sorted) ==
    [i \in DOMAIN sorted |->
        [head |-> sorted[i],
         members |-> {sorted[i]} \cup {c \in Range(sorted) :
                                          Absorbs(sorted[i], c)}]]

(* Candidates, over the candidates sorted by path: each that is not used   *)
(* yet makes a group, and all it takes in become used, whether another     *)
(* directory has taken them in already or not.                             *)
Candidates(sorted) ==
    LET taken(c) == {d \in Range(sorted) : Absorbs(c, d)}
        upTo[i \in 0..Len(sorted)] ==
            IF i = 0 THEN [used |-> {}, groups |-> <<>>]
            ELSE LET c == sorted[i]  prior == upTo[i - 1]
                 IN  IF c \in prior.used THEN prior
                     ELSE [used |-> prior.used \cup taken(c),
                           groups |-> Append(prior.groups,
                               [head |-> c, members |-> {c} \cup taken(c)])]
    IN  upTo[Len(sorted)].groups

(* Page: at most limit items from an offset on; the cursor of the next     *)
(* page is 0 when there is none, as no cursor stands for the first.        *)
Page(items, start, limit) ==
    LET end == IF start + limit > Len(items) THEN Len(items) ELSE start + limit
    IN  [items |-> SubSeq(items, start + 1, end), total |-> Len(items),
         next |-> IF end < Len(items) THEN end ELSE 0]
===============================================================================
