---------------------------- MODULE MCOwnedStore ----------------------------
(* OwnedStore for TLC: the threads of one process, or one process each.    *)
EXTENDS OwnedStore, TLC

CONSTANTS OneProcess  \* TRUE: an MCP server; FALSE: one CLI command each

MCProcs == IF OneProcess THEN {"server"} ELSE Threads

MCProcOf == [t \in Threads |-> IF OneProcess THEN "server" ELSE t]

(* Threads differ in nothing but their name (safety runs only). *)
ThreadSymmetry == Permutations(Threads)

(* Nor do owners: no step compares two of them (safety runs only). *)
OwnerSymmetry == Permutations(Threads) \cup Permutations(Owners)

=============================================================================
