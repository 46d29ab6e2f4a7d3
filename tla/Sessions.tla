------------------------------ MODULE Sessions ------------------------------
(***************************************************************************)
(* Who may do what: the MCP server (internal/mcpserver), whose table of    *)
(* sessions stands in for the handles it does not tell, and the command    *)
(* line (internal/cli), which has no sessions.                             *)
(*                                                                         *)
(* Calls are handled concurrently, in steps: find the handle, call the     *)
(* service, forget.  What the service does to an observation is which      *)
(* records the store has of it afterwards; OwnedStore has the service's    *)
(* own steps.                                                              *)
(***************************************************************************)
EXTENDS Naturals, FiniteSets

CONSTANTS
    Sessions,      \* MCP sessions
    Cli,           \* the command line
    Observations,  \* observations, and grants for an inspection
    Threads,       \* calls handled at the same time
    MaxRestarts,   \* bound: restarts of the server
    None

ASSUME RestartsAssumption == MaxRestarts \in Nat

VARIABLES
    made,    \* the observations whose records were ever written
    store,   \* the records the store has of each observation
    late,    \* those whose End, called by ID, published and answered an error
    began,   \* for an ephemeral one: who began it, in which life of the server
    epoch,   \* restarts of the server so far
    owners,  \* sessionOwners: the observations each session has handles of
    told,    \* the handles that left the server; clients share them
    call     \* the call each thread handles

vars == <<made, store, late, began, epoch, owners, told, call>>

storeVars == <<made, store, late>>

Clients == Sessions \cup {Cli}

Handle == {"owner", "executor"} \X Observations

(* Who began an ephemeral observation, in which life of the server *)
Beginning == [client: Clients, epoch: Nat]

ASSUME NamesAssumption ==
    /\ Cli \notin Sessions
    /\ None \notin Observations /\ None \notin Handle /\ None \notin Beginning

Records == {"grant", "task", "report"}

(* "get" is get_residue_report, verify_task_residue,                       *)
(* resolve_residue_candidate and the retain of the command line: they all  *)
(* need a report and leave one in place.                                   *)
Tools == {"begin", "beginEphemeral", "append", "delegate", "end", "get",
          "inspect", "grant", "forget"}

Starts == {"begin", "beginEphemeral", "grant"}

(* The commands of the command line and the tools of the server: a command *)
(* refuses to begin an ephemeral observation and none delegates, no tool   *)
(* grants or forgets.                                                      *)
Offered(client) ==
    IF client = Cli THEN Tools \ {"beginEphemeral", "delegate"}
    ELSE Tools \ {"grant", "forget"}

Call == [pc: {"idle", "put", "service", "forget"},
         tool: Tools, client: Clients, given: Handle \cup {None},
         id: Observations \cup {None}, handle: Handle \cup {None}]

Idle == [pc |-> "idle", tool |-> "get", client |-> Cli, given |-> None,
         id |-> None, handle |-> None]

Init ==
    /\ made = {}
    /\ store = [o \in Observations |-> {}]
    /\ late = {}
    /\ began = [o \in Observations |-> None]
    /\ epoch = 0
    /\ owners = [s \in Sessions |-> {}]
    /\ told = {}
    /\ call = [t \in Threads |-> Idle]

-----------------------------------------------------------------------------

(* The record the service needs, and what it writes and then removes *)
Needs(tool) ==
    CASE tool \in {"append", "delegate", "end"} -> "task"
      [] tool = "inspect" -> "grant"
      [] OTHER -> "report"

Publishes(tool) == IF tool \in {"end", "inspect"} THEN {"report"} ELSE {}

Removes(tool) ==
    IF tool \in {"end", "inspect", "forget"} THEN {Needs(tool)} ELSE {}

Return(t) == call' = [call EXCEPT ![t] = Idle]

Goto(t, pc) == call' = [call EXCEPT ![t].pc = pc]

(* The record of a new observation or grant is written. *)
Create(o, tool) ==
    /\ made' = made \cup {o}
    /\ store' = [store EXCEPT ![o] = IF tool = "grant" THEN {"grant"}
                                     ELSE {"task"}]
    /\ UNCHANGED late

(* Mutant: the server answers every begin with the handle. *)
BeginTells(t, client, tool, o) ==
    /\ call[t].pc = "idle" /\ tool \in Starts \cap Offered(client)
    /\ o \notin made
    /\ Create(o, tool)
    /\ began' = [began EXCEPT ![o] = IF tool # "beginEphemeral" THEN None
                                     ELSE [client |-> client, epoch |-> epoch]]
    /\ told' = told \cup {<<"owner", o>>}
    /\ UNCHANGED <<epoch, owners, call>>

(* Begin of the service, and GrantRetrospective.  The handle of an         *)
(* ephemeral observation goes to the table, any other to the client.  A    *)
(* begin that fails tells nobody the handle of what it may have written.   *)
Begin(t, client, tool, o) ==
    /\ call[t].pc = "idle" /\ tool \in Starts \cap Offered(client)
    /\ o \notin made
    /\ Create(o, tool)
    /\ IF tool = "beginEphemeral"
       THEN /\ began' = [began EXCEPT ![o] = [client |-> client,
                                              epoch |-> epoch]]
            /\ call' = [call EXCEPT ![t] =
                           [pc |-> "put", tool |-> tool, client |-> client,
                            given |-> None, id |-> None,
                            handle |-> <<"owner", o>>]]
            /\ UNCHANGED told
       ELSE /\ told' = told \cup {<<"owner", o>>}
            /\ UNCHANGED <<began, call>>
    /\ UNCHANGED <<epoch, owners>>

Put(t) ==
    /\ call[t].pc = "put"
    /\ owners' = [owners EXCEPT ![call[t].client] = @ \cup {call[t].handle[2]}]
    /\ Return(t)
    /\ UNCHANGED <<storeVars, began, epoch, told>>

(* Mutant: a table of all observations, whichever session began them. *)
ResolveShared(client, given, id) ==
    IF given # None THEN given
    ELSE IF \E s \in Sessions : id \in owners[s] THEN <<"owner", id>>
    ELSE None

(* resolve: a handle that is given counts, whatever observation is named *)
ResolveHandle(client, given, id) ==
    IF given # None THEN given
    ELSE IF client # Cli /\ id \in owners[client] THEN <<"owner", id>>
    ELSE None

(* A call arrives that names a handle, an observation, or both; the        *)
(* command line and an inspection take handles alone.  One for which there *)
(* is no handle returns at once.                                           *)
Resolve(t, client, tool) ==
    /\ call[t].pc = "idle" /\ tool \in Offered(client) \ Starts
    /\ \E given \in told \cup {None}, id \in Observations \cup {None} :
          LET h == ResolveHandle(client, given, id) IN
          /\ client = Cli \/ tool = "inspect" => id = None
          /\ IF h = None THEN UNCHANGED call
             ELSE call' = [call EXCEPT ![t] =
                              [pc |-> "service", tool |-> tool,
                               client |-> client, given |-> given, id |-> id,
                               handle |-> h]]
    /\ UNCHANGED <<storeVars, began, epoch, owners, told>>

(* The service accepts an executor's handle for events alone.  The summary *)
(* after an End, a Verify or an inspection reads, and changes nothing; an  *)
(* End that named an observation goes on to forget it, even if the summary *)
(* failed.                                                                 *)
Service(t) ==
    LET c == call[t]  o == c.handle[2] IN
    /\ c.pc = "service"
    /\ c.handle[1] = "owner" \/ c.tool = "append"
    /\ Needs(c.tool) \in store[o]
    /\ store' = [store EXCEPT ![o] = (@ \ Removes(c.tool))
                                         \cup Publishes(c.tool)]
    /\ late' = IF c.tool = "end" THEN late \ {o} ELSE late
    /\ told' = IF c.tool = "delegate" THEN told \cup {<<"executor", o>>}
               ELSE told
    /\ IF c.tool = "end" /\ c.id # None THEN Goto(t, "forget")
       ELSE Return(t)
    /\ UNCHANGED <<made, began, epoch, owners>>

(* Mutant: a failed End is forgotten as well. *)
FailForgetting(t) ==
    /\ call[t].pc = "service"
    /\ IF call[t].tool = "end" /\ call[t].id # None THEN Goto(t, "forget")
       ELSE Return(t)
    /\ UNCHANGED <<storeVars, began, epoch, owners, told>>

(* The service refuses the call, or fails and leaves the records as they   *)
(* were.                                                                   *)
Fail(t) ==
    /\ call[t].pc = "service"
    /\ Return(t)
    /\ UNCHANGED <<storeVars, began, epoch, owners, told>>

(* The service fails once the report is published, or the record removed:  *)
(* a directory cannot be synced, a record or an event file not removed.    *)
(* The caller sees an error and forgets nothing.                           *)
FailLate(t) ==
    LET c == call[t]  o == c.handle[2] IN
    /\ c.pc = "service" /\ c.tool \in {"end", "inspect", "forget"}
    /\ c.handle[1] = "owner" /\ Needs(c.tool) \in store[o]
    /\ \E removed \in {{}, Removes(c.tool)} :
          store' = [store EXCEPT ![o] = (@ \ removed) \cup Publishes(c.tool)]
    /\ late' = IF c.tool = "end" /\ c.given = None THEN late \cup {o} ELSE late
    /\ Return(t)
    /\ UNCHANGED <<made, began, epoch, owners, told>>

(* Mutant: the summary is returned and nothing forgotten. *)
ForgetNothing(t) ==
    /\ call[t].pc = "forget"
    /\ Return(t)
    /\ UNCHANGED <<storeVars, began, epoch, owners, told>>

(* What is forgotten is the observation the call named, which need not be  *)
(* the one it ended.                                                       *)
Forget(t) ==
    /\ call[t].pc = "forget"
    /\ owners' = [owners EXCEPT ![call[t].client] = @ \ {call[t].id}]
    /\ Return(t)
    /\ UNCHANGED <<storeVars, began, epoch, told>>

(* The server is restarted; sessions start with an empty table. *)
Restart ==
    /\ epoch < MaxRestarts
    /\ epoch' = epoch + 1
    /\ owners' = [s \in Sessions |-> {}]
    /\ call' = [t \in Threads |-> IF call[t].client = Cli THEN call[t]
                                  ELSE Idle]
    /\ UNCHANGED <<storeVars, began, told>>

(* A task, grant or report is past its expiry, from when on every load     *)
(* refuses it.                                                             *)
Expire(o, record) ==
    /\ record \in store[o]
    /\ store' = [store EXCEPT ![o] = @ \ {record}]
    /\ UNCHANGED <<made, late, began, epoch, owners, told, call>>

Next ==
    \/ \E t \in Threads :
          \/ \E client \in Clients, tool \in Tools :
                \/ \E o \in Observations : Begin(t, client, tool, o)
                \/ Resolve(t, client, tool)
          \/ Put(t) \/ Service(t) \/ Fail(t) \/ FailLate(t) \/ Forget(t)
    \/ Restart
    \/ \E o \in Observations, record \in Records : Expire(o, record)

Spec == Init /\ [][Next]_vars

-----------------------------------------------------------------------------
(* Properties *)

(* The types of the table, of the calls and of what they work on; the      *)
(* handle of an ephemeral observation is not told to any client (begin).   *)
TypeOK ==
    /\ made \subseteq Observations /\ late \subseteq Observations
    /\ store \in [Observations -> SUBSET Records]
    /\ began \in [Observations -> Beginning \cup {None}]
    /\ epoch \in 0..MaxRestarts
    /\ owners \in [Sessions -> SUBSET Observations]
    /\ told \subseteq Handle
    /\ call \in [Threads -> Call]
    /\ \A o \in Observations : began[o] # None => <<"owner", o>> \notin told

(* A call that gives no handle works on an observation its own session     *)
(* began, as ephemeral, in this life of the server: knowing an observation *)
(* ID, in another session, after a restart or on the command line,         *)
(* authorises nothing (resolve, "IDs alone never authorize access").       *)
AuthorityConfined ==
    \A t \in Threads :
        call[t].pc \in {"service", "forget"} =>
            \/ call[t].handle = call[t].given
            \/ began[call[t].handle[2]] =
                   [client |-> call[t].client, epoch |-> epoch]

(* An ephemeral observation can be ended by nobody but its session, and    *)
(* the session keeps that authority while the observation is open: it is   *)
(* lost only with the server, or to an end call that named the observation *)
(* next to the handle of another one (end_task_observation).               *)
ForgetsEnded ==
    [][\A s \in Sessions : \A o \in owners[s] \ owners'[s] :
          \/ epoch' # epoch
          \/ "task" \notin store[o]
          \/ \E t \in Threads : /\ call[t].pc = "forget" /\ call[t].id = o
                                /\ call[t].given # None]_vars

(* A session's authority over an ephemeral observation ends with the end   *)
(* call that succeeds: from when that call returns, the report can be      *)
(* read, verified or resolved in no session (end_task_observation,         *)
(* forget).  The "same-session ephemeral authority" of get_residue_report  *)
(* reaches a report while the call has not returned, and a report whose    *)
(* End published it and still answered an error.                           *)
EndedIsForgotten ==
    \A s \in Sessions : \A o \in owners[s] \ late :
        "report" \in store[o] =>
            \E t \in Threads : /\ call[t].pc = "forget"
                               /\ call[t].client = s /\ call[t].id = o
=============================================================================
