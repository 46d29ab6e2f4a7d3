--------------------------- MODULE SessionsProofs ---------------------------
(***************************************************************************)
(* The authority of sessions, for any number of sessions, observations,    *)
(* concurrent calls and restarts.                                          *)
(***************************************************************************)
EXTENDS Sessions, TLAPS

(* What a call knows: the handle it works with was given and had been      *)
(* told, or came from the table of a session that began the observation.   *)
CallOK(c) ==
    /\ c.given \in told \cup {None}
    /\ c.client = Cli => c.id = None
    /\ c.pc = "put" =>
          /\ c.client \in Sessions /\ c.handle \in Handle
          /\ c.handle[1] = "owner"
          /\ began[c.handle[2]] = [client |-> c.client, epoch |-> epoch]
    /\ c.pc \in {"service", "forget"} =>
          /\ c.handle \in Handle
          /\ c.given # None => c.handle = c.given
          /\ c.given = None =>
                /\ c.client \in Sessions /\ c.id \in Observations
                /\ c.handle = <<"owner", c.id>>
                /\ began[c.id] = [client |-> c.client, epoch |-> epoch]
    /\ c.pc = "forget" /\ c.given = None => "task" \notin store[c.id]

CallsOK == \A t \in Threads : CallOK(call[t])

(* A session's table holds what the session began in this life. *)
TableOK ==
    \A s \in Sessions : \A o \in owners[s] :
        began[o] = [client |-> s, epoch |-> epoch]

BeganOK ==
    \A o \in Observations :
        began[o] # None => o \in made /\ "grant" \notin store[o]

ToldOK == \A h \in told : h[2] \in made

(* Until its handle is put in the table nobody else can use it. *)
PutsOK ==
    \A t \in Threads : call[t].pc = "put" =>
        /\ "report" \notin store[call[t].handle[2]]
        /\ \A s \in Sessions : call[t].handle[2] \notin owners[s]
        /\ \A u \in Threads \ {t} :
              call[u].pc \in {"put", "service", "forget"}
                  => call[u].handle # call[t].handle

Inv ==
    /\ TypeOK /\ CallsOK /\ TableOK /\ BeganOK /\ ToldOK /\ PutsOK
    /\ EndedIsForgotten

(* Handles are pairs, by which observation and kind can be told. *)
LEMMA HandlePairs ==
    /\ \A h \in Handle : h[1] \in {"owner", "executor"} /\ h[2] \in Observations
    /\ \A h \in Handle : h[1] = "owner" => h = <<"owner", h[2]>>
    /\ \A o \in Observations : <<"owner", o>> \in Handle
    /\ \A o \in Observations : <<"executor", o>> \in Handle
    /\ \A h \in Handle : h # None
BY NamesAssumption DEF Handle

(* An idle call is a call. *)
LEMMA IdleOK == Idle \in Call
BY NamesAssumption DEF Idle, Call, Tools, Clients

(* It knows nothing. *)
LEMMA IdleCall ==
    /\ Idle.pc = "idle" /\ Idle.client = Cli
    /\ Idle.given = None /\ Idle.id = None
BY DEF Idle

(* The invariant holds at first. *)
LEMMA InitOK == Init => Inv
<1> SUFFICES ASSUME Init PROVE Inv
  OBVIOUS
<1>1. TypeOK
  BY IdleOK, RestartsAssumption DEF Init, TypeOK, Records
<1>2. CallsOK
  BY NamesAssumption DEF Init, CallsOK, CallOK, Idle
<1> QED
  BY <1>1, <1>2
  DEF Init, Inv, TableOK, BeganOK, ToldOK, PutsOK, EndedIsForgotten, Idle

-----------------------------------------------------------------------------
(* One lemma per action *)

(* A step that changes nothing keeps the invariant. *)
LEMMA IdleStep ==
    ASSUME Inv, UNCHANGED vars
    PROVE  Inv'
<1>1. TypeOK' /\ BeganOK' /\ ToldOK'
  BY DEF vars, Inv, TypeOK, BeganOK, ToldOK
<1>2. CallsOK'
  <2> SUFFICES ASSUME NEW u \in Threads PROVE CallOK(call[u])'
    BY DEF CallsOK
  <2>1. CallOK(call[u])
    BY DEF Inv, CallsOK
  <2> QED
    BY <2>1 DEF vars, CallOK
<1>3. TableOK' /\ EndedIsForgotten'
  BY DEF vars, Inv, TableOK, EndedIsForgotten
<1>4. PutsOK'
  BY DEF vars, Inv, PutsOK
<1> QED
  BY <1>1, <1>2, <1>3, <1>4 DEF Inv

(* A call that returns leaves what it knew; the rest stays as it was. *)
LEMMA ReturnOK ==
    ASSUME Inv, NEW t \in Threads, Return(t),
           UNCHANGED <<made, store, late, began, epoch, owners, told>>, call[t].pc # "forget"
    PROVE  Inv'
<1> USE DEF Inv
<1>1. \A u \in Threads : call'[u] = IF u = t THEN Idle ELSE call[u]
  BY DEF Return, TypeOK
<1>2. TypeOK'
  BY IdleOK DEF Return, TypeOK
<1>3. CallsOK'
  BY <1>1 DEF CallsOK, CallOK, Idle
<1>4. PutsOK'
  BY <1>1 DEF PutsOK, Idle
<1>5. EndedIsForgotten'
  BY <1>1 DEF EndedIsForgotten
<1> QED
  BY <1>2, <1>3, <1>4, <1>5 DEF TableOK, BeganOK, ToldOK

(* Put: the table takes over from the call. *)
LEMMA PutOK ==
    ASSUME Inv, NEW t \in Threads, Put(t)
    PROVE  Inv'
<1> USE DEF Inv
<1> DEFINE s == call[t].client
           o == call[t].handle[2]
<1>1. /\ call[t].pc = "put" /\ s \in Sessions /\ o \in Observations
      /\ began[o] = [client |-> s, epoch |-> epoch]
      /\ call[t].handle \in Handle
  BY HandlePairs DEF Put, CallsOK, CallOK
<1>2. \A u \in Threads : call'[u] = IF u = t THEN Idle ELSE call[u]
  BY DEF Put, Return, TypeOK
<1>3. \A r \in Sessions :
         owners'[r] = IF r = s THEN owners[r] \cup {o} ELSE owners[r]
  BY <1>1 DEF Put, TypeOK
<1>4. UNCHANGED <<made, store, late, began, epoch, told>>
  BY DEF Put, storeVars
<1>5. TypeOK'
  BY <1>1, <1>4, IdleOK DEF Put, Return, TypeOK
<1>6. CallsOK'
  BY <1>2, <1>4 DEF CallsOK, CallOK, Idle
<1>7. TableOK'
  BY <1>1, <1>3, <1>4 DEF TableOK
<1>8. \A u \in Threads \ {t} : call[u].pc = "put" => call[u].handle[2] # o
  <2> SUFFICES ASSUME NEW u \in Threads \ {t}, call[u].pc = "put",
                      call[u].handle[2] = o
               PROVE  FALSE
    OBVIOUS
  <2>1. call[u].handle \in Handle /\ call[u].handle[1] = "owner"
    BY DEF CallsOK, CallOK
  <2>2. call[t].handle[1] = "owner"
    BY <1>1 DEF CallsOK, CallOK
  <2>3. call[u].handle = call[t].handle
    BY <2>1, <2>2, <1>1, HandlePairs
  <2> QED
    BY <2>3, <1>1 DEF PutsOK
<1>9. PutsOK'
  <2> SUFFICES ASSUME NEW u \in Threads, call'[u].pc = "put"
               PROVE  /\ "report" \notin store'[call'[u].handle[2]]
                      /\ \A r \in Sessions : call'[u].handle[2] \notin owners'[r]
                      /\ \A v \in Threads \ {u} :
                            call'[v].pc \in {"put", "service", "forget"}
                                => call'[v].handle # call'[u].handle
    BY DEF PutsOK
  <2>1. u # t /\ call'[u] = call[u]
    BY <1>2 DEF Idle
  <2>2. "report" \notin store'[call'[u].handle[2]]
    BY <2>1, <1>4 DEF PutsOK
  <2>3. \A r \in Sessions : call'[u].handle[2] \notin owners'[r]
    <3>1. call[u].pc = "put" /\ call[u].handle[2] # o
      BY <2>1, <1>8
    <3>2. \A r \in Sessions : call[u].handle[2] \notin owners[r]
      BY <3>1 DEF PutsOK
    <3> HIDE DEF o, s
    <3> QED
      BY <2>1, <3>1, <3>2, <1>3
  <2>4. \A v \in Threads \ {u} : call'[v].pc \in {"put", "service", "forget"}
                                   => call'[v].handle # call'[u].handle
    BY <2>1, <1>2 DEF PutsOK, Idle
  <2> QED
    BY <2>2, <2>3, <2>4
<1>10. "report" \notin store[o]
  BY <1>1 DEF PutsOK
<1>11. EndedIsForgotten'
  <2> SUFFICES ASSUME NEW r \in Sessions, NEW q \in owners'[r] \ late',
                      "report" \in store'[q]
               PROVE  \E u \in Threads : /\ call'[u].pc = "forget"
                                         /\ call'[u].client = r /\ call'[u].id = q
    BY DEF EndedIsForgotten
  <2>1. q \in owners[r]
    BY <1>3, <1>4, <1>10
  <2>2. PICK u \in Threads : /\ call[u].pc = "forget"
                             /\ call[u].client = r /\ call[u].id = q
    BY <2>1, <1>4 DEF EndedIsForgotten
  <2> QED
    BY <2>2, <1>1, <1>2
<1> QED
  BY <1>4, <1>5, <1>6, <1>7, <1>9, <1>11 DEF BeganOK, ToldOK

(* Resolve: a handle is taken from the call or from the session's table. *)
LEMMA ResolveOK ==
    ASSUME Inv, NEW t \in Threads, NEW client \in Clients, NEW tool \in Tools,
           Resolve(t, client, tool)
    PROVE  Inv'
<1> USE DEF Inv
<1>1. /\ UNCHANGED <<made, store, late, began, epoch, owners, told>>
      /\ call[t].pc = "idle"
  BY DEF Resolve, storeVars
<1>2. PICK given \in told \cup {None}, id \in Observations \cup {None} :
         /\ client = Cli \/ tool = "inspect" => id = None
         /\ IF ResolveHandle(client, given, id) = None THEN UNCHANGED call
            ELSE call' = [call EXCEPT ![t] =
                            [pc |-> "service", tool |-> tool, client |-> client,
                             given |-> given, id |-> id,
                             handle |-> ResolveHandle(client, given, id)]]
  BY DEF Resolve
<1> DEFINE h == ResolveHandle(client, given, id)
           d == [pc |-> "service", tool |-> tool, client |-> client,
                 given |-> given, id |-> id, handle |-> h]
<1>3. CASE h = None
  BY <1>1, <1>2, <1>3, IdleStep DEF vars
<1>4. CASE h # None
  <2>1. call' = [call EXCEPT ![t] = d]
    BY <1>2, <1>4
  <2>2. \/ given # None /\ h = given
        \/ /\ given = None /\ client \in Sessions
           /\ id \in owners[client] /\ h = <<"owner", id>>
    BY <1>4 DEF ResolveHandle, Clients
  <2>3. given = None => id \in Observations
    BY <2>2 DEF TypeOK
  <2>4. h \in Handle
    BY <2>2, <2>3, HandlePairs DEF TypeOK
  <2>5. given = None => began[id] = [client |-> client, epoch |-> epoch]
    BY <2>2 DEF TableOK
  <2>6. \A u \in Threads \ {t} : call[u].pc = "put" => call[u].handle # h
    <3> SUFFICES ASSUME NEW u \in Threads \ {t}, call[u].pc = "put",
                        call[u].handle = h
                 PROVE  FALSE
      OBVIOUS
    <3>1. /\ h[1] = "owner" /\ h = <<"owner", h[2]>> /\ h[2] \in Observations
          /\ began[h[2]] = [client |-> call[u].client, epoch |-> epoch]
          /\ call[u].client \in Sessions
      BY <2>4, HandlePairs DEF CallsOK, CallOK
    <3>2. began[h[2]] # None
      BY <3>1, NamesAssumption DEF TypeOK, Beginning, Clients
    <3>3. h \notin told
      BY <3>1, <3>2 DEF TypeOK
    <3>4. given = None
      BY <2>2, <3>3
    <3>5. h[2] \in owners[client] /\ client \in Sessions
      BY <2>2, <3>4
    <3> QED
      BY <3>5 DEF PutsOK
  <2> HIDE DEF h
  <2>7. d \in Call
    BY <2>4 DEF Call, TypeOK
  <2>8. \A u \in Threads : call'[u] = IF u = t THEN d ELSE call[u]
    BY <2>1 DEF TypeOK
  <2>9. TypeOK'
    BY <1>1, <2>1, <2>7 DEF TypeOK
  <2>10. CallOK(d)
    BY <1>2, <2>2, <2>3, <2>4, <2>5 DEF CallOK
  <2> HIDE DEF d
  <2>11. CallsOK'
    BY <1>1, <2>8, <2>10 DEF CallsOK, CallOK
  <2>12. d.pc = "service" /\ d.handle = h
    BY DEF d
  <2>13. PutsOK'
    BY <1>1, <2>6, <2>8, <2>12 DEF PutsOK
  <2>14. EndedIsForgotten'
    BY <1>1, <2>8 DEF EndedIsForgotten
  <2> QED
    BY <1>1, <2>9, <2>11, <2>13, <2>14 DEF TableOK, BeganOK, ToldOK
<1> QED
  BY <1>3, <1>4

(* An observation that has not begun is in no table and in no call. *)
LEMMA FreshUnknown ==
    ASSUME Inv, NEW o \in Observations, o \notin made
    PROVE  /\ began[o] = None
           /\ \A s \in Sessions : o \notin owners[s]
           /\ \A h \in told : h[2] # o
           /\ \A u \in Threads : call[u].pc \in {"put", "service", "forget"}
                                     => call[u].handle[2] # o
<1> USE DEF Inv
<1>1. began[o] = None
  BY DEF BeganOK
<1>2. \A s \in Sessions, n \in Nat : [client |-> s, epoch |-> n] # None
  BY NamesAssumption DEF Beginning, Clients
<1>3. epoch \in Nat
  BY RestartsAssumption DEF TypeOK
<1>4. \A s \in Sessions : o \notin owners[s]
  BY <1>1, <1>2, <1>3 DEF TableOK
<1>5. \A h \in told : h[2] # o
  BY DEF ToldOK
<1>6. ASSUME NEW u \in Threads, call[u].pc \in {"put", "service", "forget"}
      PROVE  call[u].handle[2] # o
  <2>1. CallOK(call[u])
    BY DEF CallsOK
  <2>2. CASE call[u].pc = "put"
    BY <2>1, <2>2, <1>1, <1>2, <1>3 DEF CallOK
  <2>3. CASE call[u].pc # "put" /\ call[u].given # None
    BY <2>1, <2>3, <1>5, <1>6 DEF CallOK
  <2>4. CASE call[u].pc # "put" /\ call[u].given = None
    BY <2>1, <2>4, <1>1, <1>2, <1>3, <1>6 DEF CallOK
  <2> QED
    BY <2>2, <2>3, <2>4
<1> QED
  BY <1>1, <1>4, <1>5, <1>6

(* Begin: a new handle goes to the client or stays with the call. *)
LEMMA BeginOK ==
    ASSUME Inv, NEW t \in Threads, NEW client \in Clients, NEW tool \in Tools,
           NEW o \in Observations, Begin(t, client, tool, o)
    PROVE  Inv'
<1> USE DEF Inv
<1> DEFINE e == tool = "beginEphemeral"
           d == IF e THEN [pc |-> "put", tool |-> tool, client |-> client,
                           given |-> None, id |-> None,
                           handle |-> <<"owner", o>>]
                ELSE call[t]
           b == [client |-> client, epoch |-> epoch]
           p == IF tool = "grant" THEN {"grant"} ELSE {"task"}
<1>1. /\ call[t].pc = "idle" /\ o \notin made /\ UNCHANGED <<late, epoch, owners>>
      /\ made' = made \cup {o}
      /\ call[t] \in Call /\ CallOK(call[t]) /\ epoch \in Nat
  BY RestartsAssumption DEF Begin, Create, TypeOK, CallsOK
<1>2. /\ began[o] = None /\ \A s \in Sessions : o \notin owners[s]
      /\ \A h \in told : h[2] # o
      /\ \A u \in Threads : call[u].pc \in {"put", "service", "forget"}
                                => call[u].handle[2] # o
  BY <1>1, FreshUnknown
<1>3. call' = [call EXCEPT ![t] = d]
  BY DEF Begin, TypeOK
<1>4. d \in Call
  BY <1>1, HandlePairs DEF Call
<1>5. b \in Beginning /\ b # None
  BY <1>1, NamesAssumption DEF Beginning
<1>6. \A u \in Threads : call'[u] = IF u = t THEN d ELSE call[u]
  BY <1>3 DEF TypeOK
<1>7. /\ store' = [store EXCEPT ![o] = p]
      /\ \A q \in Observations : store'[q] = IF q = o THEN p ELSE store[q]
  BY DEF Begin, Create, TypeOK
<1>8. \A q \in Observations :
         began'[q] = IF q = o /\ e THEN b ELSE began[q]
  BY DEF Begin, TypeOK
<1>9. told' = IF e THEN told ELSE told \cup {<<"owner", o>>}
  BY DEF Begin
<1>10. p \subseteq Records /\ "report" \notin p /\ (e => "grant" \notin p)
  BY DEF Records
<1>11. /\ e => /\ d.pc = "put" /\ d.handle = <<"owner", o>>
                /\ d.client = client /\ d.given = None /\ d.id = None
       /\ ~e => d = call[t]
  OBVIOUS
<1>12. e => client \in Sessions
  BY DEF Begin, Offered, Clients
<1> HIDE DEF d, b, p, e
<1>13. TypeOK'
  <2>1. /\ store' \in [Observations -> SUBSET Records]
        /\ made' \subseteq Observations
    BY <1>1, <1>7, <1>10 DEF TypeOK
  <2>4. began' \in [Observations -> Beginning \cup {None}]
    BY <1>5 DEF Begin, TypeOK, e, b
  <2>2. call' \in [Threads -> Call] /\ told' \subseteq Handle
    BY <1>3, <1>4, <1>9, HandlePairs DEF TypeOK
  <2>3. \A q \in Observations : began'[q] # None => <<"owner", q>> \notin told'
    <3> SUFFICES ASSUME NEW q \in Observations, began'[q] # None
                 PROVE  <<"owner", q>> \notin told'
      OBVIOUS
    <3>1. CASE q = o
      <4>1. e
        BY <3>1, <1>2, <1>8
      <4>2. <<"owner", o>>[2] = o
        OBVIOUS
      <4> QED
        BY <3>1, <4>1, <4>2, <1>2, <1>9
    <3>2. CASE q # o
      BY <3>2, <1>8, <1>9 DEF TypeOK
    <3> QED
      BY <3>1, <3>2
  <2> QED
    BY <2>1, <2>2, <2>3, <2>4, <1>1 DEF TypeOK
<1>14. CallsOK'
  <2> SUFFICES ASSUME NEW u \in Threads PROVE CallOK(call[u])'
    BY DEF CallsOK
  <2>1. CASE u = t /\ e
    <3>1. /\ call'[u] = d /\ d.pc = "put" /\ d.handle[2] = o
          /\ d.handle \in Handle /\ d.handle[1] = "owner"
      BY <2>1, <1>6, <1>11, HandlePairs
    <3>2. began'[o] = [client |-> d.client, epoch |-> epoch']
      BY <2>1, <1>1, <1>8, <1>11 DEF b
    <3> QED
      BY <2>1, <3>1, <3>2, <1>1, <1>9, <1>11, <1>12 DEF CallOK
  <2>2. CASE u = t /\ ~e
    BY <2>2, <1>1, <1>6, <1>9, <1>11 DEF CallOK
  <2>3. CASE u # t
    <3>1. call'[u] = call[u] /\ CallOK(call[u]) /\ call[u] \in Call
      BY <2>3, <1>6 DEF CallsOK, TypeOK
    <3>2. call[u].pc = "put" => began'[call[u].handle[2]]
                                    = began[call[u].handle[2]]
      BY <3>1, <1>2, <1>8, HandlePairs DEF CallOK
    <3>3. call[u].pc \in {"service", "forget"} /\ call[u].given = None
             => /\ began'[call[u].id] = began[call[u].id]
                /\ store'[call[u].id] = store[call[u].id]
      BY <3>1, <1>2, <1>7, <1>8 DEF CallOK
    <3> QED
      BY <3>1, <3>2, <3>3, <1>1, <1>9 DEF CallOK
  <2> QED
    BY <2>1, <2>2, <2>3
<1>15. TableOK'
  BY <1>1, <1>2, <1>8 DEF TableOK, TypeOK
<1>16. BeganOK'
  BY <1>1, <1>2, <1>7, <1>8, <1>10 DEF BeganOK
<1>17. ToldOK'
  <2>1. <<"owner", o>>[2] = o
    OBVIOUS
  <2> QED
    BY <2>1, <1>1, <1>9 DEF ToldOK
<1>18. PutsOK'
  <2> SUFFICES ASSUME NEW u \in Threads, call'[u].pc = "put"
               PROVE  /\ "report" \notin store'[call'[u].handle[2]]
                      /\ \A r \in Sessions : call'[u].handle[2] \notin owners'[r]
                      /\ \A v \in Threads \ {u} :
                            call'[v].pc \in {"put", "service", "forget"}
                                => call'[v].handle # call'[u].handle
    BY DEF PutsOK
  <2>1. CASE u = t
    <3>1. e /\ call'[u].handle = <<"owner", o>>
      BY <2>1, <1>1, <1>6, <1>11
    <3>2. call'[u].handle[2] = o
      BY <3>1
    <3> QED
      BY <2>1, <3>1, <3>2, <1>1, <1>2, <1>6, <1>7, <1>10
  <2>2. CASE u # t
    <3>1. call'[u] = call[u] /\ call[u].handle[2] # o
      BY <2>2, <1>2, <1>6
    <3>2. call[u].handle[2] \in Observations
      BY <2>2, <3>1, HandlePairs DEF CallsOK, CallOK
    <3>3. d.pc \in {"put", "service", "forget"} => d.handle = <<"owner", o>>
      BY <1>1, <1>11
    <3>4. call[u].handle # <<"owner", o>>
      BY <3>1
    <3> QED
      BY <2>2, <3>1, <3>2, <3>3, <3>4, <1>1, <1>6, <1>7 DEF PutsOK
  <2> QED
    BY <2>1, <2>2
<1>19. EndedIsForgotten'
  <2> SUFFICES ASSUME NEW s \in Sessions, NEW q \in owners'[s] \ late',
                      "report" \in store'[q]
               PROVE  \E v \in Threads : /\ call'[v].pc = "forget"
                                          /\ call'[v].client = s
                                          /\ call'[v].id = q
    BY DEF EndedIsForgotten
  <2>1. q \in owners[s] \ late /\ q # o /\ "report" \in store[q]
    BY <1>1, <1>2, <1>7 DEF TypeOK
  <2>2. PICK v \in Threads : /\ call[v].pc = "forget" /\ call[v].client = s
                             /\ call[v].id = q
    BY <2>1 DEF EndedIsForgotten
  <2> QED
    BY <2>2, <1>1, <1>6
<1> QED
  BY <1>13, <1>14, <1>15, <1>16, <1>17, <1>18, <1>19

(* A service call with an owner's handle, or events with any: records are  *)
(* removed, none but a report is added, and an End called by ID either     *)
(* goes on to forget or is on record as having failed late.                *)
LEMMA WorkOK ==
    ASSUME Inv, NEW t \in Threads, NEW p \in SUBSET Records, NEW d,
           call[t].pc = "service",
           call[t].handle[1] = "owner" \/ call[t].tool = "append",
           Needs(call[t].tool) \in store[call[t].handle[2]],
           p \subseteq store[call[t].handle[2]] \cup Publishes(call[t].tool),
           store' = [store EXCEPT ![call[t].handle[2]] = p],
           call' = [call EXCEPT ![t] = d],
           \/ d = Idle
           \/ /\ call[t].tool = "end" /\ call[t].id # None
              /\ d = [call[t] EXCEPT !.pc = "forget"] /\ "task" \notin p,
           late' \subseteq Observations,
           late \ {call[t].handle[2]} \subseteq late',
           call[t].tool # "end" => late' = late,
           call[t].tool = "end" /\ call[t].given = None /\ call[t].id # None
               => d.pc = "forget" \/ call[t].handle[2] \in late',
           \/ told' = told
           \/ told' = told \cup {<<"executor", call[t].handle[2]>>},
           UNCHANGED <<made, began, epoch, owners>>
    PROVE  Inv'
<1> USE DEF Inv
<1> DEFINE c == call[t]
           o == c.handle[2]
<1>1. c.pc = "service" /\ c \in Call /\ CallOK(c)
  BY DEF TypeOK, CallsOK
<1>2. c.handle \in Handle /\ o \in Observations
  BY <1>1, HandlePairs DEF CallOK
<1>3. /\ \/ d = Idle
         \/ /\ c.tool = "end" /\ c.id # None /\ "task" \notin p
            /\ d.pc = "forget" /\ d.handle = c.handle
            /\ d.client = c.client /\ d.given = c.given /\ d.id = c.id
      /\ d \in Call
  BY <1>1, IdleOK DEF Call
<1>4. \A u \in Threads : call'[u] = IF u = t THEN d ELSE call[u]
  BY DEF TypeOK
<1>5. \A q \in Observations : store'[q] = IF q = o THEN p ELSE store[q]
  BY DEF TypeOK
<1>6. \A r \in p : r \in store[o] \/ (r = "report" /\ c.tool \in {"end", "inspect"})
  BY DEF Publishes
<1>7. \A q \in Observations : \A r \in store'[q] : r = "report" \/ r \in store[q]
  BY <1>5, <1>6
<1>8. told \subseteq told' /\ \A h \in told' : h \in told \/ h = <<"executor", o>>
  OBVIOUS
<1>9. o \in made
  <2>1. CASE c.given # None
    BY <2>1, <1>1 DEF CallOK, ToldOK
  <2>2. CASE c.given = None
    <3>1. /\ c.client \in Sessions /\ c.handle = <<"owner", c.id>>
          /\ c.id \in Observations
          /\ began[c.id] = [client |-> c.client, epoch |-> epoch]
      BY <2>2, <1>1 DEF CallOK
    <3>2. epoch \in Nat
      BY RestartsAssumption DEF TypeOK
    <3>3. began[c.id] # None /\ o = c.id
      BY <3>1, <3>2, NamesAssumption DEF Beginning, Clients
    <3> QED
      BY <3>1, <3>3 DEF BeganOK
  <2> QED
    BY <2>1, <2>2
<1>10. /\ Needs(c.tool) \in store[o] /\ (c.handle[1] = "owner" \/ c.tool = "append")
       /\ late \ {o} \subseteq late' /\ (c.tool # "end" => late' = late)
       /\ c.tool = "end" /\ c.given = None /\ c.id # None
              => d.pc = "forget" \/ o \in late'
  OBVIOUS
<1> HIDE DEF o, c
<1>11. TypeOK'
  <2>1. store' \in [Observations -> SUBSET Records]
    BY DEF TypeOK
  <2>2. call' \in [Threads -> Call] /\ told' \subseteq Handle
    BY <1>2, <1>3, <1>8, HandlePairs DEF TypeOK
  <2>3. \A q \in Observations : <<"owner", q>> \in told' => <<"owner", q>> \in told
    BY <1>8
  <2> QED
    BY <2>1, <2>2, <2>3 DEF TypeOK
<1>12. CallsOK'
  <2> SUFFICES ASSUME NEW u \in Threads PROVE CallOK(call[u])'
    BY DEF CallsOK
  <2>1. CASE u = t /\ d = Idle
    BY <2>1, <1>4, IdleCall DEF CallOK
  <2>2. CASE u = t /\ d # Idle
    <3>1. call'[u] = d
      BY <2>2, <1>4
    <3>2. d.given = None => d.id = o
      BY <2>2, <1>1, <1>3 DEF CallOK, o
    <3> QED
      BY <2>2, <3>1, <3>2, <1>1, <1>2, <1>3, <1>5, <1>8 DEF CallOK
  <2>3. CASE u # t
    <3>1. call'[u] = call[u] /\ CallOK(call[u])
      BY <2>3, <1>4 DEF CallsOK
    <3>2. call[u].pc = "forget" /\ call[u].given = None
             => "task" \notin store'[call[u].id]
      BY <3>1, <1>7 DEF CallOK
    <3> QED
      BY <3>1, <3>2, <1>8 DEF CallOK
  <2> QED
    BY <2>1, <2>2, <2>3
<1>13. TableOK' /\ BeganOK'
  BY <1>7 DEF TableOK, BeganOK
<1>14. ToldOK'
  <2>1. <<"executor", o>>[2] = o
    OBVIOUS
  <2> QED
    BY <2>1, <1>8, <1>9 DEF ToldOK
(* A report of an ephemeral observation comes from an End called by ID. *)
<1>15. ASSUME NEW q \in Observations, began[q] # None, o = q,
              "report" \in store'[q], "report" \notin store[q] \/ c.tool = "end"
       PROVE  /\ c.tool = "end" /\ c.handle = <<"owner", q>>
              /\ c.given = None /\ c.id = q /\ q # None
              /\ began[q] = [client |-> c.client, epoch |-> epoch]
  <2>1. c.tool = "end"
    <3>1. "grant" \notin store[q]
      BY <1>15 DEF BeganOK
    <3>2. c.tool # "inspect"
      BY <3>1, <1>10, <1>15 DEF Needs
    <3> QED
      BY <3>2, <1>5, <1>6, <1>15
  <2>2. c.handle = <<"owner", q>>
    BY <2>1, <1>2, <1>10, <1>15, HandlePairs DEF o
  <2>3. c.given # c.handle
    BY <2>2, <1>1, <1>2, <1>15, HandlePairs DEF CallOK, TypeOK
  <2>4. c.given = None /\ c.id = q /\ q # None
    BY <2>2, <2>3, <1>1, <1>15, NamesAssumption DEF CallOK
  <2> QED
    BY <2>1, <2>2, <2>4, <1>1 DEF CallOK
<1>16. PutsOK'
  <2> SUFFICES ASSUME NEW u \in Threads, call'[u].pc = "put"
               PROVE  /\ "report" \notin store'[call'[u].handle[2]]
                      /\ \A r \in Sessions : call'[u].handle[2] \notin owners'[r]
                      /\ \A v \in Threads \ {u} :
                            call'[v].pc \in {"put", "service", "forget"}
                                => call'[v].handle # call'[u].handle
    BY DEF PutsOK
  <2>1. u # t /\ call'[u] = call[u] /\ call[u].pc = "put"
    BY <1>3, <1>4 DEF Idle
  <2>2. /\ call[u].handle \in Handle /\ call[u].handle[1] = "owner"
        /\ began[call[u].handle[2]] = [client |-> call[u].client, epoch |-> epoch]
        /\ call[u].client \in Sessions
    BY <2>1 DEF CallsOK, CallOK
  <2>3. epoch \in Nat
    BY RestartsAssumption DEF TypeOK
  <2>4. /\ call[u].handle[2] \in Observations
        /\ began[call[u].handle[2]] # None
        /\ call[u].handle = <<"owner", call[u].handle[2]>>
    BY <2>2, <2>3, HandlePairs, NamesAssumption DEF Beginning, Clients
  <2>5. "report" \notin store[call[u].handle[2]] /\ c.handle # call[u].handle
    BY <2>1, <1>1 DEF PutsOK, c
  <2>6. "report" \notin store'[call[u].handle[2]]
    <3>1. SUFFICES ASSUME "report" \in store'[call[u].handle[2]] PROVE FALSE
      OBVIOUS
    <3>2. o = call[u].handle[2]
      BY <3>1, <2>4, <2>5, <1>5
    <3> QED
      BY <3>1, <3>2, <2>4, <2>5, <1>15
  <2>7. d.pc \in {"put", "service", "forget"} => d.handle = c.handle
    BY <1>3 DEF Idle
  <2>8. ASSUME NEW v \in Threads \ {u},
               call'[v].pc \in {"put", "service", "forget"}
        PROVE  call'[v].handle # call'[u].handle
    BY <2>1, <2>5, <2>7, <2>8, <1>4 DEF PutsOK
  <2> QED
    BY <2>1, <2>6, <2>8 DEF PutsOK
<1>17. EndedIsForgotten'
  <2> SUFFICES ASSUME NEW s \in Sessions, NEW q \in owners'[s] \ late',
                      "report" \in store'[q]
               PROVE  \E v \in Threads : /\ call'[v].pc = "forget"
                                          /\ call'[v].client = s
                                          /\ call'[v].id = q
    BY DEF EndedIsForgotten
  <2>1. q \in owners[s] /\ q \in Observations
    BY DEF TypeOK
  <2>2. CASE "report" \in store[q] /\ q \notin late
    <3>1. PICK v \in Threads : /\ call[v].pc = "forget" /\ call[v].client = s
                               /\ call[v].id = q
      BY <2>1, <2>2 DEF EndedIsForgotten
    <3> QED
      BY <3>1, <1>1, <1>4 DEF c
  <2>3. CASE "report" \notin store[q] \/ q \in late
    <3>1. epoch \in Nat /\ began[q] = [client |-> s, epoch |-> epoch]
      <4>1. epoch \in Nat
        BY RestartsAssumption DEF TypeOK
      <4> QED
        BY <2>1, <4>1 DEF TableOK
    <3>2. began[q] # None
      BY <2>1, <3>1, NamesAssumption DEF Beginning, Clients
    <3>3. o = q /\ ("report" \notin store[q] \/ c.tool = "end")
      BY <2>1, <2>3, <1>5, <1>10
    <3>4. /\ c.tool = "end" /\ c.given = None /\ c.id = q /\ q # None
          /\ began[q] = [client |-> c.client, epoch |-> epoch]
      BY <2>1, <3>2, <3>3, <1>15
    <3>5. c.client = s
      BY <3>1, <3>4
    <3>6. d.pc = "forget"
      BY <3>3, <3>4, <1>10
    <3> QED
      BY <3>4, <3>5, <3>6, <1>3, <1>4, IdleCall
  <2> QED
    BY <2>2, <2>3
<1> QED
  BY <1>11, <1>12, <1>13, <1>14, <1>16, <1>17

(* Service: an End removes the task and goes on to forget. *)
LEMMA ServiceOK ==
    ASSUME Inv, NEW t \in Threads, Service(t)
    PROVE  Inv'
<1> DEFINE c == call[t]
           o == c.handle[2]
           x == c.tool = "end" /\ c.id # None
           d == IF x THEN [c EXCEPT !.pc = "forget"] ELSE Idle
           p == (store[o] \ Removes(c.tool)) \cup Publishes(c.tool)
<1>1. c.pc = "service" /\ c \in Call /\ o \in Observations
  BY HandlePairs DEF Service, Inv, TypeOK, CallsOK, CallOK
<1>2. call' = [call EXCEPT ![t] = d]
  BY DEF Service, Return, Goto, Inv, TypeOK
<1>3. p \in SUBSET Records /\ (c.tool = "end" => "task" \notin p)
  BY <1>1 DEF Inv, TypeOK, Publishes, Removes, Needs, Records
<1>4. store' = [store EXCEPT ![o] = p]
  BY DEF Service
<1>5. c.tool = "end" /\ c.id # None => d.pc = "forget"
  BY <1>1 DEF Call
<1>6. /\ late' = IF c.tool = "end" THEN late \ {o} ELSE late
      /\ c.handle[1] = "owner" \/ c.tool = "append"
      /\ Needs(c.tool) \in store[o]
      /\ told' = told \/ told' = told \cup {<<"executor", o>>}
      /\ UNCHANGED <<made, began, epoch, owners>>
  BY DEF Service
<1>7. late' \subseteq Observations /\ late \ {o} \subseteq late'
  BY <1>6 DEF Inv, TypeOK
<1>8. p \subseteq store[o] \cup Publishes(c.tool)
  OBVIOUS
<1>9. d = Idle \/ (/\ c.tool = "end" /\ c.id # None /\ "task" \notin p
                   /\ d = [c EXCEPT !.pc = "forget"])
  BY <1>3
<1> HIDE DEF d, p
<1> QED
  BY <1>1, <1>2, <1>3, <1>4, <1>5, <1>6, <1>7, <1>8, <1>9, WorkOK

(* FailLate: what an End leaves behind is on record. *)
LEMMA FailLateOK ==
    ASSUME Inv, NEW t \in Threads, FailLate(t)
    PROVE  Inv'
<1> DEFINE c == call[t]
           o == c.handle[2]
<1>1. c.pc = "service" /\ c \in Call /\ o \in Observations
  BY HandlePairs DEF FailLate, Inv, TypeOK, CallsOK, CallOK
<1>2. PICK removed \in {{}, Removes(c.tool)} :
         store' = [store EXCEPT ![o] = (@ \ removed) \cup Publishes(c.tool)]
  BY DEF FailLate
<1> DEFINE p == (store[o] \ removed) \cup Publishes(c.tool)
<1>3. p \in SUBSET Records
  BY <1>1 DEF Inv, TypeOK, Publishes, Records
<1>4. store' = [store EXCEPT ![o] = p]
  BY <1>2
<1>5. /\ late' = IF c.tool = "end" /\ c.given = None THEN late \cup {o} ELSE late
      /\ c.handle[1] = "owner"
      /\ Needs(c.tool) \in store[o]
      /\ call' = [call EXCEPT ![t] = Idle]
      /\ UNCHANGED <<told, made, began, epoch, owners>>
  BY DEF FailLate, Return
<1>6. late' \subseteq Observations /\ late \ {o} \subseteq late'
  BY <1>1, <1>5 DEF Inv, TypeOK
<1>7. p \subseteq store[o] \cup Publishes(c.tool)
  OBVIOUS
<1> HIDE DEF p
<1> QED
  BY <1>1, <1>3, <1>4, <1>5, <1>6, <1>7, WorkOK

(* Forget: the named observation leaves the session's table. *)
LEMMA ForgetOK ==
    ASSUME Inv, NEW t \in Threads, Forget(t)
    PROVE  Inv'
<1> USE DEF Inv
<1>1. /\ call[t].pc = "forget" /\ UNCHANGED <<made, store, late, began, epoch, told>>
      /\ call' = [call EXCEPT ![t] = Idle]
  BY DEF Forget, Return, storeVars
<1>2. \A u \in Threads : call'[u] = IF u = t THEN Idle ELSE call[u]
  BY <1>1 DEF TypeOK
<1>3. \A s \in Sessions :
         owners'[s] = IF s = call[t].client THEN owners[s] \ {call[t].id}
                      ELSE owners[s]
  BY DEF Forget, TypeOK
<1>4. TypeOK'
  BY <1>1, IdleOK DEF Forget, TypeOK
<1>5. CallsOK'
  <2> SUFFICES ASSUME NEW u \in Threads PROVE CallOK(call[u])'
    BY DEF CallsOK
  <2>1. CASE u = t
    BY <2>1, <1>2, IdleCall DEF CallOK
  <2>2. CASE u # t
    <3>1. call'[u] = call[u] /\ CallOK(call[u])
      BY <2>2, <1>2 DEF CallsOK
    <3> QED
      BY <3>1, <1>1 DEF CallOK
  <2> QED
    BY <2>1, <2>2
<1>6. TableOK' /\ BeganOK' /\ ToldOK'
  BY <1>1, <1>3 DEF TableOK, BeganOK, ToldOK
<1>7. PutsOK'
  <2> SUFFICES ASSUME NEW u \in Threads, call'[u].pc = "put"
               PROVE  /\ "report" \notin store'[call'[u].handle[2]]
                      /\ \A r \in Sessions : call'[u].handle[2] \notin owners'[r]
                      /\ \A v \in Threads \ {u} :
                            call'[v].pc \in {"put", "service", "forget"}
                                => call'[v].handle # call'[u].handle
    BY DEF PutsOK
  <2>1. u # t /\ call'[u] = call[u]
    BY <1>2 DEF Idle
  <2>2. \A v \in Threads : call'[v].pc \in {"put", "service", "forget"}
                               => v # t /\ call'[v] = call[v]
    BY <1>2 DEF Idle
  <2>3. /\ "report" \notin store[call[u].handle[2]]
        /\ \A r \in Sessions : call[u].handle[2] \notin owners[r]
        /\ \A v \in Threads \ {u} :
              call[v].pc \in {"put", "service", "forget"}
                  => call[v].handle # call[u].handle
    BY <2>1 DEF PutsOK
  <2> QED
    BY <2>1, <2>2, <2>3, <1>1, <1>3
<1>8. EndedIsForgotten'
  <2> SUFFICES ASSUME NEW s \in Sessions, NEW q \in owners'[s] \ late',
                      "report" \in store'[q]
               PROVE  \E v \in Threads : /\ call'[v].pc = "forget"
                                          /\ call'[v].client = s
                                          /\ call'[v].id = q
    BY DEF EndedIsForgotten
  <2>1. PICK v \in Threads : /\ call[v].pc = "forget" /\ call[v].client = s
                             /\ call[v].id = q
    <3>1. q \in owners[s] \ late /\ "report" \in store[q]
      BY <1>1, <1>3
    <3> QED
      BY <3>1 DEF EndedIsForgotten
  <2> QED
    BY <2>1, <1>2, <1>3
<1> QED
  BY <1>4, <1>5, <1>6, <1>7, <1>8

(* Restart: no table and no call of the server is left, and a call of the  *)
(* command line works with the handle it was given.                        *)
LEMMA RestartOK ==
    ASSUME Inv, Restart
    PROVE  Inv'
<1> USE DEF Inv
<1>1. /\ UNCHANGED <<made, store, late, began, told>>
      /\ owners' = [s \in Sessions |-> {}]
      /\ \A u \in Threads : call'[u] = IF call[u].client = Cli THEN call[u]
                                         ELSE Idle
  BY DEF Restart, storeVars
<1>2. TypeOK'
  BY IdleOK, RestartsAssumption DEF Restart, storeVars, TypeOK
<1>3. \A u \in Threads : call'[u].client = Cli /\ call'[u].pc # "put"
  <2> SUFFICES ASSUME NEW u \in Threads
               PROVE  call'[u].client = Cli /\ call'[u].pc # "put"
    OBVIOUS
  <2>1. CASE call[u].client = Cli
    <3>1. call'[u] = call[u] /\ CallOK(call[u])
      BY <2>1, <1>1 DEF CallsOK
    <3> QED
      BY <2>1, <3>1, NamesAssumption DEF CallOK
  <2>2. CASE call[u].client # Cli
    BY <2>2, <1>1 DEF Idle
  <2> QED
    BY <2>1, <2>2
<1>4. CallsOK'
  <2> SUFFICES ASSUME NEW u \in Threads PROVE CallOK(call[u])'
    BY DEF CallsOK
  <2>1. CASE call[u].client = Cli
    <3>1. call'[u] = call[u] /\ CallOK(call[u]) /\ call[u].pc # "put"
      BY <2>1, <1>1, <1>3 DEF CallsOK
    <3> QED
      BY <2>1, <3>1, <1>1, NamesAssumption DEF CallOK
  <2>2. CASE call[u].client # Cli
    <3>1. call'[u] = Idle
      BY <2>2, <1>1
    <3> QED
      BY <3>1, IdleCall DEF CallOK
  <2> QED
    BY <2>1, <2>2
<1>5. PutsOK'
  BY <1>3 DEF PutsOK
<1> QED
  BY <1>1, <1>2, <1>4, <1>5
  DEF TableOK, BeganOK, ToldOK, EndedIsForgotten

(* Expire: what is refused stays begun and told. *)
LEMMA ExpireOK ==
    ASSUME Inv, NEW o \in Observations, NEW r \in Records, Expire(o, r)
    PROVE  Inv'
<1> USE DEF Inv
<1>1. /\ UNCHANGED <<made, late, began, epoch, owners, told, call>>
      /\ \A q \in Observations : store'[q] \subseteq store[q]
  BY DEF Expire, TypeOK
<1>2. TypeOK'
  <2>1. store[o] \ {r} \in SUBSET Records
    BY DEF TypeOK
  <2> QED
    BY <1>1, <2>1 DEF Expire, TypeOK
<1>3. CallsOK'
  BY <1>1 DEF CallsOK, CallOK
<1>4. TableOK' /\ BeganOK' /\ ToldOK'
  BY <1>1 DEF TableOK, BeganOK, ToldOK
<1>5. PutsOK'
  BY <1>1, HandlePairs DEF PutsOK, CallsOK, CallOK
<1>6. EndedIsForgotten'
  BY <1>1 DEF EndedIsForgotten, TypeOK
<1> QED
  BY <1>2, <1>3, <1>4, <1>5, <1>6

(* Every step keeps the invariant. *)
LEMMA StepOK == Inv /\ [Next]_vars => Inv'
<1> SUFFICES ASSUME Inv, [Next]_vars PROVE Inv'
  OBVIOUS
<1>1. ASSUME NEW t \in Threads, Fail(t) PROVE Inv'
  BY <1>1, ReturnOK DEF Fail, storeVars
<1>2. CASE UNCHANGED vars
  BY <1>2, IdleStep
<1> QED
  BY <1>1, <1>2, BeginOK, PutOK, ResolveOK, ServiceOK, FailLateOK, ForgetOK,
     RestartOK, ExpireOK DEF Next

-----------------------------------------------------------------------------

(* The invariant: what calls, tables and handles know of each other. *)
THEOREM InvAlways == Spec => []Inv
BY InitOK, StepOK, PTL DEF Spec

(* The handle of an ephemeral observation is told to nobody (begin,        *)
(* server.go).                                                             *)
THEOREM HandleUntold == Spec => []TypeOK
BY InvAlways, PTL DEF Inv

(* A call without a handle works on what its own session began in this     *)
(* life of the server (resolve).                                           *)
THEOREM Confined == Spec => []AuthorityConfined
<1>1. Inv => AuthorityConfined
  <2> SUFFICES ASSUME Inv, NEW t \in Threads,
                      call[t].pc \in {"service", "forget"}
               PROVE  \/ call[t].handle = call[t].given
                      \/ began[call[t].handle[2]] =
                             [client |-> call[t].client, epoch |-> epoch]
    BY DEF AuthorityConfined
  <2>1. CallOK(call[t])
    BY DEF Inv, CallsOK
  <2>2. CASE call[t].given # None
    BY <2>1, <2>2 DEF CallOK
  <2>3. CASE call[t].given = None
    <3>1. call[t].handle[2] = call[t].id
      BY <2>1, <2>3 DEF CallOK
    <3> QED
      BY <2>1, <2>3, <3>1 DEF CallOK
  <2> QED
    BY <2>2, <2>3
<1> QED
  BY <1>1, InvAlways, PTL

(* Nobody reads the report of an ephemeral observation once an end call    *)
(* for it has returned without error (end_task_observation, forget).       *)
THEOREM Forgotten == Spec => []EndedIsForgotten
BY InvAlways, PTL DEF Inv

(* A session loses its authority over an open observation only with the    *)
(* server, or to an end that named it next to another's handle (forget).   *)
THEOREM KeptWhileOpen == Spec => ForgetsEnded
<1> DEFINE A == \A s \in Sessions : \A o \in owners[s] \ owners'[s] :
                  \/ epoch' # epoch
                  \/ "task" \notin store[o]
                  \/ \E t \in Threads : /\ call[t].pc = "forget" /\ call[t].id = o
                                        /\ call[t].given # None
<1>1. Inv /\ [Next]_vars => [A]_vars
  <2> SUFFICES ASSUME Inv, Next PROVE A
    OBVIOUS
  <2>1. ASSUME NEW t \in Threads, Forget(t) PROVE A
    <3>1. \A s \in Sessions :
             owners'[s] = IF s = call[t].client THEN owners[s] \ {call[t].id}
                          ELSE owners[s]
      BY <2>1 DEF Forget, Inv, TypeOK
    <3>2. call[t].pc = "forget" /\ CallOK(call[t])
      BY <2>1 DEF Forget, Inv, CallsOK
    <3> QED
      BY <3>1, <3>2 DEF CallOK
  <2>2. ASSUME NEW t \in Threads, Put(t) PROVE A
    BY <2>2 DEF Put, Inv, TypeOK
  <2>3. CASE Restart
    BY <2>3, RestartsAssumption DEF Restart, Inv, TypeOK
  <2>4. CASE UNCHANGED owners
    BY <2>4
  <2> QED
    BY <2>1, <2>2, <2>3, <2>4
    DEF Next, Begin, Resolve, Service, Fail, FailLate, Expire
<1> QED
  BY <1>1, InvAlways, PTL DEF Spec, ForgetsEnded
=============================================================================
