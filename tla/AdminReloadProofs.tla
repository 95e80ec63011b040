-------------------------- MODULE AdminReloadProofs --------------------------
(***************************************************************************)
(* Theorems about AdminReload, for any number of clients, keys, sets and   *)
(* requests, and any bound on faults and edits.                            *)
(***************************************************************************)
EXTENDS AdminReload, SequenceTheorems, TLAPS

USE TemplatesAssumption

-----------------------------------------------------------------------------
(* What requests look like, and what one command does. *)

\* A request names a set of the store and keys of the repository; a removal
\* and a clearing name no body (swagger's parameters of crud.go's handlers).
LEMMA CallShape ==
    ASSUME NEW call \in Calls
    PROVE  /\ call.op \in {"post", "clear", "remove"}
           /\ call.set \in Sets
           /\ Len(call.batch) \in Nat
           /\ \A i \in 1..Len(call.batch) :
                call.batch[i].key \in Keys /\ call.batch[i].body \in Bodies \cup {None}
           /\ call.op = "clear" => call.batch = <<>>
           /\ call.op = "remove" => Len(call.batch) = 1 /\ call.set = Base
<1>1. CASE call \in PostCalls
  <2>1. /\ call.op = "post" /\ call.set \in Sets
        /\ call.batch \in Seq([key : Keys, body : Bodies])
    BY <1>1 DEF PostCalls
  <2> DEFINE R == [key : Keys, body : Bodies]
             batch == call.batch
  <2>2. batch \in Seq(R)
    BY <2>1
  <2>3. Len(batch) \in Nat /\ \A i \in 1..Len(batch) : batch[i] \in R
    <3> HIDE DEF R, batch
    <3> QED BY <2>2, LenProperties, ElementOfSeq
  <2> QED BY <2>1, <2>3
<1>2. CASE call \in ClearCalls
  <2>1. call.op = "clear" /\ call.set \in Sets /\ call.batch = <<>>
    BY <1>2 DEF ClearCalls
  <2> QED BY <2>1
<1>3. CASE call \in RemoveCalls
  <2>1. PICK k \in Keys :
            call = [op |-> "remove", set |-> Base,
                    batch |-> <<[key |-> k, body |-> None]>>]
    BY <1>3 DEF RemoveCalls
  <2> QED BY <2>1
<1> QED BY <1>1, <1>2, <1>3, AdminAssumption

\* A request changes only keys of the repository.
LEMMA ChangedKeys ==
    ASSUME NEW call \in Calls, NEW n \in Nat,
           call.op # "clear" => n <= Len(call.batch)
    PROVE  ChangedBy(call, n) \subseteq Keys
BY CallShape DEF ChangedBy

\* What a request has changed stays among what it has changed.
LEMMA ChangedGrows ==
    ASSUME NEW call, NEW n \in Nat
    PROVE  /\ ChangedBy(call, n) \subseteq ChangedBy(call, n + 1)
           /\ ChangedBy(call, 0) = {}
BY DEF ChangedBy

\* The handler that is about to send a command, and its request.
Writing(c) ==
    /\ c \in Clients
    /\ conn[c].pc = "write"

\* The next command of a handler leaves the sets well formed and touches
\* only keys that it then counts as changed.
LEMMA EffectShape ==
    ASSUME TypeOK, NEW c, Writing(c)
    PROVE  /\ Effect(c) \in [Sets -> Snapshot]
           /\ conn[c].call \in Calls
           /\ conn[c].pos \in Nat /\ conn[c].pos >= 1 /\ conn[c].pos - 1 \in Nat
           /\ ChangedBy(conn[c].call, conn[c].pos) \subseteq Keys
           /\ \A k \in Keys \ ChangedBy(conn[c].call, conn[c].pos), s \in Sets :
                Effect(c)[s][k] = store[s][k]
           /\ \A s \in Sets : s # conn[c].call.set => Effect(c)[s] = store[s]
<1> DEFINE call == conn[c].call
           pos == conn[c].pos
<1>1. /\ call \in Calls
      /\ pos \in Nat /\ pos >= 1 /\ pos - 1 \in Nat
      /\ call.op # "clear" => pos \in 1..Len(call.batch)
      /\ store \in [Sets -> Snapshot]
  BY DEF TypeOK, Handlers, HandlerOK, Writing
<1>2. call.set \in Sets /\ call.op \in {"post", "clear", "remove"}
  BY <1>1, CallShape
<1>3. CASE call.op = "clear"
  <2>1. Effect(c) = [store EXCEPT ![call.set] = Nothing]
    BY <1>3 DEF Effect
  <2>2. Nothing \in Snapshot
    BY DEF Nothing, Snapshot
  <2>3. ChangedBy(call, pos) = Keys
    BY <1>1, <1>3 DEF ChangedBy
  <2> QED BY <1>1, <1>2, <2>1, <2>2, <2>3
<1>4. CASE call.op # "clear"
  <2> DEFINE entry == call.batch[pos]
  <2>1. pos \in 1..Len(call.batch) /\ entry.key \in Keys /\ entry.body \in Bodies \cup {None}
    BY <1>1, <1>4, CallShape
  <2>2. Effect(c) = [store EXCEPT ![call.set][entry.key] = entry.body]
    BY <1>4 DEF Effect
  <2>3. [store[call.set] EXCEPT ![entry.key] = entry.body] \in Snapshot
    BY <1>1, <1>2, <2>1 DEF Snapshot
  <2>4. entry.key \in ChangedBy(call, pos)
    BY <2>1, <1>4 DEF ChangedBy
  <2>5. Effect(c) \in [Sets -> Snapshot]
    BY <1>1, <1>2, <2>2, <2>3
  <2>6. ASSUME NEW k \in Keys, k # entry.key, NEW s \in Sets
        PROVE  Effect(c)[s][k] = store[s][k]
    <3>1. CASE s = call.set
      <4>1. Effect(c)[s] = [store[s] EXCEPT ![entry.key] = entry.body]
        BY <1>1, <2>2, <3>1
      <4>2. store[s] \in [Keys -> Bodies \cup {None}]
        BY <1>1 DEF Snapshot
      <4> QED BY <2>6, <4>1, <4>2
    <3>2. CASE s # call.set
      <4>1. Effect(c)[s] = store[s]
        BY <1>1, <2>2, <3>2
      <4> QED BY <4>1
    <3> QED BY <3>1, <3>2
  <2>7. ChangedBy(call, pos) \subseteq Keys
    BY <1>1, <2>1, ChangedKeys
  <2> QED BY <1>1, <1>2, <2>2, <2>4, <2>5, <2>6, <2>7
<1> QED BY <1>3, <1>4

-----------------------------------------------------------------------------
(* Type correctness: it is inductive as it stands. *)

LEMMA NoProcess ==
    /\ NoLoad \in [left : SUBSET Sets, mocks : Snapshot, bad : BOOLEAN]
    /\ Nothing \in Snapshot
    /\ NoSets \in [Sets -> Snapshot]
    /\ \A k \in Keys : Nothing[k] = None
    /\ \A c \in Clients : AllIdle[c].pc = "idle"
    /\ AllIdle \in [Clients -> Handlers]
BY DEF NoLoad, Nothing, NoSets, AllIdle, Idle, Snapshot, Handlers

LEMMA InitType == Init => TypeOK
<1> SUFFICES ASSUME Init PROVE TypeOK
  OBVIOUS
<1>1. /\ store \in [Sets -> Snapshot] /\ disk \in Snapshot
      /\ faults \in 0..MaxFaults /\ edits \in 0..MaxEdits
  BY AdminAssumption DEF Init
<1>2. \A c \in Clients : HandlerOK(conn[c])
  BY NoProcess DEF Init, HandlerOK
<1> QED BY <1>1, <1>2, NoProcess DEF Init, TypeOK

\* The end of a process leaves no trace of its handlers.
LEMMA EndsType ==
    ASSUME TypeOK, NEW next \in {"disk", "dead"}, Ends(next),
           disk' \in Snapshot, orphans' \subseteq Keys,
           faults' \in 0..MaxFaults, edits' \in 0..MaxEdits
    PROVE  TypeOK'
<1>1. \A c \in Clients : HandlerOK(conn[c])'
  BY NoProcess DEF Ends, HandlerOK
<1> QED BY <1>1, NoProcess DEF Ends, TypeOK

\* A handler's step: the connection of c moves on, the others stay.
LEMMA ConnStep ==
    ASSUME TypeOK, NEW c \in Clients, NEW h \in Handlers, HandlerOK(h),
           conn' = [conn EXCEPT ![c] = h],
           phase' = phase
    PROVE  /\ conn' \in [Clients -> Handlers]
           /\ \A d \in Clients : HandlerOK(conn[d])'
<1>1. \A d \in Clients : conn'[d] = IF d = c THEN h ELSE conn[d]
  BY DEF TypeOK
<1>2. \A d \in Clients : HandlerOK(conn'[d])
  BY <1>1 DEF TypeOK
<1> QED BY <1>2 DEF TypeOK, HandlerOK

LEMMA NextType == TypeOK /\ [Next]_vars => TypeOK'
<1> SUFFICES ASSUME TypeOK, [Next]_vars PROVE TypeOK'
  OBVIOUS
<1>1. ASSUME NEW c \in Clients, Begin(c) PROVE TypeOK'
  <2>1. PICK call \in Calls :
            conn' = [conn EXCEPT ![c] =
                [pc |-> CASE call.op = "remove" -> "find"
                          [] call.op = "clear" -> "write"
                          [] OTHER -> IF call.batch = <<>> THEN "schedule" ELSE "write",
                 call |-> call, pos |-> 1]]
    BY <1>1 DEF Begin
  <2> DEFINE pc == CASE call.op = "remove" -> "find"
                     [] call.op = "clear" -> "write"
                     [] OTHER -> IF call.batch = <<>> THEN "schedule" ELSE "write"
  <2>2. /\ pc \in {"find", "write", "schedule"}
        /\ pc = "find" => call.op = "remove"
        /\ pc = "write" /\ call.op # "clear" => call.op = "post" /\ call.batch # <<>>
        /\ pc = "schedule" => call.batch = <<>>
    BY CallShape
  <2>3. pc = "write" /\ call.op # "clear" => 1 \in 1..Len(call.batch)
    <3> SUFFICES ASSUME call.op = "post", call.batch # <<>>
                 PROVE  1 \in 1..Len(call.batch)
      BY <2>2
    <3>1. call \in PostCalls
      BY AdminAssumption DEF ClearCalls, RemoveCalls
    <3>2. call.batch \in Seq([key : Keys, body : Bodies])
      BY <3>1 DEF PostCalls
    <3> QED BY <3>2, EmptySeq
  <2>4. pc = "schedule" => 1 = Len(call.batch) + 1
    BY <2>2
  <2> DEFINE h == [pc |-> pc, call |-> call, pos |-> 1]
  <2>5. /\ conn' = [conn EXCEPT ![c] = h]
        /\ phase = "up" /\ phase' = phase
    BY <2>1, <1>1 DEF Begin, process
  <2>6. h \in Handlers /\ HandlerOK(h)
    <3> HIDE DEF pc
    <3> QED BY <2>2, <2>3, <2>4, <2>5 DEF Handlers, HandlerOK
  <2>7. conn' \in [Clients -> Handlers] /\ \A d \in Clients : HandlerOK(conn[d])'
    <3> HIDE DEF h
    <3> QED BY <2>5, <2>6, ConnStep
  <2> QED BY <1>1, <2>7 DEF Begin, process, TypeOK
<1>2. ASSUME NEW c \in Clients, AddTemplate(c) \/ DeleteTemplates(c) PROVE TypeOK'
  <2> DEFINE pc == IF conn[c].call.op = "post" /\ conn[c].pos # Len(conn[c].call.batch)
                   THEN "write" ELSE "schedule"
             h == [conn[c] EXCEPT !.pc = pc, !.pos = @ + 1]
  <2>1. Writing(c)
    BY <1>2 DEF AddTemplate, DeleteTemplates, Writing
  <2>2. store' \in [Sets -> Snapshot]
    BY <1>2, <2>1, EffectShape DEF AddTemplate, DeleteTemplates
  <2>3. conn[c] \in Handlers /\ HandlerOK(conn[c]) /\ conn[c].pc = "write"
    BY <2>1 DEF TypeOK, Writing
  <2>4. conn' = [conn EXCEPT ![c] = h] /\ phase' = phase
    BY ZenonT(30), <1>2, <2>3 DEF AddTemplate, DeleteTemplates, process, TypeOK, Handlers
  <2>5. h \in Handlers
    <3>1. pc \in {"write", "schedule"} /\ conn[c].pos + 1 \in Nat \ {0}
      BY <2>3 DEF Handlers
    <3> HIDE DEF pc
    <3> QED BY <2>3, <3>1 DEF Handlers
  <2>6. HandlerOK(h)
    BY <1>2, <2>3, CallShape DEF Handlers, HandlerOK, AddTemplate, DeleteTemplates
  <2>7. conn' \in [Clients -> Handlers] /\ \A d \in Clients : HandlerOK(conn[d])'
    <3> HIDE DEF h
    <3> QED BY <2>4, <2>5, <2>6, ConnStep
  <2> QED BY <1>2, <2>2, <2>7 DEF AddTemplate, DeleteTemplates, process, TypeOK
<1>3. ASSUME NEW c \in Clients, FindTemplate(c) \/ ReloadModel(c) \/ Respond(c)
      PROVE  TypeOK'
  <2>1. conn[c] \in Handlers /\ HandlerOK(conn[c])
    BY DEF TypeOK
  <2>2. PICK h \in Handlers : HandlerOK(h) /\ conn' = [conn EXCEPT ![c] = h]
    <3>1. CASE FindTemplate(c)
      <4> DEFINE pc == IF store[Base][conn[c].call.batch[1].key] = None
                       THEN "refused" ELSE "write"
                 h == [conn[c] EXCEPT !.pc = pc]
      <4>2. conn' = [conn EXCEPT ![c] = h]
        BY <2>1, <3>1 DEF FindTemplate, TypeOK
      <4>3. pc \in {"refused", "write"}
        OBVIOUS
      <4>4. /\ conn[c].call \in Calls /\ phase = "up" /\ conn[c].pos = 1
            /\ conn[c].call.op = "remove"
        BY <2>1, <3>1 DEF FindTemplate, HandlerOK
      <4>5. Len(conn[c].call.batch) = 1
        BY <4>4, CallShape
      <4> HIDE DEF pc
      <4>1. h \in Handlers /\ HandlerOK(h)
        <5>1. h \in Handlers /\ h.pc = pc /\ h.call = conn[c].call /\ h.pos = 1
          BY <2>1, <4>3, <4>4 DEF Handlers
        <5>2. conn[c].pos \in 1..Len(conn[c].call.batch)
          BY <4>4, <4>5
        <5>3. /\ h.pc # "find" /\ h.pc # "schedule" /\ h.call \in Calls
              /\ phase = "up" /\ h.pos \in 1..Len(h.call.batch)
          <6> HIDE DEF h
          <6> QED BY <4>3, <4>4, <5>1, <5>2
        <5> HIDE DEF h
        <5> QED BY <5>1, <5>3 DEF HandlerOK
      <4> QED BY <4>1, <4>2
    <3>2. CASE ReloadModel(c)
      <4>1. [conn[c] EXCEPT !.pc = "accepted"] \in Handlers
            /\ HandlerOK([conn[c] EXCEPT !.pc = "accepted"])
        BY <2>1, <3>2 DEF ReloadModel, Handlers, HandlerOK
      <4>2. conn' = [conn EXCEPT ![c] = [conn[c] EXCEPT !.pc = "accepted"]]
        BY <3>2 DEF ReloadModel, TypeOK
      <4> QED BY <4>1, <4>2
    <3>3. CASE Respond(c)
      <4>1. Idle \in Handlers /\ HandlerOK(Idle)
        BY DEF Idle, Handlers, HandlerOK
      <4> QED BY <3>3, <4>1 DEF Respond
    <3> QED BY <1>3, <3>1, <3>2, <3>3
  <2>3. conn' \in [Clients -> Handlers] /\ \A d \in Clients : HandlerOK(conn[d])'
    BY <1>3, <2>2, ConnStep DEF FindTemplate, ReloadModel, Respond, process
  <2>4. armed' \in BOOLEAN /\ (armed' \/ watching' => phase' = "up")
    BY <1>3, <2>1 DEF FindTemplate, ReloadModel, Respond, process, TypeOK, HandlerOK
  <2> QED BY <1>3, <2>3, <2>4 DEF FindTemplate, ReloadModel, Respond, process, TypeOK
<1>4. ASSUME NEW c \in Clients, CommandFails(c) PROVE TypeOK'
  <2>1. conn[c] \in Handlers /\ HandlerOK(conn[c]) /\ conn[c].pc \in {"find", "write"}
    BY <1>4 DEF TypeOK, CommandFails
  <2>2. PICK applied \in BOOLEAN :
            /\ applied => conn[c].pc = "write"
            /\ store' = IF applied THEN Effect(c) ELSE store
            /\ orphans' = orphans \cup
                ChangedBy(conn[c].call, IF applied THEN conn[c].pos ELSE conn[c].pos - 1)
    BY <1>4 DEF CommandFails
  <2>3. store' \in [Sets -> Snapshot]
    BY <2>2, EffectShape DEF TypeOK, Writing
  <2>4. orphans' \subseteq Keys
    <3>1. /\ conn[c].call \in Calls
          /\ conn[c].pos \in Nat /\ conn[c].pos - 1 \in Nat
          /\ conn[c].call.op # "clear" => conn[c].pos <= Len(conn[c].call.batch)
      <4>1. conn[c].call \in Calls /\ conn[c].pos \in Nat \ {0}
        BY <2>1 DEF Handlers, HandlerOK
      <4>2. Len(conn[c].call.batch) \in Nat /\ (conn[c].call.op = "remove" => Len(conn[c].call.batch) = 1)
        BY <4>1, CallShape
      <4>3. conn[c].call.op # "clear" => conn[c].pos <= Len(conn[c].call.batch)
        <5>1. CASE conn[c].pc = "find"
          <6>1. conn[c].call.op = "remove" /\ conn[c].pos = 1
            BY <2>1, <5>1 DEF HandlerOK
          <6>2. Len(conn[c].call.batch) = 1
            BY <4>2, <6>1
          <6> QED BY <6>1, <6>2
        <5>2. CASE conn[c].pc = "write"
          <6>1. conn[c].call.op # "clear" => conn[c].pos \in 1..Len(conn[c].call.batch)
            BY <2>1, <5>2 DEF HandlerOK
          <6> QED BY <4>1, <4>2, <6>1
        <5> QED BY <2>1, <5>1, <5>2
      <4> QED BY <4>1, <4>3
    <3>2. /\ ChangedBy(conn[c].call, conn[c].pos) \subseteq Keys
          /\ ChangedBy(conn[c].call, conn[c].pos - 1) \subseteq Keys
      BY SMTT(30), <3>1, ChangedKeys, CallShape
    <3> QED BY <2>2, <3>2 DEF TypeOK
  <2> DEFINE h == [conn[c] EXCEPT !.pc = "refused"]
  <2>5. h \in Handlers /\ HandlerOK(h)
    BY <2>1 DEF Handlers, HandlerOK
  <2>6. conn' = [conn EXCEPT ![c] = h] /\ phase' = phase
    BY <1>4 DEF CommandFails, process, TypeOK
  <2>7. conn' \in [Clients -> Handlers] /\ \A d \in Clients : HandlerOK(conn[d])'
    <3> HIDE DEF h
    <3> QED BY <2>5, <2>6, ConnStep
  <2>8. faults' \in 0..MaxFaults
    BY <1>4, AdminAssumption DEF CommandFails, TypeOK
  <2> QED BY <1>4, <2>3, <2>4, <2>7, <2>8 DEF CommandFails, process, TypeOK
<1>5. CASE Exec
  BY <1>5, EndsType DEF Exec, TypeOK
<1>6. CASE Die
  BY <1>6, EndsType, AdminAssumption DEF Die, TypeOK
<1>7. CASE Restart
  BY <1>7 DEF Restart, TypeOK, HandlerOK
<1>8. CASE LoadStep
  <2>1. CASE LoadYAML
    BY <2>1 DEF LoadYAML, TypeOK, HandlerOK
  <2>2. CASE ListSets
    BY <2>2 DEF ListSets, TypeOK, HandlerOK
  <2>3. ASSUME NEW s \in Sets, LoadSet(s) PROVE TypeOK'
    <3>1. load' \in [left : SUBSET Sets, mocks : Snapshot, bad : BOOLEAN]
      BY <2>3 DEF LoadSet, TypeOK, Snapshot
    <3> QED BY <2>3, <3>1 DEF LoadSet, TypeOK, HandlerOK
  <2>4. CASE Serve
    BY <2>4, NoProcess DEF Serve, TypeOK, HandlerOK
  <2>5. CASE LoadFails
    BY <2>5, EndsType DEF LoadFails, TypeOK
  <2> QED BY <1>8, <2>1, <2>2, <2>3, <2>4, <2>5 DEF LoadStep
<1>9. CASE StartWatch
  BY <1>9 DEF StartWatch, TypeOK, HandlerOK
<1>10. CASE Outside
  <2>1. edits' \in 0..MaxEdits
    BY <1>10, AdminAssumption DEF Outside, EditFile, ForeignWrite, TypeOK
  <2>2. ASSUME NEW k \in Keys, EditFile(k) PROVE TypeOK'
    <3>1. disk' \in Snapshot /\ orphans' \subseteq Keys
      BY <2>2 DEF EditFile, TypeOK, Snapshot
    <3>2. armed' \in BOOLEAN /\ (armed' \/ watching' => phase' = "up")
      BY <2>2 DEF EditFile, Noticed, process, TypeOK
    <3> QED BY <2>1, <2>2, <3>1, <3>2 DEF EditFile, process, TypeOK, HandlerOK
  <2>3. ASSUME NEW s \in Sets, NEW k \in Keys, ForeignWrite(s, k) PROVE TypeOK'
    <3>1. store' \in [Sets -> Snapshot]
      BY <2>3 DEF ForeignWrite, TypeOK, Snapshot
    <3> QED BY <2>1, <2>3, <3>1 DEF ForeignWrite, process, TypeOK, HandlerOK
  <2> QED BY <1>10, <2>2, <2>3 DEF Outside
<1>11. CASE UNCHANGED vars
  BY <1>11 DEF vars, process, TypeOK, HandlerOK
<1> QED
  BY <1>1, <1>2, <1>3, <1>4, <1>5, <1>6, <1>7, <1>8, <1>9, <1>10, <1>11
  DEF Next, Handler

\* The variables keep their types, and a handler is always at a step its
\* request can be at, in every behaviour (crud.go, load.go).
THEOREM TypeCorrect == Spec => []TypeOK
<1>1. Init => TypeOK
  BY InitType
<1>2. TypeOK /\ [Next]_vars => TypeOK'
  BY NextType
<1> QED BY <1>1, <1>2, PTL DEF Spec

-----------------------------------------------------------------------------
(* A load in progress stays consistent with what it reads. *)

\* A handler runs only in an instance that is in service.
LEMMA HandlersAreUp ==
    ASSUME TypeOK, NEW c \in Clients, Begin(c) \/ Handler(c) \/ CommandFails(c)
    PROVE  phase = "up" /\ phase' = "up"
BY DEF TypeOK, HandlerOK, Begin, Handler, CommandFails, AddTemplate, FindTemplate,
       DeleteTemplates, ReloadModel, Respond, process

LEMMA NextLoad == TypeOK /\ LoadIsConsistent /\ [Next]_vars => LoadIsConsistent'
<1> SUFFICES ASSUME TypeOK, LoadIsConsistent, [Next]_vars PROVE LoadIsConsistent'
  OBVIOUS
<1>1. ASSUME NEW c \in Clients, Begin(c) \/ Handler(c) \/ CommandFails(c)
      PROVE  LoadIsConsistent'
  BY <1>1, HandlersAreUp DEF LoadIsConsistent
<1>2. CASE Exec \/ Die \/ Restart
  BY <1>2 DEF Exec, Die, Restart, Ends, LoadIsConsistent
<1>3. CASE LoadYAML
  BY <1>3 DEF LoadYAML, LoadIsConsistent
<1>4. CASE ListSets
  <2>1. \A s \in Sets \ load'.left, k \in Keys : store[s][k] = None
    BY <1>4, NoProcess DEF ListSets, TypeOK
  <2>2. load'.mocks = load.mocks /\ load'.bad = load.bad /\ phase' = "sets"
    BY <1>4 DEF ListSets, TypeOK
  <2> QED BY <1>4, <2>1, <2>2 DEF ListSets, LoadIsConsistent, ReadFor
<1>5. ASSUME NEW s \in Sets, LoadSet(s) PROVE LoadIsConsistent'
  <2>1. /\ load'.left = load.left \ {s}
        /\ \A k \in Keys : load'.mocks[k] =
            IF store[s][k] = None THEN load.mocks[k] ELSE store[s][k]
        /\ load'.bad <=>
            load.bad \/ \E k \in Keys : store[s][k] \notin Valid \cup {None}
        /\ phase = "sets" /\ phase' = "sets"
        /\ UNCHANGED <<store, disk, orphans, edits>>
    BY <1>5 DEF LoadSet
  <2>2. ASSUME NEW k \in Keys \ orphans PROVE ReadFor(k)'
    <3>1. ReadFor(k)
      BY <2>1 DEF LoadIsConsistent
    <3>2. CASE store[s][k] = None
      BY <2>1, <3>1, <3>2 DEF ReadFor
    <3>3. CASE store[s][k] # None
      <4>1. s \in Sets \ load'.left /\ load'.mocks[k] = store'[s][k]
        BY <2>1, <3>3
      <4> QED BY <2>1, <3>3, <4>1 DEF ReadFor
    <3> QED BY <3>2, <3>3
  <2>3. ASSUME edits = 0
        PROVE  load'.bad <=>
                \/ \E k \in Keys : disk[k] \notin Valid \cup {None}
                \/ \E t \in Sets \ load'.left, k \in Keys :
                    store[t][k] \notin Valid \cup {None}
    <3>1. load.bad <=>
            \/ \E k \in Keys : disk[k] \notin Valid \cup {None}
            \/ \E t \in Sets \ load.left, k \in Keys :
                store[t][k] \notin Valid \cup {None}
      BY <2>1, <2>3 DEF LoadIsConsistent
    <3> QED BY <2>1, <3>1
  <2> QED BY <2>1, <2>2, <2>3 DEF LoadIsConsistent
<1>6. CASE Serve \/ LoadFails
  BY <1>6 DEF Serve, LoadFails, Ends, LoadIsConsistent
<1>7. CASE StartWatch
  BY <1>7 DEF StartWatch, LoadIsConsistent
<1>8. ASSUME NEW k \in Keys, EditFile(k) PROVE LoadIsConsistent'
  <2>1. CASE phase = "up"
    BY <1>8, <2>1 DEF EditFile, process, LoadIsConsistent
  <2>2. CASE phase # "up"
    <3>1. /\ orphans' = orphans \cup {k}
          /\ edits' # 0
          /\ \A j \in Keys \ {k} : disk'[j] = disk[j]
          /\ UNCHANGED <<store, phase, load>>
      BY <1>8, <2>2 DEF EditFile, Noticed, process, TypeOK, Snapshot
    <3> QED BY <3>1 DEF LoadIsConsistent, ReadFor
  <2> QED BY <2>1, <2>2
<1>9. ASSUME NEW s \in Sets, NEW k \in Keys, ForeignWrite(s, k)
      PROVE  LoadIsConsistent'
  <2>1. /\ orphans' = orphans \cup {k}
        /\ edits' # 0
        /\ \A t \in Sets, j \in Keys \ {k} : store'[t][j] = store[t][j]
        /\ UNCHANGED <<disk, phase, load>>
    BY <1>9 DEF ForeignWrite, process, TypeOK, Snapshot
  <2> QED BY <2>1 DEF LoadIsConsistent, ReadFor
<1>10. CASE UNCHANGED vars
  BY <1>10 DEF vars, process, LoadIsConsistent, ReadFor
<1> QED
  BY <1>1, <1>2, <1>3, <1>4, <1>5, <1>6, <1>7, <1>8, <1>9, <1>10
  DEF Next, LoadStep, Outside

-----------------------------------------------------------------------------
(* What is served is up to date, or somebody owes a reload. *)

\* Only the entries of a key decide who wins it.
LEMMA SameWinners ==
    ASSUME NEW st, NEW st2, NEW d, NEW d2, NEW k,
           \A s \in Sets : st2[s][k] = st[s][k], d2[k] = d[k]
    PROVE  Winners(st2, d2, k) = Winners(st, d, k)
BY DEF Winners, Posted

LEMMA NextExplained ==
    TypeOK /\ LoadIsConsistent /\ StaleIsExplained /\ [Next]_vars => StaleIsExplained'
<1> SUFFICES ASSUME TypeOK, LoadIsConsistent, StaleIsExplained, [Next]_vars,
                    phase' = "up", NEW k \in Keys
             PROVE  \/ served'[k] \in Winners(store', disk', k)
                    \/ armed'
                    \/ \E c \in Clients : k \in Owed(c)'
                    \/ k \in orphans'
  BY DEF StaleIsExplained
<1> DEFINE Goal == \/ served'[k] \in Winners(store', disk', k)
                   \/ armed'
                   \/ \E c \in Clients : k \in Owed(c)'
                   \/ k \in orphans'
<1>1. ASSUME NEW c \in Clients, conn[c].pc \notin {"write", "schedule"},
             \A d \in Clients \ {c} : conn'[d] = conn[d],
             UNCHANGED <<store, disk, served, armed, phase>>, orphans \subseteq orphans'
      PROVE  Goal
  <2>1. Owed(c) = {}
    BY <1>1 DEF Owed
  <2>2. \A d \in Clients \ {c} : Owed(d)' = Owed(d)
    BY <1>1 DEF Owed
  <2> QED BY <1>1, <2>1, <2>2 DEF StaleIsExplained
<1>2. ASSUME NEW c \in Clients, Begin(c) \/ FindTemplate(c) \/ Respond(c) PROVE Goal
  <2>1. conn[c].pc \notin {"write", "schedule"}
    BY <1>2 DEF Begin, FindTemplate, Respond
  <2>2. \A d \in Clients \ {c} : conn'[d] = conn[d]
    BY <1>2 DEF Begin, FindTemplate, Respond, TypeOK
  <2> QED BY <1>1, <1>2, <2>1, <2>2 DEF Begin, FindTemplate, Respond, process
<1>3. ASSUME NEW c \in Clients, AddTemplate(c) \/ DeleteTemplates(c) PROVE Goal
  <2> DEFINE changed == ChangedBy(conn[c].call, conn[c].pos)
  <2>1. /\ Writing(c) /\ store' = Effect(c)
        /\ UNCHANGED <<disk, served, armed, phase, orphans>>
    BY <1>3 DEF AddTemplate, DeleteTemplates, Writing, process
  <2>2. /\ \A s \in Sets : k \notin changed => store'[s][k] = store[s][k]
        /\ conn[c].pos \in Nat /\ conn[c].pos - 1 \in Nat /\ conn[c].call \in Calls
    BY <2>1, EffectShape
  <2>3. /\ conn'[c].call = conn[c].call /\ conn'[c].pos = conn[c].pos + 1
        /\ conn'[c].pc \in {"write", "schedule"}
        /\ \A d \in Clients \ {c} : conn'[d] = conn[d]
    BY <1>3 DEF AddTemplate, DeleteTemplates, TypeOK, Handlers
  <2>4. Owed(c)' = changed
    BY <2>2, <2>3 DEF Owed
  <2>5. Owed(c) \subseteq changed
    <3>1. ChangedBy(conn[c].call, conn[c].pos - 1) \subseteq
            ChangedBy(conn[c].call, conn[c].pos - 1 + 1)
      BY <2>2, ChangedGrows
    <3> QED BY <2>1, <2>2, <3>1 DEF Owed, Writing
  <2>6. \A d \in Clients \ {c} : Owed(d)' = Owed(d)
    BY <2>3 DEF Owed
  <2>7. CASE k \in changed
    BY <2>4, <2>7
  <2>8. CASE k \notin changed
    <3>1. Winners(store', disk', k) = Winners(store, disk, k)
      BY <2>1, <2>2, <2>8, SameWinners
    <3> QED BY <2>1, <2>5, <2>6, <2>8, <3>1 DEF StaleIsExplained
  <2> QED BY <2>7, <2>8
<1>4. ASSUME NEW c \in Clients, ReloadModel(c) PROVE Goal
  BY <1>4 DEF ReloadModel
<1>5. ASSUME NEW c \in Clients, CommandFails(c) PROVE Goal
  <2>1. PICK applied \in BOOLEAN :
            /\ applied => conn[c].pc = "write"
            /\ store' = IF applied THEN Effect(c) ELSE store
            /\ orphans' = orphans \cup
                ChangedBy(conn[c].call, IF applied THEN conn[c].pos ELSE conn[c].pos - 1)
    BY <1>5 DEF CommandFails
  <2>2. /\ \A d \in Clients \ {c} : conn'[d] = conn[d]
        /\ UNCHANGED <<disk, served, armed, phase>>
    BY <1>5 DEF CommandFails, TypeOK, process
  <2>3. \A d \in Clients \ {c} : Owed(d)' = Owed(d)
    BY <2>2 DEF Owed
  <2>4. Owed(c) \subseteq orphans'
    <3>1. CASE applied
      <4>1. conn[c].pos \in Nat /\ conn[c].pos - 1 \in Nat
        BY <2>1, <3>1, EffectShape DEF Writing
      <4>2. ChangedBy(conn[c].call, conn[c].pos - 1) \subseteq
              ChangedBy(conn[c].call, conn[c].pos - 1 + 1)
        BY <4>1, ChangedGrows
      <4>3. conn[c].pos - 1 + 1 = conn[c].pos
        BY <4>1
      <4> QED BY <2>1, <3>1, <4>2, <4>3 DEF Owed
    <3>2. CASE ~ applied
      BY <2>1, <3>2 DEF Owed
    <3> QED BY <3>1, <3>2
  <2>5. CASE k \in orphans'
    BY <2>5
  <2>6. CASE k \notin orphans'
    <3>1. \A s \in Sets : store'[s][k] = store[s][k]
      <4>1. CASE applied
        BY <2>1, <2>6, <4>1, EffectShape DEF Writing
      <4>2. CASE ~ applied
        BY <2>1, <4>2
      <4> QED BY <4>1, <4>2
    <3>2. Winners(store', disk', k) = Winners(store, disk, k)
      BY <2>2, <3>1, SameWinners
    <3> QED BY <2>1, <2>2, <2>3, <2>4, <2>6, <3>2 DEF StaleIsExplained
  <2> QED BY <2>5, <2>6
<1>6. CASE Exec \/ Die \/ Restart \/ LoadYAML \/ ListSets \/ LoadFails
           \/ \E s \in Sets : LoadSet(s)
  BY <1>6 DEF Exec, Die, Restart, LoadYAML, ListSets, LoadFails, LoadSet, Ends
<1>7. CASE Serve
  <2>1. CASE k \in orphans
    BY <1>7, <2>1 DEF Serve
  <2>2. CASE k \notin orphans
    <3>1. ReadFor(k) /\ load.left = {}
      BY <1>7, <2>2 DEF Serve, LoadIsConsistent
    <3>2. load.mocks[k] \in Winners(store, disk, k)
      BY <3>1 DEF ReadFor, Winners, Posted
    <3> QED BY <1>7, <3>2 DEF Serve
  <2> QED BY <2>1, <2>2
<1>8. CASE StartWatch
  BY <1>8 DEF StartWatch, StaleIsExplained, Owed
<1>9. ASSUME NEW j \in Keys, EditFile(j) PROVE Goal
  <2>1. CASE j = k
    BY <1>9, <2>1 DEF EditFile
  <2>2. CASE j # k
    <3>1. /\ disk'[k] = disk[k]
          /\ armed => armed'
          /\ orphans \subseteq orphans'
          /\ UNCHANGED <<store, served, phase, conn>>
      BY <1>9, <2>2 DEF EditFile, process, TypeOK, Snapshot
    <3>2. Winners(store', disk', k) = Winners(store, disk, k)
      BY <3>1, SameWinners
    <3> QED BY <3>1, <3>2 DEF StaleIsExplained, Owed
  <2> QED BY <2>1, <2>2
<1>10. ASSUME NEW t \in Sets, NEW j \in Keys, ForeignWrite(t, j) PROVE Goal
  <2>1. CASE j = k
    BY <1>10, <2>1 DEF ForeignWrite
  <2>2. CASE j # k
    <3>1. /\ \A s \in Sets : store'[s][k] = store[s][k]
          /\ orphans \subseteq orphans'
          /\ UNCHANGED <<disk, served, armed, phase, conn>>
      BY <1>10, <2>2 DEF ForeignWrite, process, TypeOK, Snapshot
    <3>2. Winners(store', disk', k) = Winners(store, disk, k)
      BY <3>1, SameWinners
    <3> QED BY <3>1, <3>2 DEF StaleIsExplained, Owed
  <2> QED BY <2>1, <2>2
<1>11. CASE UNCHANGED vars
  BY <1>11 DEF vars, process, StaleIsExplained, Owed
<1> QED
  BY <1>2, <1>3, <1>4, <1>5, <1>6, <1>7, <1>8, <1>9, <1>10, <1>11
  DEF Next, Handler, LoadStep, Outside

-----------------------------------------------------------------------------
(* The theorems about every behaviour. *)

\* The inductive invariant: what is served now, and what the load under way
\* is about to serve.
IInv == TypeOK /\ LoadIsConsistent /\ StaleIsExplained

LEMMA Inductive ==
    /\ Init => IInv
    /\ IInv /\ [Next]_vars => IInv'
<1>1. Init => LoadIsConsistent /\ StaleIsExplained
  BY DEF Init, LoadIsConsistent, StaleIsExplained
<1> QED BY <1>1, InitType, NextType, NextLoad, NextExplained DEF IInv

\* Whatever an instance in service serves out of date, a reload is armed or
\* still owed, or the change was one that nobody follows up (crud.go: every
\* handler calls reloadModel after its last successful command).
THEOREM Explained == Spec => []StaleIsExplained
<1>1. IInv => StaleIsExplained
  BY DEF IInv
<1> QED BY <1>1, Inductive, PTL DEF Spec

\* A load in progress agrees with the directory and the sets (loadRedis
\* reads them one command at a time).
THEOREM LoadConsistent == Spec => []LoadIsConsistent
<1>1. IInv => LoadIsConsistent
  BY DEF IInv
<1> QED BY <1>1, Inductive, PTL DEF Spec

\* Only Serve brings an instance into service, and only with a load that
\* has rejected nothing.
LEMMA ServeIsClean ==
    ASSUME IInv, edits = 0, Serve
    PROVE  /\ ~ Poisoned(store, disk)
           /\ \A k \in Keys : load.mocks[k] \in Winners(store, disk, k)
<1>1. orphans = {} /\ load.left = {} /\ phase = "sets" /\ ~ load.bad
  BY DEF IInv, LoadIsConsistent, Serve
<1>2. \A k \in Keys : ReadFor(k)
  BY <1>1 DEF IInv, LoadIsConsistent
<1>3. ~ Poisoned(store, disk)
  BY <1>1 DEF IInv, LoadIsConsistent, Poisoned
<1>4. \A k \in Keys : load.mocks[k] \in Winners(store, disk, k)
  BY <1>1, <1>2 DEF ReadFor, Winners, Posted
<1> QED BY <1>3, <1>4

LEMMA OnlyServeBringsUp ==
    ASSUME IInv, [Next]_vars, phase # "up", phase' = "up"
    PROVE  Serve
<1>1. \A c \in Clients : ~ (Begin(c) \/ Handler(c) \/ CommandFails(c))
  BY HandlersAreUp DEF IInv
<1> QED
  BY <1>1 DEF Next, LoadStep, Outside, Exec, Die, Restart, LoadYAML, ListSets, LoadSet,
              LoadFails, StartWatch, EditFile, ForeignWrite, Ends, process, vars

\* A stored mock that Load rejects keeps the instance out of service for
\* good (crud.go stores mocks without validating them; Start calls Fatalf).
THEOREM PoisonIsFatal == Spec => PoisonKeepsDown
<1>1. IInv /\ [Next]_vars =>
        [Poisoned(store, disk) /\ phase # "up" /\ edits = 0 => phase' # "up"]_vars
  BY OnlyServeBringsUp, ServeIsClean
<1> QED BY <1>1, Inductive, PTL DEF Spec, PoisonKeepsDown

-----------------------------------------------------------------------------
(* Without outside edits the instance implements TemplateService. *)

\* The instance speaks of the same sets, keys and winners.
LEMMA SameVocabulary ==
    /\ Service!Snapshot = Snapshot
    /\ Service!NoSets = NoSets
    /\ \A st, d, k : Service!Winners(st, d, k) = Winners(st, d, k)
    /\ \A st, d : Service!Poisoned(st, d) <=> Poisoned(st, d)
BY DEF Service!Snapshot, Snapshot, Service!NoSets, NoSets, Service!Nothing, Nothing,
       Service!Winners, Winners, Service!Posted, Posted, Service!Poisoned, Poisoned

LEMMA InitRefines == Init => Service!ServiceInit
BY AdminAssumption, SameVocabulary DEF Init, Service!ServiceInit

LEMMA NextRefines ==
    ASSUME MaxEdits = 0, IInv, [Next]_vars
    PROVE  [Service!ServiceNext]_(Service!serviceVars)
<1> USE DEF IInv
<1>1. edits = 0
  BY DEF TypeOK
<1>2. ASSUME NEW c \in Clients, Begin(c) \/ FindTemplate(c) \/ ReloadModel(c) \/ Respond(c)
      PROVE  UNCHANGED Service!serviceVars
  BY <1>2 DEF Begin, FindTemplate, ReloadModel, Respond, process, Service!serviceVars
<1>3. ASSUME NEW c \in Clients, Writing(c), store' = Effect(c),
             UNCHANGED <<disk, phase, served>>
      PROVE  Service!EditSet(conn[c].call.set) /\ conn[c].call.set \in Sets
  <2> DEFINE set == conn[c].call.set
  <2>1. set \in Sets /\ phase = "up"
    BY <1>3, EffectShape, CallShape DEF TypeOK, HandlerOK, Writing
  <2>2. Effect(c) \in [Sets -> Snapshot] /\ \A s \in Sets : s # set => Effect(c)[s] = store[s]
    BY <1>3, EffectShape
  <2>3. store' = [store EXCEPT ![set] = Effect(c)[set]] /\ Effect(c)[set] \in Snapshot
    BY <1>3, <2>1, <2>2 DEF TypeOK
  <2>4. served # Down
    BY AdminAssumption DEF TypeOK
  <2> QED BY <1>3, <2>1, <2>3, <2>4, SameVocabulary DEF Service!EditSet
<1>4. ASSUME NEW c \in Clients, AddTemplate(c) \/ DeleteTemplates(c)
      PROVE  Service!ServiceNext
  BY <1>3, <1>4 DEF AddTemplate, DeleteTemplates, Writing, process, Service!ServiceNext
<1>5. ASSUME NEW c \in Clients, CommandFails(c)
      PROVE  Service!ServiceNext \/ UNCHANGED Service!serviceVars
  <2>1. \/ Writing(c) /\ store' = Effect(c)
        \/ store' = store
    BY <1>5 DEF CommandFails, Writing
  <2> QED
    BY <1>3, <1>5, <2>1
    DEF CommandFails, process, Service!ServiceNext, Service!serviceVars
<1>6. ASSUME NEW next \in {"disk", "dead"}, Ends(next), UNCHANGED disk
      PROVE  Service!ServiceNext
  BY <1>6, SameVocabulary DEF Ends, Service!ServiceNext, Service!Stop
<1>7. CASE Exec \/ Die \/ LoadFails
  BY <1>6, <1>7 DEF Exec, Die, LoadFails
<1>8. CASE Restart \/ LoadYAML \/ ListSets \/ StartWatch \/ \E s \in Sets : LoadSet(s)
  BY <1>8 DEF Restart, LoadYAML, ListSets, StartWatch, LoadSet, Service!serviceVars
<1>9. CASE Serve
  <2>1. /\ ~ Poisoned(store, disk)
        /\ \A k \in Keys : load.mocks[k] \in Winners(store, disk, k)
    BY <1>1, <1>9, ServeIsClean
  <2>2. /\ phase # "up" /\ phase' = "up" /\ served' = load.mocks
        /\ served' \in Snapshot /\ UNCHANGED <<store, disk>>
    BY <1>9 DEF Serve, TypeOK
  <2>3. Service!ComeUp
    BY <2>1, <2>2, SameVocabulary DEF Service!ComeUp
  <2> QED BY <2>3 DEF Service!ServiceNext
<1>10. ~ Outside
  BY <1>1 DEF Outside, EditFile, ForeignWrite
<1>11. CASE UNCHANGED vars
  BY <1>11 DEF vars, process, Service!serviceVars
<1> QED
  BY <1>2, <1>4, <1>5, <1>7, <1>8, <1>9, <1>10, <1>11 DEF Next, Handler, LoadStep

\* If only the admin API changes the templates, the instance behaves like
\* TemplateService: it serves one repository at a time, exchanges it only
\* while out of service, and comes back with a snapshot of valid templates
\* (crud.go, load.go and openmock.go's Start, together).
THEOREM ImplementsService == MaxEdits = 0 /\ Spec => ServesSnapshots
<1> SUFFICES ASSUME MaxEdits = 0 PROVE Spec => ServesSnapshots
  OBVIOUS
<1>1. IInv /\ [Next]_vars => [Service!ServiceNext]_(Service!serviceVars)
  BY NextRefines
<1> QED
  BY <1>1, Inductive, InitRefines, PTL DEF Spec, ServesSnapshots, Service!ServiceSpec
=============================================================================
