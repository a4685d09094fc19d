----------------------- MODULE BridgeConnectionProofs -----------------------
(***************************************************************************)
(* For any number of requesters, gateways and topics and any order of      *)
(* overlapping switches and reloads: no link is leaked, and the service's   *)
(* client is always the one its configuration describes.                     *)
(*                                                                           *)
(* Clients have no owner in the code: what keeps them apart is that a thread  *)
(* refers to at most one of them, to its replacement until the swap and to    *)
(* the replaced one from the swap on, and that the swap itself is locked.     *)
(***************************************************************************)
EXTENDS BridgeConnection, FiniteSetTheorems, TLAPS

Service == [running: BOOLEAN, cur: Conns, cfg: Config, watching: BOOLEAN]

\* A thread refers to a client exactly while it replaces one.
Holds == \A t \in Threads :
  /\ job[t].conn # 0 <=> pc[t] \in {"subscribe", "swap"}
  /\ job[t].old # 0 <=> pc[t] = "retire"

Held(t) == {job[t].conn, job[t].old}

\* No client has two holders.
Apart == \A t \in Threads :
  /\ svc.cur \notin Held(t)
  /\ \A u \in Threads \ {t} : Held(t) \cap Held(u) \subseteq {0}

\* A replacement is connected as wanted before it is subscribed, and subscribed
\* as wanted before it is installed.
Prepared == \A t \in Threads :
  /\ pc[t] \in {"subscribe", "swap"} =>
       conn[job[t].conn].st # "closed" /\ conn[job[t].conn].gw = Want(t).gw
  /\ pc[t] = "swap" => conn[job[t].conn].subs = Want(t).subs

Starting == /\ pc[Watcher] = "start" =>
                 svc.cur = 1 /\ ~svc.running /\ \A c \in Requesters : pc[c] = "idle"
            /\ \A c \in Requesters : pc[c] # "start"

IInv == Holds /\ Apart /\ Prepared /\ Starting /\ OneLink /\ LastGoodKept

-----------------------------------------------------------------------------
(* Types *)

LEMMA SomeClients ==
  /\ IsFiniteSet(Threads) /\ Cardinality(Threads) \in Nat /\ Cardinality(Threads) >= 1
  /\ 1 \in Conns /\ 0 \notin Conns /\ Conns \subseteq Nat
  /\ Watcher \in Threads /\ Requesters \subseteq Threads
  /\ Configured \in Config /\ Configured.gw \in Gateways
<1>1. /\ IsFiniteSet(Threads) /\ Cardinality(Threads) = Cardinality(Requesters) + 1
      /\ Cardinality(Requesters) \in Nat
  BY BridgeAssumption, FS_AddElement, FS_CardinalityType DEF Threads
<1>2. 1 \in Conns /\ 0 \notin Conns /\ Conns \subseteq Nat BY <1>1 DEF Conns
<1>3. Watcher \in Threads /\ Requesters \subseteq Threads BY DEF Threads
<1>4. Configured \in Config /\ Configured.gw \in Gateways BY BridgeAssumption DEF Config
<1> QED BY <1>1, <1>2, <1>3, <1>4

LEMMA ClosedType == Closed \in Link /\ NoJob \in Job
<1>1. Closed \in Link BY SomeClients DEF Closed, Link
<1>2. NoJob \in Job BY SomeClients DEF NoJob, Job, Config
<1> QED BY <1>1, <1>2

LEMMA WantType == ASSUME TypeOK, NEW t \in Threads PROVE Want(t) \in Config
BY DEF TypeOK, Want, Job, Config

LEMMA LinkTypes ==
  ASSUME NEW c \in Link
  PROVE  /\ [c EXCEPT !.st = "lost"] \in Link
         /\ \A s \in SUBSET Topics : [c EXCEPT !.subs = s, !.tracked = TRUE] \in Link
         /\ \A gw \in Gateways : [Closed EXCEPT !.st = "open", !.gw = gw] \in Link
         /\ \A b \in BOOLEAN : [c EXCEPT !.tracked = b] \in Link
         /\ \A gw \in Gateways, s \in SUBSET Topics :
              [st |-> "open", gw |-> gw, subs |-> s, tracked |-> TRUE] \in Link
BY ClosedType DEF Link

LEMMA JobTypes ==
  ASSUME NEW j \in Job
  PROVE  /\ \A k \in Conns : [j EXCEPT !.conn = k] \in Job
         /\ \A k \in Conns : [j EXCEPT !.old = k, !.conn = 0] \in Job
         /\ [j EXCEPT !.old = 0] \in Job
         /\ \A s \in SUBSET Topics : [j EXCEPT !.subs = s] \in Job
         /\ \A g \in Gateways : [j EXCEPT !.back = g] \in Job
         /\ [j EXCEPT !.undo = TRUE] \in Job
         /\ \A d \in Config : [j EXCEPT !.data = d] \in Job
         /\ \A g, h \in Gateways : [NoJob EXCEPT !.to = g, !.back = h] \in Job
         /\ \A g \in Gateways, s \in SUBSET Topics : [NoJob EXCEPT !.to = g, !.subs = s] \in Job
BY ClosedType DEF Job

LEMMA ServiceTypes ==
  ASSUME NEW v \in Service
  PROVE  /\ \A k \in Conns, c \in Config :
              [v EXCEPT !.running = TRUE, !.cur = k, !.cfg = c] \in Service
         /\ [v EXCEPT !.running = TRUE, !.watching = TRUE] \in Service
BY DEF Service

LEMMA WatchingType ==
  ASSUME NEW v \in Service, NEW b \in BOOLEAN
  PROVE  [v EXCEPT !.watching = @ \/ b] \in Service
BY DEF Service

\* Every variable by itself, with names for the types of the records.
LEMMA Shape ==
  TypeOK <=> /\ conn \in [Conns -> Link] /\ svc \in Service
             /\ file \in Config \cup {Broken} /\ changed \in BOOLEAN /\ error \in BOOLEAN
             /\ pc \in [Threads -> PcState] /\ job \in [Threads -> Job]
             /\ edits \in Nat /\ faults \in Nat
BY DEF TypeOK, Service

LEMMA ShapeNext ==
  ASSUME conn' \in [Conns -> Link], svc' \in Service,
         file' \in Config \cup {Broken}, changed' \in BOOLEAN, error' \in BOOLEAN,
         pc' \in [Threads -> PcState], job' \in [Threads -> Job],
         edits' \in Nat, faults' \in Nat
  PROVE  TypeOK'
BY DEF TypeOK, Service


LEMMA TypesInit == Init => TypeOK
<1> SUFFICES ASSUME Init PROVE TypeOK
  OBVIOUS
<1>1. conn \in [Conns -> Link] /\ job \in [Threads -> Job]
  BY ClosedType DEF Init
<1>2. svc \in Service BY SomeClients DEF Init, Service
<1>3. pc \in [Threads -> PcState] BY DEF Init, PcState
<1>4. file \in Config \cup {Broken} /\ edits \in Nat /\ faults \in Nat
      /\ changed \in BOOLEAN /\ error \in BOOLEAN
  BY SomeClients DEF Init
<1> QED BY <1>1, <1>2, <1>3, <1>4, Shape

LEMMA TypesReplacing ==
  ASSUME TypeOK, Holds, NEW t \in Threads, Replacing(t)
  PROVE  TypeOK'
<1> USE DEF Goto, Done, Fails, Close
<1>0. PcState = {"start", "idle", "look", "reconnect", "connect", "subscribe", "swap", "retire",
                 "persist", "write", "load", "finish"}
  BY DEF PcState
<1>1. CASE Connect(t)
  <2>1. CASE Fails /\ Done(t) /\ UNCHANGED conn
    BY <1>0, <1>1, <2>1, Shape, ShapeNext, ClosedType DEF Connect
  <2>2. ASSUME NEW k \in Conns,
               conn' = [conn EXCEPT ![k] = [Closed EXCEPT !.st = "open", !.gw = Want(t).gw]],
               job' = [job EXCEPT ![t].conn = k], Goto(t, "subscribe"), UNCHANGED faults
        PROVE  TypeOK'
    <3>1. [Closed EXCEPT !.st = "open", !.gw = Want(t).gw] \in Link
      BY WantType, ClosedType, LinkTypes DEF Config
    <3>2. [job[t] EXCEPT !.conn = k] \in Job BY Shape, JobTypes
    <3> QED BY <1>0, <1>1, <2>2, <3>1, <3>2, Shape, ShapeNext DEF Connect
  <2> QED BY <1>1, <2>1, <2>2 DEF Connect
<1>2. CASE Subscribe(t)
  <2> DEFINE k == job[t].conn
  <2>1. CASE Close(k) /\ Done(t)
    BY <1>0, <1>2, <2>1, Shape, ShapeNext, ClosedType DEF Subscribe
  <2>2. CASE /\ conn' = [conn EXCEPT ![k].subs = Want(t).subs, ![k].tracked = TRUE]
             /\ Goto(t, "swap") /\ UNCHANGED job
    <3>1. conn' \in [Conns -> Link]
      <4>1. CASE k \in Conns
        <5>1. [conn[k] EXCEPT !.subs = Want(t).subs, !.tracked = TRUE] \in Link
          BY <4>1, Shape, WantType, LinkTypes DEF Config
        <5> QED BY <2>2, <4>1, <5>1, Shape
      <4>2. CASE k \notin Conns BY <2>2, <4>2, Shape
      <4> QED BY <4>1, <4>2
    <3> QED BY <1>0, <1>2, <2>2, <3>1, Shape, ShapeNext DEF Subscribe
  <2> QED BY <1>2, <2>1, <2>2 DEF Subscribe
<1>3. CASE Swap(t)
  <2>1. CASE job[t].conn \in Conns
    <3>1. Installed(t) \in Service BY <2>1, Shape, WantType, ServiceTypes DEF Installed
    <3>2. svc.cur \in Conns BY Shape DEF Service
    <3>3. [job[t] EXCEPT !.old = svc.cur, !.conn = 0] \in Job BY <3>2, Shape, JobTypes
    <3> QED BY <1>0, <1>3, <3>1, <3>3, Shape, ShapeNext DEF Swap, Replaced
  <2> QED BY <1>3, <2>1, Shape DEF Holds, Swap, Job
<1>4. CASE Retire(t)
  <2>1. svc' \in Service
    <3>1. \/ svc' = [svc EXCEPT !.watching = @ \/ TRUE]
          \/ svc' = [svc EXCEPT !.watching = @ \/ FALSE]
      BY <1>4 DEF Retire
    <3> QED BY <3>1, Shape, WatchingType
  <2>2. conn' \in [Conns -> Link]
    <3>1. Close(job[t].old) BY <1>4 DEF Retire, Drop
    <3> QED BY <3>1, Shape, ClosedType
  <2>3. pc' \in [Threads -> PcState] BY <1>0, <1>4, Shape DEF Retire, After
  <2>4. job' \in [Threads -> Job]
    <3>1. job' = [job EXCEPT ![t] = NoJob] \/ job' = [job EXCEPT ![t].old = 0]
      BY <1>4 DEF Retire
    <3>2. [job[t] EXCEPT !.old = 0] \in Job BY Shape, JobTypes
    <3> QED BY <3>1, <3>2, Shape, ClosedType
  <2> QED BY <1>4, <2>1, <2>2, <2>3, <2>4, Shape, ShapeNext DEF Retire
<1> QED BY <1>1, <1>2, <1>3, <1>4 DEF Replacing


LEMMA TypesHandling ==
  ASSUME TypeOK, NEW c \in Requesters,
         \/ Look(c) \/ Reconnect(c) \/ PersistRead(c) \/ PersistWrite(c)
         \/ \E gw \in Targets : Ask(c, gw)
  PROVE  TypeOK'
<1> USE DEF Goto, Done, Fails, Undo
<1>0. /\ c \in Threads /\ svc.cfg \in Config /\ job[c] \in Job
      /\ {"idle", "look", "reconnect", "connect", "persist", "write"} \subseteq PcState
  BY SomeClients, Shape DEF PcState, Service
<1>1. ASSUME NEW gw \in Targets, Ask(c, gw) PROVE TypeOK'
  <2>1. [NoJob EXCEPT !.to = gw, !.back = svc.cfg.gw] \in Job
    BY <1>0, JobTypes, BridgeAssumption DEF Config
  <2> QED BY <1>0, <1>1, <2>1, Shape, ShapeNext DEF Ask
<1>2. CASE Reconnect(c)
  <2>1. [job[c] EXCEPT !.subs = svc.cfg.subs] \in Job BY <1>0, JobTypes DEF Config
  <2> QED BY <1>0, <1>2, <2>1, Shape, ShapeNext DEF Reconnect
<1>3. [job[c] EXCEPT !.undo = TRUE] \in Job BY <1>0, JobTypes
<1>4. CASE PersistRead(c)
  <2>1. CASE Undo(c) BY <1>0, <1>3, <1>4, <2>1, Shape, ShapeNext DEF PersistRead
  <2>2. CASE ~Undo(c)
    <3>1. file \in Config BY <1>4, <2>2, Shape DEF PersistRead
    <3>2. [job[c] EXCEPT !.data = file] \in Job BY <1>0, <3>1, JobTypes
    <3> QED BY <1>0, <1>4, <2>2, <3>2, Shape, ShapeNext DEF PersistRead
  <2> QED BY <2>1, <2>2
<1>5. CASE PersistWrite(c)
  <2>1. file' \in Config \cup {Broken} /\ changed' \in BOOLEAN
    <3>1. [job[c].data EXCEPT !.gw = job[c].to] \in Config BY <1>0 DEF Job, Config
    <3> QED BY <1>5, <3>1, Shape DEF PersistWrite, WriteFile
  <2>2. /\ pc' \in [Threads -> PcState] /\ faults' \in Nat
        /\ \/ job' = [job EXCEPT ![c] = NoJob] \/ job' = [job EXCEPT ![c].undo = TRUE]
    BY <1>0, <1>5, Shape DEF PersistWrite
  <2>3. job' \in [Threads -> Job] BY <1>0, <1>3, <2>2, Shape, ClosedType
  <2> QED BY <1>5, <2>1, <2>2, <2>3, Shape, ShapeNext DEF PersistWrite
<1>6. CASE Look(c)
  <2>1. PICK g \in Mixtures(job[c].back, svc.cfg.gw) : job' = [job EXCEPT ![c].back = g]
    BY <1>6 DEF Look
  <2>2. g \in Gateways
    <3>1. job[c].back \in Gateways /\ svc.cfg.gw \in Gateways BY <1>0 DEF Job, Config
    <3> QED BY <2>1, <3>1 DEF Mixtures, Gateways
  <2>3. [job[c] EXCEPT !.back = g] \in Job BY <1>0, <2>2, JobTypes
  <2> QED BY <1>0, <1>6, <2>1, <2>3, Shape, ShapeNext DEF Look
<1> QED BY <1>1, <1>2, <1>4, <1>5, <1>6

LEMMA TypesOther ==
  ASSUME TypeOK,
         \/ Start \/ Wake \/ Load \/ Finish \/ UNCHANGED vars
         \/ \E k \in Conns : LinkLost(k)
         \/ \E cfg \in Edits : Edit(cfg)
  PROVE  TypeOK'
<1> USE DEF Goto, Done, Fails
<1>0. /\ Watcher \in Threads /\ svc.cfg \in Config /\ 1 \in Conns
      /\ {"idle", "load", "finish", "connect"} \subseteq PcState
  BY SomeClients, Shape DEF PcState, Service
<1>1. CASE Start
  <2>1. svc' \in Service BY <1>1, Shape, ServiceTypes DEF Start
  <2>2. conn' \in [Conns -> Link]
    <3>1. /\ [st |-> "open", gw |-> svc.cfg.gw, subs |-> svc.cfg.subs, tracked |-> TRUE] \in Link
          /\ \A b \in BOOLEAN : [conn[1] EXCEPT !.tracked = b] \in Link
      BY <1>0, Shape, LinkTypes, ClosedType DEF Config
    <3> QED BY <1>1, <3>1, Shape DEF Start
  <2>3. faults' \in Nat /\ pc' \in [Threads -> PcState] BY <1>0, <1>1, Shape DEF Start
  <2> QED BY <1>1, <2>1, <2>2, <2>3, Shape, ShapeNext DEF Start
<1>2. CASE Wake BY <1>0, <1>2, Shape, ShapeNext DEF Wake
<1>3. CASE Load
  <2>1. CASE UNCHANGED job BY <1>0, <1>3, <2>1, Shape, ShapeNext DEF Load
  <2>2. CASE job' # job
    <3>1. file \in Config BY <1>3, <2>2, Shape DEF Load
    <3>2. [NoJob EXCEPT !.to = file.gw, !.subs = file.subs] \in Job
      BY <3>1, ClosedType, JobTypes DEF Config
    <3> QED BY <1>0, <1>3, <2>2, <3>2, Shape, ShapeNext DEF Load
  <2> QED BY <2>1, <2>2
<1>4. CASE Finish BY <1>0, <1>4, Shape, ShapeNext, ClosedType DEF Finish
<1>5. ASSUME NEW k \in Conns, LinkLost(k) PROVE TypeOK'
  <2>1. [conn[k] EXCEPT !.st = "lost"] \in Link BY Shape, LinkTypes
  <2> QED BY <1>5, <2>1, Shape, ShapeNext DEF LinkLost
<1>6. ASSUME NEW cfg \in Edits, Edit(cfg) PROVE TypeOK'
  BY <1>6, Shape, ShapeNext, BridgeAssumption DEF Edit
<1>7. CASE UNCHANGED vars BY <1>7, Shape, ShapeNext DEF vars
<1> QED BY <1>1, <1>2, <1>3, <1>4, <1>5, <1>6, <1>7

LEMMA TypesStep == TypeOK /\ Holds /\ [Next]_vars => TypeOK'
BY TypesReplacing, TypesHandling, TypesOther, SomeClients
DEF Next, Watching, Handling, Replacing

-----------------------------------------------------------------------------
(* The invariant *)

\* A step that concerns neither the clients nor the service, of a thread that holds
\* no client before or after it.
Aside(t) == /\ UNCHANGED <<conn, svc>>
            /\ \A u \in Threads \ {t} : job'[u] = job[u] /\ pc'[u] = pc[u]
            /\ job'[t].conn = 0 /\ job'[t].old = 0 /\ job[t].conn = 0 /\ job[t].old = 0
            /\ pc'[t] \notin {"subscribe", "swap", "retire", "start"}
            /\ t # Watcher => pc'[t] = "idle" \/ pc[Watcher] # "start"

LEMMA AsideKeeps == ASSUME TypeOK, IInv, NEW t \in Threads, Aside(t) PROVE IInv'
<1>1. Holds' BY DEF IInv, Holds, Aside
<1>2. Apart' BY DEF IInv, Apart, Aside, Held
<1>3. Prepared' BY DEF IInv, Prepared, Aside, Want
<1>4. Starting' BY SomeClients DEF IInv, Starting, Aside
<1>5. OneLink' BY SomeClients DEF IInv, OneLink, Aside
<1>6. LastGoodKept' BY DEF IInv, LastGoodKept, Aside
<1> QED BY <1>1, <1>2, <1>3, <1>4, <1>5, <1>6 DEF IInv

\* What an arbitrary thread knows of the client it holds.
LEMMA Facts ==
  ASSUME TypeOK, IInv, NEW t \in Threads
  PROVE  /\ pc[t] \in {"subscribe", "swap"} =>
              job[t].conn \in Conns /\ job[t].old = 0 /\ job[t].conn # svc.cur
         /\ pc[t] = "retire" =>
              job[t].old \in Conns /\ job[t].conn = 0 /\ job[t].old # svc.cur
         /\ pc[t] \notin {"subscribe", "swap", "retire"} => job[t].conn = 0 /\ job[t].old = 0
         /\ svc.cur \in Conns /\ 0 \notin Conns
BY SomeClients, Shape DEF IInv, Holds, Apart, Held, Job, Service

SameClients(j, i) == j.conn = i.conn /\ j.old = i.old

LEMMA KeepsClient ==
  ASSUME NEW j \in Job
  PROVE  /\ SameClients([j EXCEPT !.undo = TRUE], j)
         /\ \A d : SameClients([j EXCEPT !.data = d], j)
         /\ \A s : SameClients([j EXCEPT !.subs = s], j)
         /\ \A g : SameClients([j EXCEPT !.back = g], j)
BY DEF Job, SameClients

LEMMA AsideSteps ==
  ASSUME TypeOK, IInv,
         \/ Wake \/ Load \/ Finish
         \/ \E c \in Requesters :
              \/ Look(c) \/ Reconnect(c) \/ PersistRead(c) \/ PersistWrite(c)
              \/ \E gw \in Targets : Ask(c, gw)
         \/ \E t \in Threads : Connect(t) /\ UNCHANGED conn
  PROVE  IInv'
<1> USE DEF Goto, Done, Undo
<1>0. /\ pc \in [Threads -> PcState] /\ job \in [Threads -> Job]
      /\ NoJob.conn = 0 /\ NoJob.old = 0
      /\ \A u \in Threads : u = Watcher \/ u \in Requesters
  BY Shape DEF NoJob, Threads
<1>1. CASE Wake \/ Load \/ Finish
  <2>1. Watcher \in Threads BY SomeClients
  <2>2. UNCHANGED <<conn, svc>> BY <1>1 DEF Wake, Load, Finish
  <2>3. pc[Watcher] \in {"idle", "load", "finish"}
        /\ pc'[Watcher] \in {"idle", "load", "finish", "connect"}
    BY <1>0, <1>1, <2>1 DEF Wake, Load, Finish
  <2>4. job[Watcher].conn = 0 /\ job[Watcher].old = 0 BY <2>1, <2>3, Facts
  <2>5. job'[Watcher].conn = 0 /\ job'[Watcher].old = 0
    <3> DEFINE n == [NoJob EXCEPT !.to = file.gw, !.subs = file.subs]
    <3>1. SameClients(n, NoJob) BY DEF NoJob, SameClients
    <3>2. job'[Watcher] \in {job[Watcher], NoJob, n}
      BY <1>0, <1>1, <2>1 DEF Wake, Load, Finish
    <3> HIDE DEF n
    <3> QED BY <1>0, <2>4, <3>1, <3>2 DEF SameClients
  <2>6. \A u \in Threads \ {Watcher} : job'[u] = job[u] /\ pc'[u] = pc[u]
    BY <1>0, <1>1 DEF Wake, Load, Finish
  <2>7. Aside(Watcher) BY <2>2, <2>3, <2>4, <2>5, <2>6 DEF Aside
  <2> QED BY <2>1, <2>7, AsideKeeps
<1>2. ASSUME NEW c \in Requesters,
             \/ Look(c) \/ Reconnect(c) \/ PersistRead(c) \/ PersistWrite(c)
             \/ \E gw \in Targets : Ask(c, gw)
      PROVE  IInv'
  <2>1. c \in Threads /\ c # Watcher BY SomeClients, BridgeAssumption
  <2>2. UNCHANGED <<conn, svc>> BY <1>2 DEF Look, Reconnect, PersistRead, PersistWrite, Ask
  <2>3. pc[c] \in {"idle", "look", "reconnect", "persist", "write"}
        /\ pc'[c] \in {"idle", "look", "reconnect", "connect", "write"}
    BY <1>0, <1>2, <2>1 DEF Look, Reconnect, PersistRead, PersistWrite, Ask
  <2>4. job[c].conn = 0 /\ job[c].old = 0 BY <2>1, <2>3, Facts
  <2>5. job'[c].conn = 0 /\ job'[c].old = 0
    <3> DEFINE n(gw) == [NoJob EXCEPT !.to = gw, !.back = svc.cfg.gw]
    <3>0. \A gw : SameClients(n(gw), NoJob) BY DEF NoJob, SameClients
    <3>1. \/ job'[c] = NoJob
          \/ \E gw : job'[c] = n(gw)
          \/ \E g : job'[c] = [job[c] EXCEPT !.back = g]
          \/ job'[c] = [job[c] EXCEPT !.undo = TRUE]
          \/ job'[c] = [job[c] EXCEPT !.data = file]
          \/ job'[c] = [job[c] EXCEPT !.subs = svc.cfg.subs]
      BY <1>0, <1>2, <2>1 DEF Look, Reconnect, PersistRead, PersistWrite, Ask
    <3>2. job[c] \in Job BY <1>0, <2>1
    <3>3. SameClients(job'[c], job[c]) \/ SameClients(job'[c], NoJob)
      <4>1. CASE job'[c] = NoJob BY <4>1 DEF SameClients
      <4>2. ASSUME NEW gw, job'[c] = n(gw) PROVE SameClients(job'[c], NoJob)
        <5> HIDE DEF n
        <5> QED BY <3>0, <4>2
      <4> QED BY <3>1, <3>2, <4>1, <4>2, KeepsClient
    <3> QED BY <1>0, <2>4, <3>3 DEF SameClients
  <2>6. \A u \in Threads \ {c} : job'[u] = job[u] /\ pc'[u] = pc[u]
    BY <1>0, <1>2 DEF Look, Reconnect, PersistRead, PersistWrite, Ask
  <2>7. pc[Watcher] # "start"
    BY <1>2 DEF Look, Reconnect, PersistRead, PersistWrite, Ask, IInv, Starting
  <2>8. Aside(c) BY <2>2, <2>3, <2>4, <2>5, <2>6, <2>7 DEF Aside
  <2> QED BY <2>1, <2>8, AsideKeeps
<1>3. ASSUME NEW t \in Threads, Connect(t), UNCHANGED conn PROVE IInv'
  <2>1. CASE Done(t)
    <3>1. job[t].conn = 0 /\ job[t].old = 0 BY <1>3, Facts DEF Connect
    <3>2. /\ UNCHANGED <<conn, svc>> /\ pc'[t] = "idle"
          /\ job'[t].conn = 0 /\ job'[t].old = 0
          /\ \A u \in Threads \ {t} : job'[u] = job[u] /\ pc'[u] = pc[u]
      BY <1>0, <1>3, <2>1 DEF Connect
    <3>3. Aside(t) BY <3>1, <3>2 DEF Aside
    <3> QED BY <3>3, AsideKeeps
  <2>2. ASSUME NEW k \in Conns, Garbage(k),
               conn' = [conn EXCEPT ![k] = [Closed EXCEPT !.st = "open", !.gw = Want(t).gw]]
        PROVE  FALSE
    <3>1. [Closed EXCEPT !.st = "open", !.gw = Want(t).gw].st = "open" BY DEF Closed
    <3>2. conn[k].st = "open" BY <1>3, <2>2, <3>1, Shape
    <3> QED BY <2>2, <3>2 DEF IInv, OneLink, Garbage
  <2> QED BY <1>3, <2>1, <2>2 DEF Connect
<1> QED BY <1>1, <1>2, <1>3

LEMMA ConnectStep ==
  ASSUME TypeOK, IInv, NEW t \in Threads, pc[t] = "connect", NEW k \in Conns, Garbage(k),
         conn' = [conn EXCEPT ![k] = [Closed EXCEPT !.st = "open", !.gw = Want(t).gw]],
         job' = [job EXCEPT ![t].conn = k], Goto(t, "subscribe"), UNCHANGED svc
  PROVE  IInv'
<1>1. /\ conn'[k].st = "open" /\ conn'[k].gw = Want(t).gw
      /\ \A j \in Conns \ {k} : conn'[j] = conn[j]
  BY Shape DEF Closed
<1>2. /\ job'[t].conn = k /\ job'[t].old = 0 /\ Want(t)' = Want(t)
      /\ pc'[t] = "subscribe" /\ job[t].conn = 0 /\ job[t].old = 0
  BY Shape, Facts DEF Goto, Want, Job
<1>3. \A u \in Threads \ {t} : job'[u] = job[u] /\ pc'[u] = pc[u] /\ Want(u)' = Want(u)
  BY Shape DEF Goto, Want
<1>4. k # 0 /\ k # svc.cur /\ \A u \in Threads : job[u].conn # k /\ job[u].old # k
  BY Facts DEF Garbage
<1>5. Holds' BY <1>2, <1>3, <1>4 DEF IInv, Holds
<1>6. Apart' BY <1>2, <1>3, <1>4 DEF IInv, Apart, Held
<1>7. Prepared'
  <2>1. ASSUME NEW u \in Threads \ {t}, pc[u] \in {"subscribe", "swap"}
        PROVE  conn'[job[u].conn] = conn[job[u].conn]
    BY <1>1, <1>4, <2>1, Facts
  <2>2. ASSUME NEW u \in Threads \ {t}, pc'[u] \in {"subscribe", "swap"}
        PROVE  /\ conn'[job'[u].conn].st # "closed" /\ conn'[job'[u].conn].gw = Want(u)'.gw
               /\ pc'[u] = "swap" => conn'[job'[u].conn].subs = Want(u)'.subs
    <3>1. job'[u] = job[u] /\ pc'[u] = pc[u] /\ Want(u)' = Want(u) BY <1>3
    <3>2. conn'[job'[u].conn] = conn[job[u].conn] BY <2>1, <2>2, <3>1
    <3> QED BY <2>2, <3>1, <3>2 DEF IInv, Prepared
  <2> QED BY <1>1, <1>2, <2>2 DEF Prepared
<1>8. Starting' BY <1>2, <1>3, SomeClients DEF IInv, Starting
<1>9. OneLink'
  <2>1. ASSUME NEW j \in Conns, conn'[j].st # "closed"
        PROVE  j = svc.cur \/ \E u \in Threads : j \in {job'[u].conn, job'[u].old}
    <3>1. CASE j = k BY <1>2, <3>1
    <3>2. CASE j # k
      <4>1. j = svc.cur \/ \E u \in Threads : j \in {job[u].conn, job[u].old}
        BY <1>1, <2>1, <3>2 DEF IInv, OneLink
      <4> QED BY <1>2, <1>3, <4>1, SomeClients
    <3> QED BY <3>1, <3>2
  <2> QED BY <2>1 DEF OneLink
<1>10. LastGoodKept' BY <1>1, <1>4, Facts DEF IInv, LastGoodKept
<1> QED BY <1>5, <1>6, <1>7, <1>8, <1>9, <1>10 DEF IInv

\* A thread that another one's step does not concern keeps what it has prepared.
LEMMA StillPrepared ==
  ASSUME TypeOK, IInv, NEW u \in Threads, job'[u] = job[u], pc'[u] = pc[u],
         pc[u] \in {"subscribe", "swap"} => conn'[job[u].conn] = conn[job[u].conn]
  PROVE  /\ pc'[u] \in {"subscribe", "swap"} =>
              conn'[job'[u].conn].st # "closed" /\ conn'[job'[u].conn].gw = Want(u)'.gw
         /\ pc'[u] = "swap" => conn'[job'[u].conn].subs = Want(u)'.subs
<1>1. Want(u)' = Want(u) BY DEF Want
<1> QED BY <1>1 DEF IInv, Prepared

LEMMA SubscribeStep == ASSUME TypeOK, IInv, NEW t \in Threads, Subscribe(t) PROVE IInv'
<1> USE DEF Goto, Done, Close
<1> DEFINE k == job[t].conn
<1>0. /\ k \in Conns /\ k # svc.cur /\ k # 0 /\ job[t].old = 0 /\ UNCHANGED svc
      /\ pc \in [Threads -> PcState] /\ job \in [Threads -> Job] /\ conn \in [Conns -> Link]
      /\ pc[t] = "subscribe" /\ conn[k].st # "closed" /\ conn[k].gw = Want(t).gw
  BY Facts, Shape DEF Subscribe, IInv, Prepared
<1>1. \A u \in Threads \ {t} : job[u].conn # k /\ job[u].old # k
  BY <1>0 DEF IInv, Apart, Held
<1>2. /\ \A u \in Threads \ {t} : job'[u] = job[u] /\ pc'[u] = pc[u]
      /\ \A j \in Conns \ {k} : conn'[j] = conn[j]
      /\ pc'[t] \in {"swap", "idle"}
  BY <1>0 DEF Subscribe
<1>3. \A u \in Threads \ {t} :
        pc[u] \in {"subscribe", "swap"} => conn'[job[u].conn] = conn[job[u].conn]
  BY <1>1, <1>2, Facts
<1>4. Starting' BY <1>0, <1>2, SomeClients DEF IInv, Starting
<1>5. LastGoodKept' BY <1>0, <1>2, Facts DEF IInv, LastGoodKept
<1>6. CASE /\ conn' = [conn EXCEPT ![k].subs = Want(t).subs, ![k].tracked = TRUE]
           /\ Goto(t, "swap") /\ UNCHANGED job
  <2>1. /\ conn'[k].st = conn[k].st /\ conn'[k].gw = conn[k].gw
        /\ conn'[k].subs = Want(t).subs /\ Want(t)' = Want(t) /\ pc'[t] = "swap"
    BY <1>0, <1>6 DEF Link, Want
  <2>2. Holds' BY <1>0, <1>2, <1>6, <2>1 DEF IInv, Holds
  <2>3. Apart' BY <1>0, <1>6 DEF IInv, Apart, Held
  <2>4. Prepared'
    <3>1. \A u \in Threads \ {t} :
            /\ pc'[u] \in {"subscribe", "swap"} =>
                 conn'[job'[u].conn].st # "closed" /\ conn'[job'[u].conn].gw = Want(u)'.gw
            /\ pc'[u] = "swap" => conn'[job'[u].conn].subs = Want(u)'.subs
      BY <1>2, <1>3, StillPrepared
    <3>2. /\ conn'[job'[t].conn].st # "closed" /\ conn'[job'[t].conn].gw = Want(t)'.gw
          /\ conn'[job'[t].conn].subs = Want(t)'.subs
      BY <1>0, <1>6, <2>1
    <3> QED BY <3>1, <3>2 DEF Prepared
  <2>5. OneLink' BY <1>0, <1>2, <1>6, <2>1 DEF IInv, OneLink
  <2> QED BY <1>4, <1>5, <2>2, <2>3, <2>4, <2>5 DEF IInv
<1>7. CASE Close(k) /\ Done(t)
  <2>1. /\ conn'[k].st = "closed" /\ pc'[t] = "idle"
        /\ job'[t].conn = 0 /\ job'[t].old = 0
    BY <1>0, <1>7 DEF Closed, NoJob
  <2>2. Holds' BY <1>2, <2>1 DEF IInv, Holds
  <2>3. Apart'
    <3>1. svc'.cur # 0 BY <1>0, Facts
    <3> QED BY <1>0, <1>2, <2>1, <3>1 DEF IInv, Apart, Held
  <2>4. Prepared' BY <1>2, <1>3, <2>1, StillPrepared DEF Prepared
  <2>5. OneLink'
    <3>1. ASSUME NEW j \in Conns, conn'[j].st # "closed"
          PROVE  j = svc.cur \/ \E u \in Threads : j \in {job'[u].conn, job'[u].old}
      <4>1. j # k /\ conn'[j] = conn[j] BY <1>2, <2>1, <3>1
      <4>2. j = svc.cur \/ \E u \in Threads : j \in {job[u].conn, job[u].old}
        BY <3>1, <4>1 DEF IInv, OneLink
      <4> QED BY <1>0, <1>2, <4>1, <4>2, SomeClients
    <3> QED BY <1>0, <3>1 DEF OneLink
  <2> QED BY <1>4, <1>5, <2>2, <2>3, <2>4, <2>5 DEF IInv
<1> QED BY <1>6, <1>7 DEF Subscribe

\* The swap exchanges the two clients: what was prepared is in force, and the
\* thread holds what was in force.
LEMMA SwapStep == ASSUME TypeOK, IInv, NEW t \in Threads, Swap(t) PROVE IInv'
<1> USE DEF Goto
<1> DEFINE k == job[t].conn
<1>0. /\ k \in Conns /\ k # svc.cur /\ svc.cur \in Conns /\ 0 \notin Conns
      /\ UNCHANGED conn /\ job[t].old = 0
      /\ pc \in [Threads -> PcState] /\ job \in [Threads -> Job] /\ svc \in Service
      /\ pc[t] = "swap" /\ conn[k].st # "closed" /\ conn[k].gw = Want(t).gw
      /\ conn[k].subs = Want(t).subs /\ Want(t) \in Config
  BY Facts, Shape, WantType DEF Swap, IInv, Prepared
<1>1. \A u \in Threads \ {t} : job'[u] = job[u] /\ pc'[u] = pc[u]
  BY <1>0 DEF Swap
<1>2. job'[t].conn = 0 /\ job'[t].old = svc.cur /\ pc'[t] = "retire"
  BY <1>0 DEF Swap, Replaced, Job
<1>3. svc'.cur = k /\ svc'.cfg = Want(t)
  BY <1>0 DEF Swap, Installed, Service
<1>4. Holds' BY <1>0, <1>1, <1>2 DEF IInv, Holds
<1>5. Apart'
  <2>1. \A u \in Threads \ {t} : svc.cur \notin Held(u) /\ k \notin Held(u)
    BY <1>0 DEF IInv, Apart, Held
  <2> QED BY <1>0, <1>1, <1>2, <1>3, <2>1 DEF IInv, Apart, Held
<1>6. Prepared' BY <1>0, <1>1, <1>2, StillPrepared DEF Prepared
<1>7. Starting'
  <2>1. pc[Watcher] # "start" BY <1>0, SomeClients, BridgeAssumption DEF IInv, Starting, Threads
  <2> QED BY <1>1, <1>2, <2>1, SomeClients DEF IInv, Starting
<1>8. OneLink'
  <2>1. ASSUME NEW j \in Conns, conn[j].st # "closed"
        PROVE  j = k \/ \E u \in Threads : j \in {job'[u].conn, job'[u].old}
    <3>1. j = svc.cur \/ j = k \/ \E u \in Threads \ {t} : j \in {job[u].conn, job[u].old}
      BY <1>0, <2>1 DEF IInv, OneLink
    <3> QED BY <1>1, <1>2, <3>1
  <2> QED BY <1>0, <1>3, <2>1 DEF OneLink
<1>9. LastGoodKept'
  <2>1. [gw |-> conn[k].gw, subs |-> conn[k].subs] = Want(t)
    BY <1>0 DEF Config
  <2> QED BY <1>0, <1>3, <2>1 DEF LastGoodKept
<1> QED BY <1>4, <1>5, <1>6, <1>7, <1>8, <1>9 DEF IInv

LEMMA RetireStep == ASSUME TypeOK, IInv, NEW t \in Threads, Retire(t) PROVE IInv'
<1> USE DEF Goto, Done, Close
<1> DEFINE k == job[t].old
<1>0. /\ k \in Conns /\ k # svc.cur /\ k # 0 /\ job[t].conn = 0
      /\ pc \in [Threads -> PcState] /\ job \in [Threads -> Job] /\ conn \in [Conns -> Link]
      /\ svc \in Service /\ pc[t] = "retire"
  BY Facts, Shape DEF Retire
<1>1. /\ conn'[k].st = "closed"
      /\ \A j \in Conns \ {k} : conn'[j] = conn[j]
  BY <1>0 DEF Retire, Drop, Closed
<1>2. /\ \A u \in Threads \ {t} : job'[u] = job[u] /\ pc'[u] = pc[u]
      /\ pc'[t] \in {"idle", "finish", "persist"}
  BY <1>0 DEF Retire, After
<1>3. job'[t].conn = 0 /\ job'[t].old = 0
  <2>1. job'[t] = NoJob \/ job'[t] = [job[t] EXCEPT !.old = 0] BY <1>0 DEF Retire
  <2>2. NoJob.conn = 0 /\ NoJob.old = 0 BY DEF NoJob
  <2>3. [job[t] EXCEPT !.old = 0].conn = 0 /\ [job[t] EXCEPT !.old = 0].old = 0
    BY <1>0 DEF Job
  <2> QED BY <2>1, <2>2, <2>3
<1>4. svc'.cur = svc.cur /\ svc'.cfg = svc.cfg /\ svc'.running = svc.running
  BY <1>0 DEF Retire, Service
<1>5. \A u \in Threads \ {t} : job[u].conn # k /\ job[u].old # k
  BY <1>0 DEF IInv, Apart, Held
<1>6. Holds' BY <1>2, <1>3 DEF IInv, Holds
<1>7. Apart' BY <1>2, <1>3, <1>4, SomeClients, Facts DEF IInv, Apart, Held
<1>8. Prepared'
  <2>1. \A u \in Threads \ {t} :
          pc[u] \in {"subscribe", "swap"} => conn'[job[u].conn] = conn[job[u].conn]
    BY <1>1, <1>5, Facts
  <2> QED BY <1>2, <2>1, StillPrepared DEF Prepared
<1>9. Starting'
  <2>1. pc[Watcher] # "start" BY <1>0, SomeClients, BridgeAssumption DEF IInv, Starting, Threads
  <2> QED BY <1>2, <2>1, SomeClients DEF IInv, Starting
<1>10. OneLink'
  <2>1. ASSUME NEW j \in Conns, conn'[j].st # "closed"
        PROVE  j = svc.cur \/ \E u \in Threads : j \in {job'[u].conn, job'[u].old}
    <3>1. j # k /\ conn'[j] = conn[j] BY <1>1, <2>1
    <3>2. j = svc.cur \/ \E u \in Threads : j \in {job[u].conn, job[u].old}
      BY <2>1, <3>1 DEF IInv, OneLink
    <3> QED BY <1>0, <1>2, <3>1, <3>2, SomeClients
  <2> QED BY <1>4, <2>1 DEF OneLink
<1>11. LastGoodKept' BY <1>0, <1>1, <1>4, Facts DEF IInv, LastGoodKept
<1> QED BY <1>6, <1>7, <1>8, <1>9, <1>10, <1>11 DEF IInv

LEMMA StartStep == ASSUME TypeOK, IInv, Start PROVE IInv'
<1> USE DEF Goto
<1>0. /\ svc.cur = 1 /\ ~svc.running /\ pc[Watcher] = "start" /\ UNCHANGED job
      /\ pc \in [Threads -> PcState] /\ conn \in [Conns -> Link] /\ svc \in Service
      /\ 1 \in Conns /\ Watcher \in Threads
  BY Shape, SomeClients DEF Start, IInv, Starting
<1>1. \A u \in Threads :
        /\ pc[u] \notin {"subscribe", "swap", "retire"}
        /\ pc'[u] = IF u = Watcher THEN "idle" ELSE pc[u]
  BY <1>0, SomeClients DEF Start, IInv, Starting, Threads
<1>2. Holds' BY <1>0, <1>1 DEF IInv, Holds
<1>3. svc'.cur = svc.cur BY <1>0 DEF Start, Service
<1>4. Apart' BY <1>0, <1>3 DEF IInv, Apart, Held
<1>5. Prepared' BY <1>1 DEF Prepared
<1>6. Starting' BY <1>0, <1>1, SomeClients, BridgeAssumption DEF IInv, Starting
<1>7. \A j \in Conns \ {1} : conn'[j] = conn[j] BY <1>0 DEF Start
<1>8. OneLink' BY <1>0, <1>3, <1>7 DEF IInv, OneLink
<1>9. LastGoodKept'
  <2>1. CASE UNCHANGED svc BY <1>0, <2>1 DEF LastGoodKept
  <2>2. CASE conn' = [conn EXCEPT ![1] = [st |-> "open", gw |-> svc.cfg.gw,
                                          subs |-> svc.cfg.subs, tracked |-> TRUE]]
    <3>1. conn'[1].st = "open" /\ conn'[1].gw = svc.cfg.gw /\ conn'[1].subs = svc.cfg.subs
      BY <1>0, <2>2
    <3>2. svc'.cfg = svc.cfg BY <1>0 DEF Start, Service
    <3>3. [gw |-> svc.cfg.gw, subs |-> svc.cfg.subs] = svc.cfg BY <1>0 DEF Service, Config
    <3> QED BY <1>0, <1>3, <3>1, <3>2, <3>3 DEF LastGoodKept
  <2> QED BY <2>1, <2>2 DEF Start
<1> QED BY <1>2, <1>4, <1>5, <1>6, <1>8, <1>9 DEF IInv

LEMMA LinkLostStep == ASSUME TypeOK, IInv, NEW k \in Conns, LinkLost(k) PROVE IInv'
<1>1. /\ UNCHANGED <<svc, pc, job>>
      /\ \A j \in Conns : /\ conn'[j].st = "closed" <=> conn[j].st = "closed"
                          /\ conn'[j].gw = conn[j].gw /\ conn'[j].subs = conn[j].subs
  BY Shape DEF LinkLost, Link
<1>2. Holds' /\ Apart' /\ Starting' BY <1>1 DEF IInv, Holds, Apart, Held, Starting
<1>3. Prepared'
  <2>1. \A t \in Threads : Want(t)' = Want(t) BY <1>1 DEF Want
  <2> QED BY <1>1, <2>1, Facts DEF IInv, Prepared
<1>4. OneLink' BY <1>1 DEF IInv, OneLink
<1>5. LastGoodKept'
  <2>1. svc.cur \in Conns BY Shape DEF Service
  <2> QED BY <1>1, <2>1 DEF IInv, LastGoodKept
<1> QED BY <1>2, <1>3, <1>4, <1>5 DEF IInv

LEMMA InvInit == Init => IInv
<1> SUFFICES ASSUME Init PROVE IInv
  OBVIOUS
<1>1. Holds /\ Apart
  <2>1. NoJob.conn = 0 /\ NoJob.old = 0 BY DEF NoJob
  <2>2. \A t \in Threads : job[t] = NoJob /\ pc[t] \in {"start", "idle"} BY DEF Init
  <2>3. svc.cur = 1 BY DEF Init
  <2> QED BY <2>1, <2>2, <2>3 DEF Holds, Apart, Held
<1>2. Prepared BY DEF Init, Prepared
<1>3. Starting BY SomeClients, BridgeAssumption DEF Init, Starting
<1>4. OneLink BY DEF Init, OneLink, Closed
<1>5. LastGoodKept BY DEF Init, LastGoodKept
<1> QED BY <1>1, <1>2, <1>3, <1>4, <1>5 DEF IInv

LEMMA InvStep == TypeOK /\ IInv /\ [Next]_vars => IInv'
<1> SUFFICES ASSUME TypeOK, IInv, [Next]_vars PROVE IInv'
  OBVIOUS
<1>1. ASSUME NEW t \in Threads, Connect(t) PROVE IInv'
  <2>1. CASE UNCHANGED conn BY <1>1, <2>1, AsideSteps
  <2>2. CASE conn' # conn BY <1>1, <2>2, ConnectStep DEF Connect
  <2> QED BY <2>1, <2>2
<1>2. ASSUME NEW t \in Threads, Replacing(t) PROVE IInv'
  BY <1>1, <1>2, SubscribeStep, SwapStep, RetireStep DEF Replacing
<1>3. CASE UNCHANGED <<conn, svc, pc, job>>
  BY <1>3 DEF IInv, Holds, Apart, Held, Prepared, Want, Starting, OneLink, LastGoodKept
<1>4. ASSUME NEW cfg \in Edits, Edit(cfg) PROVE IInv'
  BY <1>3, <1>4 DEF Edit
<1>5. CASE UNCHANGED vars BY <1>3, <1>5 DEF vars
<1>6. ASSUME NEW c \in Requesters, Handling(c) \/ \E gw \in Targets : Ask(c, gw) PROVE IInv'
  BY <1>2, <1>6, AsideSteps, SomeClients DEF Handling
<1>7. CASE Watching BY <1>2, <1>7, AsideSteps, SomeClients DEF Watching
<1> QED BY <1>4, <1>5, <1>6, <1>7, StartStep, LinkLostStep DEF Next

LEMMA InvCorrect == Spec => [](TypeOK /\ IInv)
<1>1. Init => TypeOK /\ IInv BY TypesInit, InvInit
<1>2. TypeOK /\ IInv /\ [Next]_vars => TypeOK' /\ IInv'
  BY TypesStep, InvStep DEF IInv
<1> QED BY <1>1, <1>2, PTL DEF Spec

-----------------------------------------------------------------------------
(* The properties *)

\* TypeOK: every variable of the service, its threads and its clients keeps its type.
THEOREM TypeCorrect == Spec => []TypeOK
BY InvCorrect, PTL

\* OneLink: no link is left behind, for any number of overlapping switches and
\* reloads, whichever step of each fails (reconnect_rosbridge, reload_runtime_config).
THEOREM NoLinkIsLeaked == Spec => []OneLink
<1>1. IInv => OneLink BY DEF IInv
<1> QED BY <1>1, InvCorrect, PTL

\* LastGoodKept: the client of a running service was never dropped by it, and the
\* gateway and the subscriptions it reports are those of this client.
THEOREM ServiceKeepsItsClient == Spec => []LastGoodKept
<1>1. IInv => LastGoodKept BY DEF IInv
<1> QED BY <1>1, InvCorrect, PTL

\* The service runs whenever its file is watched, read or replaced from: the case
\* of reload_runtime_config for a service that does not run cannot arise.
WatchedRuns == /\ svc.watching => svc.running
               /\ pc[Watcher] = "load" => svc.running

THEOREM WatchedServiceRuns == Spec => []WatchedRuns
<1> DEFINE W == WatchedRuns /\ \A t \in Threads : pc[t] = "retire" => svc.running
<1>1. Init => W
  BY SomeClients DEF Init, WatchedRuns
<1>2. ASSUME TypeOK, W, [Next]_vars PROVE W'
  <2>1. svc \in Service /\ Watcher \in Threads /\ Requesters \subseteq Threads
        /\ pc \in [Threads -> PcState]
    BY <1>2, Shape, SomeClients
  <2>2. ASSUME NEW t \in Threads, Swap(t) PROVE W'
    BY <2>1, <2>2 DEF Swap, Installed, Goto, Service, WatchedRuns
  <2>3. ASSUME NEW t \in Threads, Retire(t) PROVE W'
    <3>1. /\ svc'.running = svc.running /\ svc.running
          /\ pc'[t] \in {"idle", "finish", "persist"}
          /\ \A u \in Threads \ {t} : pc'[u] = pc[u]
      BY <1>2, <2>1, <2>3 DEF Retire, Goto, Done, After, Service
    <3> QED BY <1>2, <2>1, <3>1 DEF WatchedRuns
  <2>4. CASE Start BY <1>2, <2>1, <2>4 DEF Start, Goto, Service, WatchedRuns
  <2>5. CASE ~Start /\ \A t \in Threads : ~Swap(t) /\ ~Retire(t)
    <3> USE DEF Goto, Done, Undo, After
    <3>1. ASSUME NEW t \in Threads, Connect(t) \/ Subscribe(t) PROVE W'
      <4>1. /\ UNCHANGED svc /\ pc'[t] \notin {"retire", "load"}
            /\ \A u \in Threads \ {t} : pc'[u] = pc[u]
        BY <2>1, <3>1 DEF Connect, Subscribe
      <4> QED BY <1>2, <2>1, <4>1 DEF WatchedRuns
    <3>2. ASSUME NEW c \in Requesters,
                 \/ Look(c) \/ Reconnect(c) \/ PersistRead(c) \/ PersistWrite(c)
                 \/ \E gw \in Targets : Ask(c, gw)
          PROVE  W'
      <4>1. /\ UNCHANGED svc /\ pc'[c] \notin {"retire", "load"}
            /\ \A u \in Threads \ {c} : pc'[u] = pc[u]
        BY <2>1, <3>2 DEF Look, Reconnect, PersistRead, PersistWrite, Ask
      <4> QED BY <1>2, <2>1, <4>1 DEF WatchedRuns
    <3>3. CASE Wake \/ Load \/ Finish
      <4>1. /\ UNCHANGED svc /\ pc'[Watcher] # "retire"
            /\ pc'[Watcher] = "load" => svc.watching
            /\ \A u \in Threads \ {Watcher} : pc'[u] = pc[u]
        BY <2>1, <3>3 DEF Wake, Load, Finish
      <4> QED BY <1>2, <2>1, <4>1 DEF WatchedRuns
    <3>4. CASE UNCHANGED <<svc, pc>>
      BY <1>2, <3>4 DEF WatchedRuns
    <3>5. \/ UNCHANGED <<svc, pc>> \/ Wake \/ Load \/ Finish
          \/ \E t \in Threads : Connect(t) \/ Subscribe(t)
          \/ \E c \in Requesters :
               \/ Look(c) \/ Reconnect(c) \/ PersistRead(c) \/ PersistWrite(c)
               \/ \E gw \in Targets : Ask(c, gw)
      BY <1>2, <2>1, <2>5
      DEF Next, vars, Watching, Handling, Replacing, LinkLost, Edit
    <3> QED BY <3>1, <3>2, <3>3, <3>4, <3>5
  <2> QED BY <2>2, <2>3, <2>4, <2>5
<1>3. W => WatchedRuns
  OBVIOUS
<1> HIDE DEF W
<1> QED BY <1>1, <1>2, <1>3, InvCorrect, PTL DEF Spec

\* One client per thread and one in use are enough: a thread that connects always
\* finds a client nobody refers to, so Conns bounds nothing the code can do.
Roomy == (\E t \in Threads : pc[t] = "connect") => \E k \in Conns : Garbage(k)

THEOREM ClientsSuffice == Spec => []Roomy
<1>1. ASSUME TypeOK, IInv, NEW t \in Threads, pc[t] = "connect", \A k \in Conns : ~Garbage(k)
      PROVE  FALSE
  <2> DEFINE S == Conns \ {svc.cur}
             T == Threads \ {t}
             f == [k \in S |-> CHOOSE u \in T : k \in Held(u)]
             n == Cardinality(Threads)
  <2>1. svc.cur \in Conns /\ 0 \notin Conns /\ job[t].conn = 0 /\ job[t].old = 0
    BY <1>1, Facts
  <2>2. ASSUME NEW k \in S PROVE \E u \in T : k \in Held(u)
    BY <1>1, <2>1, <2>2 DEF Garbage, Held
  <2>3. f \in [S -> T] /\ \A k \in S : k \in Held(f[k])
    BY <2>2
  <2>4. /\ IsFiniteSet(T) /\ Cardinality(T) = n - 1
        /\ n \in Nat /\ n >= 1
    BY SomeClients, FS_RemoveElement
  <2>5. IsFiniteSet(Conns) /\ Cardinality(Conns) = n + 1
    <3>1. n + 1 \in Int /\ 1 \in Int /\ ~(1 > n + 1) BY <2>4
    <3> QED BY <2>4, <3>1, FS_Interval DEF Conns
  <2>6. IsFiniteSet(S) /\ Cardinality(S) = n
    <3>1. IsFiniteSet(S) /\ Cardinality(S) = Cardinality(Conns) - 1
      BY <2>1, <2>5, FS_RemoveElement
    <3> HIDE DEF n
    <3> QED BY <2>4, <2>5, <3>1
  <2>7. \E x, y \in S : x # y /\ f[x] = f[y]
    <3> HIDE DEF f, S, T, n
    <3>1. Cardinality(T) < Cardinality(S) BY <2>4, <2>6
    <3> QED BY <2>3, <2>4, <2>6, <3>1, FS_PigeonHole
  <2>8. PICK x \in S, y \in S : x # y /\ f[x] = f[y] BY <2>7
  <2>9. PICK u \in T : x \in Held(u) /\ y \in Held(u) BY <2>3, <2>8
  <2>10. job[u].conn = 0 \/ job[u].old = 0 BY <1>1, Facts
  <2> QED BY <2>1, <2>8, <2>9, <2>10 DEF Held
<1>2. TypeOK /\ IInv => Roomy BY <1>1 DEF Roomy
<1> QED BY <1>2, InvCorrect, PTL

=============================================================================
