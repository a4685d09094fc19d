--------------------------- MODULE BridgeConnection ---------------------------
(***************************************************************************)
(* The connection to the robots' gateway: the bridge service owns one       *)
(* rosbridge client and its subscriptions. A replacement is connected and    *)
(* subscribed before the old client is dropped. Gateway requests ask for it,  *)
(* which then write the gateway into ros2_runtime.yaml and undo the switch     *)
(* when that fails, and so does the thread that watches this file.             *)
(*                                                                             *)
(*   src/mcp/ros-mcp/core/bridge_service.py       the service and its watcher  *)
(*   src/mcp/ros-mcp/core/rosbridge_client.py     one WebSocket                *)
(*   src/mcp/ros-mcp/core/task_status_tracker.py  its core subscription        *)
(*   src/src/web/routes/mcp.py                    gateway requests             *)
(***************************************************************************)
EXTENDS Naturals, FiniteSets

CONSTANTS Watcher,     \* the thread that watches the file
          Requesters,  \* threads that serve gateway requests
          Hosts, Ports, Modes,
          Targets,     \* the gateways that requests switch to
          Topics,      \* what a configuration may subscribe beside system_status
          Configured,  \* the configuration at the start
          Edits,       \* what an operator may write into the file
          Broken,      \* a file that does not parse
          MaxEdits,    \* bound on the operator's edits
          MaxFaults    \* bound on lost links and failed operations

Gateways == [host: Hosts, port: Ports, mode: Modes]
Config  == [gw: Gateways, subs: SUBSET Topics]
Threads == Requesters \cup {Watcher}

\* Clients: one in use and at most one more per thread; one that is closed and
\* not in use is garbage, and its name is given to the next.
Conns == 1..(Cardinality(Threads) + 1)

ASSUME BridgeAssumption ==
  /\ IsFiniteSet(Requesters) /\ Watcher \notin Requesters
  /\ Configured \in Config /\ Broken \notin Config /\ Edits \subseteq Config \cup {Broken}
  /\ Targets \subseteq Gateways
  /\ MaxEdits \in Nat /\ MaxFaults \in Nat

VARIABLES
  conn,     \* conn[k]: the state of client k, its gateway and what it has subscribed
  svc,      \* the service: running, its client, its configuration, whether it watches
  file,     \* ros2_runtime.yaml
  changed,  \* its modification time is not the one the watcher compares with
  error,    \* the configuration error that the status shows
  pc,       \* pc[t]: where thread t stands
  job,      \* job[t]: the replacement thread t is making
  edits,    \* edits so far
  faults    \* faults so far

vars == <<conn, svc, file, changed, error, pc, job, edits, faults>>

-----------------------------------------------------------------------------
(* Clients *)

\* "lost": the listener has ended or the socket is broken; "closed": never
\* connected, or disconnected by the service. tracked: its tracker has started,
\* so that stopping the tracker sends an unsubscribe.
Link   == [st: {"open", "lost", "closed"}, gw: Gateways, subs: SUBSET Topics, tracked: BOOLEAN]
Closed == [st |-> "closed", gw |-> Configured.gw, subs |-> {}, tracked |-> FALSE]

Fails    == faults < MaxFaults /\ faults' = faults + 1
Close(k) == conn' = [conn EXCEPT ![k] = Closed]

\* The gateway goes away, or the listener cannot read a message: nobody is told.
LinkLost(k) ==
  /\ conn[k].st = "open" /\ Fails
  /\ conn' = [conn EXCEPT ![k].st = "lost"]
  /\ UNCHANGED <<svc, file, changed, error, pc, job, edits>>

-----------------------------------------------------------------------------
(* Replacing the connection *)

Job   == [to: Gateways, back: Gateways, undo: BOOLEAN, subs: SUBSET Topics,
          conn: Conns \cup {0}, old: Conns \cup {0}, data: Config]
NoJob == [to |-> Configured.gw, back |-> Configured.gw, undo |-> FALSE, subs |-> {},
          conn |-> 0, old |-> 0, data |-> Configured]

Want(t) == [gw |-> IF job[t].undo THEN job[t].back ELSE job[t].to, subs |-> job[t].subs]

Goto(t, l) == pc' = [pc EXCEPT ![t] = l]

\* The watcher logs a failure and goes on watching; a request is answered 502.
Done(t) == Goto(t, "idle") /\ job' = [job EXCEPT ![t] = NoJob]

Garbage(k) == k # svc.cur /\ \A t \in Threads : k \notin {job[t].conn, job[t].old}

Connect(t) ==
  /\ pc[t] = "connect"
  /\ \/ \E k \in {k \in Conns : Garbage(k)} :
          /\ \A j \in Conns : j < k => ~Garbage(j)
          /\ conn' = [conn EXCEPT ![k] = [Closed EXCEPT !.st = "open", !.gw = Want(t).gw]]
          /\ job' = [job EXCEPT ![t].conn = k]
          /\ Goto(t, "subscribe") /\ UNCHANGED faults
     \/ Fails /\ Done(t) /\ UNCHANGED conn
  /\ UNCHANGED <<svc, file, changed, error, edits>>

\* The tracker subscribes to system_status, the service to the rest. A link that
\* is lost meanwhile refuses, and the replacement is given up.
Subscribe(t) ==
  /\ pc[t] = "subscribe"
  /\ LET k == job[t].conn IN
       \/ /\ conn[k].st = "open"
          /\ conn' = [conn EXCEPT ![k].subs = Want(t).subs, ![k].tracked = TRUE]
          /\ Goto(t, "swap") /\ UNCHANGED job
       \/ conn[k].st # "open" /\ Close(k) /\ Done(t)
  /\ UNCHANGED <<svc, file, changed, error, edits, faults>>

KeepsConfig(t) ==  \* mutant: the service keeps the configuration it had
  [svc EXCEPT !.running = TRUE, !.cur = job[t].conn]
Installed(t) == [svc EXCEPT !.running = TRUE, !.cur = job[t].conn, !.cfg = Want(t)]

InUse(t) == job[t].conn   \* mutant: what the service has by now is dropped
Replaced(t) == svc.cur

\* Under the service's lock.
Swap(t) ==
  /\ pc[t] = "swap"
  /\ job' = [job EXCEPT ![t].old = Replaced(t), ![t].conn = 0]
  /\ svc' = Installed(t)
  /\ Goto(t, "retire")
  /\ UNCHANGED <<conn, file, changed, error, edits, faults>>

AlwaysPersist(t) ==  \* mutant: an undone switch is written as well
  IF t = Watcher THEN "finish" ELSE "persist"
After(t) == IF t = Watcher THEN "finish" ELSE IF job[t].undo THEN "idle" ELSE "persist"

\* Stopping the old tracker raises when it would send on a dead link; the old
\* client is disconnected in any case. The exception fails the whole replacement
\* although that has taken place. After a request's replacement the service
\* watches the file, even if it did not before.
KeepsOld(k) == UNCHANGED conn  \* mutant: the exception leaves before the disconnect
Drop(k) == Close(k)

Retire(t) ==
  /\ pc[t] = "retire"
  /\ LET k == job[t].old
         raises == conn[k].tracked /\ conn[k].st # "open"
     IN /\ IF raises THEN Drop(k) ELSE Close(k)
        /\ svc' = [svc EXCEPT !.watching = @ \/ ~raises]
        /\ IF raises \/ After(t) = "idle" THEN Done(t)
           ELSE Goto(t, After(t)) /\ job' = [job EXCEPT ![t].old = 0]
  /\ UNCHANGED <<file, changed, error, edits, faults>>

-----------------------------------------------------------------------------
(* Start *)

\* At start the service connects its first client. When that or a subscription
\* fails it stays, not running, for the gateway requests to replace.
Start ==
  /\ pc[Watcher] = "start" /\ Goto(Watcher, "idle")
  /\ \/ /\ conn' = [conn EXCEPT ![1] = [st |-> "open", gw |-> svc.cfg.gw,
                                        subs |-> svc.cfg.subs, tracked |-> TRUE]]
        /\ svc' = [svc EXCEPT !.running = TRUE, !.watching = TRUE]
        /\ UNCHANGED faults
     \/ /\ Fails /\ UNCHANGED svc
        /\ \E tracked \in BOOLEAN : conn' = [conn EXCEPT ![1].tracked = tracked]
  /\ UNCHANGED <<file, changed, error, job, edits>>

-----------------------------------------------------------------------------
(* Gateway requests *)

\* POST /api/mcp/gateway: first the gateway to go back to is read ...
Ask(c, gw) ==
  /\ pc[c] = "idle" /\ pc[Watcher] # "start"
  /\ job' = [job EXCEPT ![c] = [NoJob EXCEPT !.to = gw, !.back = svc.cfg.gw]]
  /\ Goto(c, "look")
  /\ UNCHANGED <<conn, svc, file, changed, error, edits, faults>>

\* ... its host, port and mode one after the other, so that each may be the one
\* before or after a replacement by another thread ...
Mixtures(a, b) == {[host |-> h, port |-> p, mode |-> m] :
  h \in {a.host, b.host}, p \in {a.port, b.port}, m \in {a.mode, b.mode}}

Look(c) ==
  /\ pc[c] = "look"
  /\ \E g \in Mixtures(job[c].back, svc.cfg.gw) : job' = [job EXCEPT ![c].back = g]
  /\ Goto(c, "reconnect")
  /\ UNCHANGED <<conn, svc, file, changed, error, edits, faults>>

\* ... then the configuration to change; all without the service's lock.
Reconnect(c) ==
  /\ pc[c] = "reconnect"
  /\ job' = [job EXCEPT ![c].subs = svc.cfg.subs]
  /\ Goto(c, "connect")
  /\ UNCHANGED <<conn, svc, file, changed, error, edits, faults>>

Undo(c) == job' = [job EXCEPT ![c].undo = TRUE] /\ Goto(c, "reconnect")

\* The file is read, and replaced by what was read with the gateway in it: an edit
\* in between is lost.
PersistRead(c) ==
  /\ pc[c] = "persist"
  /\ \/ file # Broken /\ job' = [job EXCEPT ![c].data = file] /\ Goto(c, "write")
     \/ file = Broken /\ Undo(c)
  /\ UNCHANGED <<conn, svc, file, changed, error, edits, faults>>

WriteFile(c) == file' = [job[c].data EXCEPT !.gw = job[c].to] /\ changed' = TRUE

\* Syncing the directory may fail after the file has been replaced.
PersistWrite(c) ==
  /\ pc[c] = "write"
  /\ \/ WriteFile(c) /\ Done(c) /\ UNCHANGED faults
     \/ Fails /\ Undo(c) /\ (WriteFile(c) \/ UNCHANGED <<file, changed>>)
  /\ UNCHANGED <<conn, svc, error, edits>>

-----------------------------------------------------------------------------
(* The watcher *)

Edit(cfg) ==
  /\ edits < MaxEdits /\ edits' = edits + 1
  /\ file' = cfg /\ changed' = TRUE
  /\ UNCHANGED <<conn, svc, error, pc, job, faults>>

\* The new modification time is taken note of before the file is read.
Wake ==
  /\ pc[Watcher] = "idle" /\ svc.watching /\ changed
  /\ changed' = FALSE /\ Goto(Watcher, "load")
  /\ UNCHANGED <<conn, svc, file, error, job, edits, faults>>

\* reload_runtime_config: a broken file is reported; one that changes nothing
\* only ends the reload; any other replaces the connection. The code's other case,
\* a service that is not running, needs a stop while the file is watched, and
\* only the end of the process stops the service.
Load ==
  /\ pc[Watcher] = "load"
  /\ \/ /\ file = Broken /\ error' = TRUE
        /\ Goto(Watcher, "idle") /\ UNCHANGED job
     \/ /\ file # Broken /\ file = svc.cfg
        /\ Goto(Watcher, "finish") /\ UNCHANGED <<job, error>>
     \/ /\ file # Broken /\ file # svc.cfg
        /\ job' = [job EXCEPT ![Watcher] = [NoJob EXCEPT !.to = file.gw, !.subs = file.subs]]
        /\ Goto(Watcher, "connect") /\ UNCHANGED error
  /\ UNCHANGED <<conn, svc, file, changed, edits, faults>>

\* The modification time is taken note of again, whatever was written since.
Finish ==
  /\ pc[Watcher] = "finish"
  /\ error' = FALSE /\ changed' = FALSE /\ Done(Watcher)
  /\ UNCHANGED <<conn, svc, file, edits, faults>>

-----------------------------------------------------------------------------
(* Specification *)

Init ==
  /\ conn = [k \in Conns |-> Closed]
  /\ svc = [running |-> FALSE, cur |-> 1, cfg |-> Configured, watching |-> FALSE]
  /\ file = Configured
  /\ changed = FALSE /\ error = FALSE
  /\ pc = [t \in Threads |-> IF t = Watcher THEN "start" ELSE "idle"]
  /\ job = [t \in Threads |-> NoJob]
  /\ edits = 0 /\ faults = 0

Replacing(t) == Connect(t) \/ Subscribe(t) \/ Swap(t) \/ Retire(t)

\* What a request does once it has been made, and the watcher once it has woken.
Handling(c) == Look(c) \/ Reconnect(c) \/ Replacing(c) \/ PersistRead(c) \/ PersistWrite(c)
Watching    == Wake \/ Load \/ Replacing(Watcher) \/ Finish

Next ==
  \/ Start \/ Watching
  \/ \E c \in Requesters : Handling(c) \/ \E gw \in Targets : Ask(c, gw)
  \/ \E k \in Conns : LinkLost(k)
  \/ \E cfg \in Edits : Edit(cfg)

Spec == Init /\ [][Next]_vars

\* Connecting has a timeout, the service's lock is held for a few assignments or
\* such a connect, and nothing else blocks the watcher.
Fairness == /\ WF_vars(Start) /\ WF_vars(Watching)
            /\ \A c \in Requesters : WF_vars(Handling(c))
FairSpec == Spec /\ Fairness

-----------------------------------------------------------------------------
(* Properties *)

PcState == {"start", "idle", "look", "reconnect", "connect", "subscribe", "swap", "retire",
            "persist", "write", "load", "finish"}

TypeOK ==
  /\ conn \in [Conns -> Link]
  /\ svc \in [running: BOOLEAN, cur: Conns, cfg: Config, watching: BOOLEAN]
  /\ file \in Config \cup {Broken}
  /\ changed \in BOOLEAN /\ error \in BOOLEAN
  /\ pc \in [Threads -> PcState]
  /\ job \in [Threads -> Job]
  /\ edits \in Nat /\ faults \in Nat

\* No link is leaked: a client that is not closed is the service's, or a thread is
\* about to install or to drop it, whatever fails and however switches and reloads
\* overlap. A leaked link would go on feeding the telemetry of the old gateway.
OneLink == \A k \in Conns : conn[k].st # "closed" =>
  k = svc.cur \/ \E t \in Threads : k \in {job[t].conn, job[t].old}

\* Once the service runs its client is never one that it has dropped itself, and
\* what the client has subscribed, and where, is the configuration that is shown:
\* "配置错误时保留上一份有效订阅和连接" holds for every failure and every order of
\* overlapping replacements.
LastGoodKept == svc.running =>
  /\ conn[svc.cur].st # "closed"
  /\ [gw |-> conn[svc.cur].gw, subs |-> conn[svc.cur].subs] = svc.cfg

\* Every gateway request is answered, one whose switch must be undone as well.
Answered == \A c \in Requesters : pc[c] # "idle" ~> pc[c] = "idle"

\* A request is answered 502 when it ends anywhere but after writing the file.
Refused(c) == pc[c] \notin {"idle", "write"} /\ pc'[c] = "idle"

\* "Read or atomically switch the live rosbridge gateway." (src/src/web/routes/
\* mcp.py:152): a switch that is answered as failed leaves the gateway it was to
\* replace.
SwitchIsAtomic == [][\A c \in Requesters :
  Refused(c) /\ job[c].to # job[c].back => svc'.cfg.gw # job[c].to]_vars

\* "系统自动加载新增、删除或修改后的订阅": what stands in the file in the end is in
\* force.
EditsTakeEffect == <>[](svc.running /\ file # Broken) => []<>(svc.cfg = file)
=============================================================================
