---------------------------- MODULE TaskDispatch ----------------------------
(***************************************************************************)
(* Dispatch of archived TaskIntents to ROS 2 and control of what has been  *)
(* dispatched.  Sessions (dialogue managers) run in server processes; the  *)
(* processes share four durable things: the bridge's send records, the ROS *)
(* id counter, one control record per intent and one history snapshot per  *)
(* intent.  Dispatch and control of one intent exclude each other by the   *)
(* intent guard (a file lock); access to the send records is serialized by *)
(* the record lock, which is held across the transport write.              *)
(*                                                                         *)
(*   src/src/dispatch/task_dispatch.py      dispatch_completed_task        *)
(*   src/src/dispatch/execution_state.py    guard and control record       *)
(*   src/src/handlers/lifecycle/execution_control.py   control requests    *)
(*   src/mcp/ros-mcp/core/bridge_service.py  send records                  *)
(*   src/mcp/ros-mcp/core/rosbridge_client.py  id counter, transport       *)
(***************************************************************************)
EXTENDS Naturals, FiniteSets

CONSTANTS Sessions, Procs, Intents,
          NoOne,          \* holder of a free lock
          Host,           \* [Sessions -> Procs]: the process a session lives in
          Target,         \* [Sessions -> Intents]: the session's archived intent
          Controls,       \* the control actions users ask for
          Legacy,         \* intents archived by a version without send records
          Uncertain,      \* intents whose publication was pending for a while, so
                          \* that other sessions may hold copies of that state
          Degraded,       \* the record file may be damaged, and a process may
                          \* run without a bridge object
          MaxId,          \* last id of the AI range (0xFFFF in the code)
          MaxFaults       \* bound on crashes, failed writes and damaged files

ASSUME DispatchAssumption ==
         /\ NoOne \notin Sessions
         /\ Host \in [Sessions -> Procs]
         /\ Target \in [Sessions -> Intents]
         /\ Legacy \subseteq Intents
         /\ Uncertain \subseteq Intents \ Legacy
         /\ Controls \subseteq {"stop", "pause", "abort", "cancel"}
         /\ Degraded \in BOOLEAN
         /\ MaxId \in Nat
         /\ MaxFaults \in Nat

VARIABLES
  disk,      \* disk[i]: the send record of i in .mcp_dispatch_records.json
  diskFile,  \* that file is "absent", "ok" or "corrupt"
  known,     \* processes holding records in memory while no file exists yet
  idSeq,     \* .ros2_task_id_sequence
  ctl,       \* ctl[i]: .execution_state/<i>/control.json
  history,   \* history[i]: history_<i>.json, or NoSnap
  archived,  \* intents whose task file has been published
  bridge,    \* bridge[p]: "down" (no process), "none" (no bridge) or "up"
  guard,     \* guard[i]: the session holding the intent guard
  recLock,   \* the session holding the record lock
  pc,        \* pc[s]: where the request session s is serving stands
  disp,      \* disp[s]: manager.ros2_dispatch
  last,      \* last[s]: manager.last_control_request
  robot,     \* task ids the robot side has received
  wire,      \* wire[i]: times i was handed to the socket (history variable)
  told,      \* told[s]: s's current control command reached the socket (history)
  faults     \* faults so far, bounded by MaxFaults

vars == <<disk, diskFile, known, idSeq, ctl, history, archived, bridge,
          guard, recLock, pc, disp, last, robot, wire, told, faults>>

store    == <<disk, diskFile, known>>
locks    == <<guard, recLock>>
memory   == <<disp, last>>
outside  == <<robot, wire>>
process  == <<bridge, archived>>

-----------------------------------------------------------------------------
(* Types *)

RecordState == {"NONE", "SENDING", "SENT", "FAILED"}
Record      == [st: RecordState, id: 0..MaxId]
NoRecord    == [st |-> "NONE", id |-> 0]

DispState == {"none", "SENT", "FAILED", "UNKNOWN", "SCHEDULED", "BLOCKED"}
Disp      == [st: DispState, why: {"", "legacy_history", "execution_control"},
              id: 0..MaxId]
Result(st) == [st |-> st, why |-> "", id |-> 0]
WithId(st, id) == [st |-> st, why |-> "", id |-> id]
Held == [st |-> "BLOCKED", why |-> "execution_control", id |-> 0]
LegacyUnknown == [st |-> "UNKNOWN", why |-> "legacy_history", id |-> 0]

Actions  == {"stop", "pause", "abort", "cancel"}
Outcomes == {"none", "requested", "not_sent_cancelled", "not_sent_paused",
             "resumed", "sent", "unknown", "failed"}
Request  == [act: Actions \cup {"none"}, out: Outcomes, id: 0..MaxId]
NoRequest == [act |-> "none", out |-> "none", id |-> 0]

Control   == [blocked: BOOLEAN, req: Request]
NoControl == [blocked |-> FALSE, req |-> NoRequest]

Snapshot == [there: BOOLEAN, disp: Disp, last: Request]
NoSnap   == [there |-> FALSE, disp |-> Result("none"), last |-> NoRequest]

DispatchPc == {"recordCheck", "gate", "ready", "sending", "sent", "failed"}
ControlPc  == {"ctlRead", "ctlNote", "ctlSend", "ctlMark", "ctlEnd", "ctlSave"}
SendingPc  == {"sending", "sent", "failed"}
PcState == {"out", "idle", "confirmed", "auto", "save"} \cup DispatchPc \cup ControlPc

\* Every variable is in its domain.  What the records of one kind look like is
\* shared by the code that writes them, reads them back and restores a session.
TypeOK ==
  /\ disk \in [Intents -> Record]
  /\ diskFile \in {"absent", "ok", "corrupt"}
  /\ known \subseteq Procs
  /\ idSeq \in 0..MaxId
  /\ ctl \in [Intents -> Control]
  /\ history \in [Intents -> Snapshot]
  /\ archived \subseteq Intents
  /\ bridge \in [Procs -> {"down", "none", "up"}]
  /\ guard \in [Intents -> Sessions \cup {NoOne}]
  /\ recLock \in Sessions \cup {NoOne}
  /\ pc \in [Sessions -> PcState]
  /\ disp \in [Sessions -> Disp]
  /\ last \in [Sessions -> Request]
  /\ robot \subseteq 0..MaxId
  /\ wire \in [Intents -> Nat]
  /\ told \in [Sessions -> BOOLEAN]
  /\ faults \in 0..MaxFaults

-----------------------------------------------------------------------------
(* Durable writes.  A record is replaced by temporary file, fsync, rename  *)
(* and directory fsync; the call may raise before the rename ("lost") or   *)
(* after it ("kept").                                                      *)

WriteOutcomes == {"ok", "lost", "kept"}

Costs(w) == /\ faults' = IF w = "ok" THEN faults ELSE faults + 1
            /\ faults' <= MaxFaults

\* Mutant: the record reaches the memory of the process only.
PutInMemory(p, i, r, w) ==
  /\ Costs(w)
  /\ known' = known \cup {p}
  /\ UNCHANGED <<disk, diskFile>>

PutRecord(p, i, r, w) ==
  /\ Costs(w)
  /\ disk' = IF w = "lost" THEN disk ELSE [disk EXCEPT ![i] = r]
  /\ diskFile' = IF w = "lost" THEN diskFile ELSE "ok"
  /\ known' = known \cup {p}

PutControl(i, c, w) ==
  /\ Costs(w)
  /\ ctl' = IF w = "lost" THEN ctl ELSE [ctl EXCEPT ![i] = c]

\* _load_dispatch_records raises on a damaged file, and on a missing file when
\* records are held in memory.
Readable(p) == diskFile = "ok" \/ (diskFile = "absent" /\ p \notin known)

\* Only telemetry naming the record's task id resolves an interrupted send.  The
\* latest frame of a process may list any of the tasks the robot has received.
AnyTelemetry(r) == TRUE  \* mutant
MayHaveReceipt(r) == r.id \in robot

Cancelled(i) == ctl[i].blocked /\ ctl[i].req.out = "not_sent_cancelled"
HeldAtAll(i) == ctl[i].blocked  \* mutant
Paused(i)    == ctl[i].blocked /\ ctl[i].req.out = "not_sent_paused"

Goto(s, l) == pc' = [pc EXCEPT ![s] = l]

\* execution_state.guard: an exclusive lock on a file of the intent.
GuardFreeHere(s) ==  \* mutant: a lock of the process
  \/ guard[Target[s]] = NoOne
  \/ \E t \in Sessions : guard[Target[s]] = t /\ Host[t] # Host[s]
GuardFree(s) == guard[Target[s]] = NoOne

\* generate_task_id: one counter, in a file shared by all processes.
NextId == idSeq + 1

\* A dispatch request ends: the result becomes ros2_dispatch, the guard is
\* released and the route goes on to save the history.
FinishHolding(s, d) ==  \* mutant: the guard is not released
  /\ disp' = [disp EXCEPT ![s] = d]
  /\ Goto(s, "save") /\ UNCHANGED guard

Finish(s, d) ==
  /\ disp' = [disp EXCEPT ![s] = d]
  /\ guard' = [guard EXCEPT ![Target[s]] = NoOne]
  /\ Goto(s, "save")

-----------------------------------------------------------------------------
(* Sessions: archiving, history, restart *)

SnapshotOf(s) == [there |-> TRUE, disp |-> disp[s], last |-> last[s]]

SaveHistory(s, w) ==
  /\ Costs(w)
  /\ history' = IF w = "ok" THEN [history EXCEPT ![Target[s]] = SnapshotOf(s)]
                ELSE history

\* The edge into done: the task file of this intent has just been published, or
\* has been found published by a session that held the pending artifact.
Confirm(s) ==
  /\ pc[s] = "out" /\ bridge[Host[s]] # "down"
  /\ Target[s] \notin archived \/ Target[s] \in Uncertain
  /\ archived' = archived \cup {Target[s]}
  /\ disp' = [disp EXCEPT ![s] = Result("none")]
  /\ last' = [last EXCEPT ![s] = NoRequest]
  /\ Goto(s, "confirmed")
  /\ UNCHANGED <<store, idSeq, ctl, history, bridge, locks, outside, told, faults>>

\* The route saves before the first dispatch, and goes on if that fails.
SaveConfirmed(s) ==
  /\ pc[s] = "confirmed"
  /\ \E w \in {"ok", "lost"} : SaveHistory(s, w)
  /\ Goto(s, "auto")
  /\ UNCHANGED <<store, idSeq, ctl, process, locks, memory, outside, told>>

SaveResult(s) ==
  /\ pc[s] = "save"
  /\ \E w \in {"ok", "lost"} : SaveHistory(s, w)
  /\ Goto(s, "idle")
  /\ told' = [told EXCEPT ![s] = FALSE]
  /\ UNCHANGED <<store, idSeq, ctl, process, locks, memory, outside>>

\* A history entry is opened in a (new) session; it never triggers a send.
Restore(s) ==
  LET snap == history[Target[s]] IN
  /\ pc[s] \in {"out", "idle"} /\ bridge[Host[s]] # "down"
  /\ snap.there
  /\ disp' = [disp EXCEPT ![s] = IF snap.disp.st = "none" THEN LegacyUnknown
                                 ELSE snap.disp]
  /\ last' = [last EXCEPT ![s] = snap.last]
  /\ Goto(s, "idle")
  /\ UNCHANGED <<store, idSeq, ctl, history, process, locks, outside, told, faults>>

Crash(p) ==
  /\ bridge[p] # "down"
  /\ faults < MaxFaults /\ faults' = faults + 1
  /\ bridge' = [bridge EXCEPT ![p] = "down"]
  /\ known' = known \ {p}
  /\ pc' = [s \in Sessions |-> IF Host[s] = p THEN "out" ELSE pc[s]]
  /\ guard' = [i \in Intents |->
                 IF \E s \in Sessions : guard[i] = s /\ Host[s] = p
                 THEN NoOne ELSE guard[i]]
  /\ recLock' = IF \E s \in Sessions : recLock = s /\ Host[s] = p
                THEN NoOne ELSE recLock
  /\ disp' = [s \in Sessions |-> IF Host[s] = p THEN Result("none") ELSE disp[s]]
  /\ last' = [s \in Sessions |-> IF Host[s] = p THEN NoRequest ELSE last[s]]
  /\ told' = [s \in Sessions |-> Host[s] # p /\ told[s]]
  /\ UNCHANGED <<disk, diskFile, idSeq, ctl, history, archived, outside>>

\* run.py keeps serving without a bridge object when its construction raises,
\* as it does when the send records cannot be read.
Start(p) ==
  /\ bridge[p] = "down"
  /\ \E b \in {"up", "none"} :
       /\ diskFile = "corrupt" => b = "none"
       /\ b = "none" => Degraded
       /\ bridge' = [bridge EXCEPT ![p] = b]
  /\ UNCHANGED <<store, idSeq, ctl, history, archived, locks, pc, memory,
                 outside, told, faults>>

-----------------------------------------------------------------------------
(* Environment *)

\* The record file is damaged, and later repaired from a copy.
Damage ==
  /\ Degraded /\ diskFile = "ok" /\ recLock = NoOne
  /\ faults < MaxFaults /\ faults' = faults + 1
  /\ diskFile' = "corrupt"
  /\ UNCHANGED <<disk, known, idSeq, ctl, history, process, locks, pc, memory,
                 outside, told>>

Repair ==
  /\ diskFile = "corrupt"
  /\ diskFile' = "ok"
  /\ UNCHANGED <<disk, known, idSeq, ctl, history, process, locks, pc, memory,
                 outside, told, faults>>

-----------------------------------------------------------------------------
(* dispatch_completed_task *)

\* Automatic dispatch on the edge into done, or POST /api/mcp/dispatch, which
\* may lift a pause this session has already shown to the user.
DispatchBegin(s) ==
  LET i == Target[s]
      mayResume == Paused(i) /\ pc[s] = "idle" /\ last[s] = ctl[i].req
      resumed == [ctl[i].req EXCEPT !.out = "resumed"]
  IN
  /\ pc[s] \in {"idle", "auto"} /\ GuardFree(s)
  /\ \/ /\ ~ctl[i].blocked
        /\ guard' = [guard EXCEPT ![i] = s]
        /\ Goto(s, "recordCheck")
        /\ UNCHANGED <<ctl, memory, faults>>
     \/ /\ ctl[i].blocked /\ ~mayResume
        /\ last' = [last EXCEPT ![s] = ctl[i].req]
        /\ Finish(s, Held)
        /\ UNCHANGED <<ctl, faults>>
     \/ /\ mayResume
        /\ \E w \in WriteOutcomes :
             /\ PutControl(i, [blocked |-> FALSE, req |-> resumed], w)
             /\ IF w = "ok"
                THEN /\ last' = [last EXCEPT ![s] = resumed]
                     /\ guard' = [guard EXCEPT ![i] = s]
                     /\ Goto(s, "recordCheck")
                     /\ UNCHANGED disp
                ELSE Finish(s, Result("FAILED")) /\ UNCHANGED last
  /\ UNCHANGED <<store, idSeq, history, process, recLock, outside, told>>

\* The guard's file or the control record cannot be read: a dispatch is reported
\* as FAILED, a control request as failed, and nothing else happens.
GuardFails(s) ==
  /\ faults < MaxFaults /\ faults' = faults + 1
  /\ \/ /\ pc[s] \in {"idle", "auto"}
        /\ disp' = [disp EXCEPT ![s] = Result("FAILED")]
        /\ UNCHANGED last
     \/ /\ pc[s] = "idle"
        /\ \E act \in Controls :
             last' = [last EXCEPT ![s] = [act |-> act, out |-> "failed", id |-> 0]]
        /\ UNCHANGED disp
  /\ Goto(s, "save")
  /\ UNCHANGED <<store, idSeq, ctl, history, process, locks, outside, told>>

\* get_dispatch_record and the decisions taken on its answer.
CheckRecord(s) ==
  LET i == Target[s]
      p == Host[s]
      r == disk[i]
      asked == bridge[p] = "up"
      unsent == IF ~asked THEN TRUE ELSE r.st \in {"NONE", "FAILED"}
      noRecord == IF ~asked THEN TRUE ELSE r.st = "NONE"
      legacy == noRecord /\ disp[s].why = "legacy_history"
  IN
  /\ pc[s] = "recordCheck"
  /\ asked => recLock = NoOne
  /\ \/ /\ asked /\ ~Readable(p)
        /\ Finish(s, Result("FAILED"))
        /\ UNCHANGED <<store, faults>>
     \/ /\ asked /\ Readable(p) /\ r.st = "SENT"
        /\ Finish(s, WithId("SENT", r.id))
        /\ UNCHANGED <<store, faults>>
     \/ /\ asked /\ Readable(p) /\ r.st = "SENDING"
        /\ Finish(s, WithId("UNKNOWN", r.id))
        /\ UNCHANGED <<store, faults>>
     \/ /\ asked /\ Readable(p) /\ r.st = "SENDING" /\ MayHaveReceipt(r)
        /\ \E w \in WriteOutcomes :
             /\ PutRecord(p, i, [r EXCEPT !.st = "SENT"], w)
             /\ Finish(s, IF w = "ok" THEN WithId("SENT", r.id) ELSE Result("FAILED"))
     \/ /\ asked => Readable(p)
        /\ unsent /\ legacy
        /\ Finish(s, LegacyUnknown)
        /\ UNCHANGED <<store, faults>>
     \/ /\ asked => Readable(p)
        /\ unsent /\ ~legacy
        /\ Goto(s, "gate")
        /\ UNCHANGED <<store, guard, disp, faults>>
  /\ UNCHANGED <<idSeq, ctl, history, process, recLock, last, outside, told>>

\* Operation support, schedule, fresh runtime validation, transport health and
\* the unit-state version: each may refuse, with the state it reports.
Gate(s) ==
  /\ pc[s] = "gate"
  /\ \/ \E st \in {"SCHEDULED", "BLOCKED", "FAILED"} : Finish(s, Result(st))
     \/ /\ bridge[Host[s]] = "up"
        /\ Goto(s, "ready")
        /\ UNCHANGED <<guard, disp>>
  /\ UNCHANGED <<store, idSeq, ctl, history, process, recLock, last, outside,
                 told, faults>>

\* dispatch_intent up to the write of the SENDING record.  A FAILED record
\* keeps its task id; otherwise generate_task_id reserves one durably.
NeedsIdAgain(i) == disk[i].st # "SENT"  \* mutant: a fresh id for every attempt
NeedsId(i) == disk[i].st = "NONE"

Reserve(s) ==
  LET i == Target[s]
      p == Host[s]
      id == IF NeedsId(i) THEN NextId ELSE disk[i].id
      refused == Finish(s, Result("FAILED"))
  IN
  /\ pc[s] = "ready" /\ recLock = NoOne
  /\ \/ /\ ~Readable(p)
        /\ refused
        /\ UNCHANGED <<store, idSeq, recLock, faults>>
     \/ /\ Readable(p) /\ NeedsId(i) /\ idSeq = MaxId
        /\ refused
        /\ UNCHANGED <<store, idSeq, recLock, faults>>
     \/ /\ Readable(p) /\ NeedsId(i) /\ idSeq < MaxId   \* the counter write raises
        /\ \E w \in {"lost", "kept"} :
             Costs(w) /\ idSeq' = IF w = "kept" THEN NextId ELSE idSeq
        /\ refused
        /\ UNCHANGED <<store, recLock>>
     \/ /\ Readable(p) /\ disk[i].st \in {"NONE", "FAILED"}
        /\ id <= MaxId
        /\ idSeq' = IF NeedsId(i) THEN id ELSE idSeq
        /\ \E w \in WriteOutcomes :
             /\ PutRecord(p, i, [st |-> "SENDING", id |-> id], w)
             /\ IF w = "ok"
                THEN recLock' = s /\ Goto(s, "sending") /\ UNCHANGED <<guard, disp>>
                ELSE refused /\ UNCHANGED recLock
  /\ UNCHANGED <<ctl, history, process, last, outside, told>>

\* publish_task_cmd: refused before the socket write, written, or raising out
\* of the socket write (PublishOutcomeUnknown).  What was written may be lost.
\* Mutant: a socket write that raised is recorded as not sent.
PublishRetryable(s) ==
  /\ pc[s] = "sending"
  /\ \/ wire' = [wire EXCEPT ![Target[s]] = @ + 1] /\ Goto(s, "sent")
     \/ wire' = [wire EXCEPT ![Target[s]] = @ + 1] /\ Goto(s, "failed")
  /\ UNCHANGED <<store, idSeq, ctl, history, process, last, told, faults, robot, disp, locks>>

Publish(s) ==
  LET i == Target[s]
      handed == /\ wire' = [wire EXCEPT ![i] = @ + 1]
                /\ robot' \in {robot, robot \cup {disk[i].id}}
  IN
  /\ pc[s] = "sending"
  /\ \/ Goto(s, "failed") /\ UNCHANGED <<wire, robot, disp, locks>>
     \/ handed /\ Goto(s, "sent") /\ UNCHANGED <<disp, locks>>
     \/ /\ handed
        /\ Finish(s, WithId("UNKNOWN", disk[i].id))
        /\ recLock' = NoOne
  /\ UNCHANGED <<store, idSeq, ctl, history, process, last, told, faults>>

RecordSent(s) ==
  LET i == Target[s] IN
  /\ pc[s] = "sent"
  /\ \E w \in WriteOutcomes :
       /\ PutRecord(Host[s], i, [disk[i] EXCEPT !.st = "SENT"], w)
       /\ Finish(s, WithId(IF w = "ok" THEN "SENT" ELSE "UNKNOWN", disk[i].id))
  /\ recLock' = NoOne
  /\ UNCHANGED <<idSeq, ctl, history, process, last, outside, told>>

RecordFailed(s) ==
  LET i == Target[s] IN
  /\ pc[s] = "failed"
  /\ \E w \in WriteOutcomes : PutRecord(Host[s], i, [disk[i] EXCEPT !.st = "FAILED"], w)
  /\ Finish(s, Result("FAILED"))
  /\ recLock' = NoOne
  /\ UNCHANGED <<idSeq, ctl, history, process, last, outside, told>>

-----------------------------------------------------------------------------
(* Control of an archived task: stop, pause, abort, cancel *)

\* The control request ends: its last form is in last_control_request.
EndControl(s, req) ==
  /\ last' = [last EXCEPT ![s] = req]
  /\ guard' = [guard EXCEPT ![Target[s]] = NoOne]
  /\ Goto(s, "save")

ControlBegin(s, act) ==
  LET i == Target[s] IN
  /\ pc[s] = "idle" /\ GuardFree(s)
  /\ IF Cancelled(i)
     THEN /\ EndControl(s, ctl[i].req)
          /\ disp' = [disp EXCEPT ![s] = Held]
     ELSE /\ last' = [last EXCEPT ![s] = [act |-> act, out |-> "none", id |-> 0]]
          /\ guard' = [guard EXCEPT ![i] = s]
          /\ Goto(s, "ctlRead")
          /\ UNCHANGED disp
  /\ UNCHANGED <<store, idSeq, ctl, history, process, recLock, outside, told, faults>>

\* What the handler knows of the send: a task id (0 if none), and whether the
\* task is certain not to have been sent.
TaskIdOf(s, r) ==
  IF r.st \in {"SENT", "SENDING"} THEN r.id
  ELSE IF disp[s].st \in {"SENT", "UNKNOWN"} THEN disp[s].id
  ELSE 0

NotKnownSent(s, r) == r.st # "SENT" /\ disp[s].st # "SENT"  \* mutant
DefinitelyUnsent(s, r) ==
  /\ TaskIdOf(s, r) = 0
  /\ \/ r.st = "FAILED"
     \/ r.st = "NONE" /\ disp[s].st \in {"FAILED", "SCHEDULED", "BLOCKED"}

Hold(act) == IF act = "pause" THEN "not_sent_paused" ELSE "not_sent_cancelled"

\* The handler's outer except: what it reports when a read or write raises.
Transmitted(req) == req.id # 0 /\ req.out \in {"sent", "unknown"}
Raised(req) == [req EXCEPT !.out = IF Transmitted(req) THEN "unknown" ELSE "failed"]

\* Read (and if telemetry allows, reconcile) the send record, then write the
\* control record: a hold if nothing was sent, else the pending request.
ControlDecide(s) ==
  LET i == Target[s]
      p == Host[s]
      asked == bridge[p] = "up"
      r == IF asked THEN disk[i] ELSE NoRecord
      unsent == DefinitelyUnsent(s, r)
      id == TaskIdOf(s, r)
      act == last[s].act
      req == [act |-> act, id |-> id,
              out |-> IF unsent THEN Hold(act) ELSE "requested"]
  IN
  /\ pc[s] = "ctlRead"
  /\ asked => recLock = NoOne
  /\ \/ /\ asked /\ ~Readable(p)
        /\ EndControl(s, Raised(last[s]))
        /\ UNCHANGED <<store, ctl, disp, faults>>
     \/ /\ asked => Readable(p)
        /\ r.st = "SENDING" /\ MayHaveReceipt(r)
        /\ \E w \in WriteOutcomes :
             /\ PutRecord(p, i, [r EXCEPT !.st = "SENT"], w)
             /\ IF w = "ok" THEN UNCHANGED <<last, guard, pc>>
                ELSE EndControl(s, Raised(last[s]))
        /\ UNCHANGED <<ctl, disp>>
     \/ /\ asked => Readable(p)
        /\ \E w \in WriteOutcomes :
             /\ PutControl(i, [blocked |-> unsent \/ id = 0, req |-> req], w)
             /\ IF w # "ok"
                THEN EndControl(s, Raised(last[s])) /\ UNCHANGED disp
                ELSE /\ last' = [last EXCEPT ![s] = req]
                     /\ disp' = IF unsent THEN [disp EXCEPT ![s] = Held] ELSE disp
                     /\ Goto(s, IF unsent THEN "ctlSave" ELSE "ctlNote")
                     /\ UNCHANGED guard
        /\ UNCHANGED store
  /\ UNCHANGED <<idSeq, history, process, recLock, outside, told>>

\* The pending request is saved with the history before anything is sent.
ControlNote(s) ==
  /\ pc[s] = "ctlNote"
  /\ \E w \in {"ok", "lost"} :
       /\ SaveHistory(s, w)
       /\ IF w = "ok" THEN Goto(s, "ctlSend") /\ UNCHANGED <<last, guard>>
          ELSE EndControl(s, Raised(last[s]))
  /\ UNCHANGED <<store, idSeq, ctl, process, recLock, disp, outside, told>>

\* The transport write of a suspend (stop, pause) or delete (abort, cancel)
\* command; every command takes a fresh id from the shared counter.
ControlSend(s) ==
  LET answer(out) == last' = [last EXCEPT ![s].out = out]
      isDelete == last[s].act \in {"abort", "cancel"}
  IN
  /\ pc[s] = "ctlSend"
  /\ \/ /\ last[s].id = 0
        /\ answer("unknown") /\ Goto(s, "ctlEnd")
        /\ UNCHANGED <<idSeq, told>>
     \/ /\ last[s].id # 0        \* offline, no id left, or refused before the socket
        /\ answer("failed") /\ Goto(s, "ctlEnd")
        /\ idSeq' \in {idSeq, NextId} \cap (0..MaxId)
        /\ UNCHANGED told
     \/ /\ last[s].id # 0 /\ bridge[Host[s]] = "up" /\ idSeq < MaxId
        /\ idSeq' = NextId
        /\ told' = [told EXCEPT ![s] = TRUE]
        /\ \/ answer("unknown") /\ Goto(s, "ctlEnd")
           \/ ~isDelete /\ answer("sent") /\ Goto(s, "ctlEnd")
           \/ isDelete /\ Goto(s, "ctlMark") /\ UNCHANGED last
  /\ UNCHANGED <<store, ctl, history, process, locks, disp, outside, faults>>

\* delete_task marks the records after the command is out; if that raises, the
\* handler sees an exception that is not PublishOutcomeUnknown.
ControlMark(s) ==
  LET i == Target[s]
      p == Host[s]
      answer(out) == last' = [last EXCEPT ![s].out = out]
  IN
  /\ pc[s] = "ctlMark" /\ recLock = NoOne
  /\ Goto(s, "ctlEnd")
  /\ \/ ~Readable(p) /\ answer("failed") /\ UNCHANGED <<store, faults>>
     \/ /\ Readable(p)
        /\ \E w \in WriteOutcomes :
             /\ PutRecord(p, i, disk[i], w)
             /\ answer(IF w = "ok" THEN "sent" ELSE "failed")
  /\ UNCHANGED <<idSeq, ctl, history, process, locks, disp, outside, told>>

ControlEnd(s) ==
  LET i == Target[s] IN
  /\ pc[s] = "ctlEnd"
  /\ \E w \in WriteOutcomes :
       /\ PutControl(i, [blocked |-> last[s].id = 0, req |-> last[s]], w)
       /\ IF w = "ok" THEN Goto(s, "ctlSave") /\ UNCHANGED <<last, guard>>
          ELSE EndControl(s, Raised(last[s]))
  /\ UNCHANGED <<store, idSeq, history, process, recLock, disp, outside, told>>

ControlSave(s) ==
  /\ pc[s] = "ctlSave"
  /\ \E w \in {"ok", "lost"} :
       /\ SaveHistory(s, w)
       /\ EndControl(s, IF w = "ok" THEN last[s] ELSE Raised(last[s]))
  /\ UNCHANGED <<store, idSeq, ctl, process, recLock, disp, outside, told>>

\* POST /api/mcp/task-manage: a command outside any session.  Suspend, resume
\* and clear only take an id; delete also rewrites the send records.
Manage(p) ==
  /\ bridge[p] = "up" /\ idSeq < MaxId
  /\ idSeq' = NextId
  /\ \/ UNCHANGED <<store, faults>>
     \/ /\ recLock = NoOne /\ Readable(p)
        /\ \E w \in WriteOutcomes, i \in Intents : PutRecord(p, i, disk[i], w)
  /\ UNCHANGED <<ctl, history, process, locks, pc, memory, outside, told>>

-----------------------------------------------------------------------------
(* Specification *)

Init ==
  /\ disk = [i \in Intents |-> NoRecord]
  /\ diskFile = "absent" /\ known = {}
  /\ idSeq = 0
  /\ ctl = [i \in Intents |-> NoControl]
  /\ history = [i \in Intents |-> IF i \in Legacy THEN [NoSnap EXCEPT !.there = TRUE]
                                                ELSE NoSnap]
  /\ archived = Legacy
  /\ bridge = [p \in Procs |-> "up"]
  /\ guard = [i \in Intents |-> NoOne] /\ recLock = NoOne
  /\ pc = [s \in Sessions |-> "out"]
  /\ disp = [s \in Sessions |-> Result("none")]
  /\ last = [s \in Sessions |-> NoRequest]
  /\ robot = {}
  /\ wire \in {f \in [Intents -> {0, 1}] : \A i \in Intents \ Legacy : f[i] = 0}
  /\ told = [s \in Sessions |-> FALSE]
  /\ faults = 0

\* The steps a request takes once it has been accepted.
Progress(s) ==
  \/ SaveConfirmed(s) \/ SaveResult(s)
  \/ CheckRecord(s) \/ Gate(s) \/ Reserve(s) \/ Publish(s)
  \/ RecordSent(s) \/ RecordFailed(s)
  \/ ControlDecide(s) \/ ControlNote(s) \/ ControlSend(s) \/ ControlMark(s)
  \/ ControlEnd(s) \/ ControlSave(s)

Next ==
  \/ \E s \in Sessions :
       \/ Confirm(s) \/ Restore(s) \/ DispatchBegin(s) \/ GuardFails(s) \/ Progress(s)
       \/ \E act \in Controls : ControlBegin(s, act)
  \/ \E p \in Procs : Crash(p) \/ Start(p) \/ Manage(p)
  \/ Damage \/ Repair

Spec == Init /\ [][Next]_vars

\* A thread that has the guard keeps running.  It may wait for the record lock, a
\* flock without a timeout, but whoever holds that lock is in its own send section,
\* whose file and socket writes return or raise, and a crash frees both locks.
\* Waiting for the guard itself is before these steps and is not assumed to end.
FairSpec == Spec /\ \A s \in Sessions : WF_vars(Progress(s))

-----------------------------------------------------------------------------
(* Properties *)

\* The invariant the proofs rest on: who is in the send section holds the record
\* lock; who is anywhere in a dispatch or a control request holds the guard of
\* its intent; inside the send section of a dispatch nothing has been sent and
\* the record says SENDING; a dispatch under way has seen no block, and a
\* control request under way has seen no withdrawal.
LocksHeld == \A s \in Sessions :
  /\ pc[s] \in SendingPc => recLock = s
  /\ pc[s] \in DispatchPc \cup ControlPc => guard[Target[s]] = s
SendSection == \A s \in Sessions :
  Target[s] \notin Legacy =>
    /\ pc[s] \in SendingPc => disk[Target[s]].st = "SENDING"
    /\ pc[s] \in {"sending", "failed"} => wire[Target[s]] = 0
GuardedControl == \A s \in Sessions :
  /\ pc[s] \in DispatchPc => ~ctl[Target[s]].blocked
  /\ pc[s] \in ControlPc \ {"ctlSave"} => ~Cancelled(Target[s])
SectionsExclusive == LocksHeld /\ SendSection /\ GuardedControl

\* bridge_service.dispatch_intent: "at most once per intent identity".  Over
\* crashes at any step, failed writes and retries from any session, an intent
\* archived with records is handed to the socket at most once.
AtMostOnce == \A i \in Intents \ Legacy : wire[i] <= 1

\* While an intent may have reached ROS, its durable record says so (SENDING or
\* SENT): neither a failed write nor a crash may leave evidence that invites a
\* retry (NONE or FAILED).
EvidenceKept == \A i \in Intents \ Legacy :
                  wire[i] > 0 => disk[i].st \in {"SENDING", "SENT"}

\* execution_dispatch_contract.md: a withdrawn unsent task can never be sent,
\* "从旧历史或另一会话也不能继续下发", and nothing lifts the withdrawal.
WithdrawalIsFinal ==
  [][\A i \in Intents : Cancelled(i) => Cancelled(i)' /\ wire'[i] = wire[i]]_vars

\* The reply of the withdrawal ("尚未发送的任务已取消下发，之后不会执行该任务") is
\* true: when the durable record says not_sent_cancelled, nothing was sent.
WithdrawnMeansUnsent == \A i \in Intents : Cancelled(i) => wire[i] = 0

\* A session shows SENT only for an intent that was handed over, with the id
\* its durable record carries; also after restoring an old history.
SentIsTrue == \A s \in Sessions :
  disp[s].st = "SENT" => wire[Target[s]] > 0 /\ disp[s].id = disk[Target[s]].id

\* "A failed transport attempt keeps the same ROS task ID": once assigned, the
\* id of an intent never changes, so the robot can never see it under two ids.
IdIsStable ==
  [][\A i \in Intents : disk[i].id # 0 => disk'[i].id = disk[i].id]_vars

\* Two intents never share a ROS task id, whatever write of the counter or of
\* the records fails and whichever process reserved it.
IdsUnique == \A i, j \in Intents :
               disk[i].id # 0 /\ disk[i].id = disk[j].id => i = j

\* A control command reported as failed was not transmitted
\* (execution_control.py: "控制指令未能发送").
FailedMeansUntold == \A s \in Sessions :
  pc[s] = "save" /\ last[s].out = "failed" => ~told[s]

\* "Unknown delivery with no reliable ROS task ID cannot be turned into [...] a
\* fabricated cancellation" (execution_control.py): a legacy task whose delivery
\* is unknown is never recorded as certainly unsent without new evidence.
UnknownIsNotFabricated ==
  \A i \in Legacy : ctl[i].req.out \notin {"not_sent_cancelled", "not_sent_paused"}

\* execution_dispatch_contract.md: for history without send evidence, UNKNOWN
\* ("没有接收证据时不重发") is only resolved by records or receipt evidence.
LegacyNeverResent == [][\A i \in Legacy : wire'[i] = wire[i]]_vars

\* A guard that was taken is released: no request keeps an intent locked.
GuardReleased == \A i \in Intents : guard[i] # NoOne ~> guard[i] = NoOne

\* TaskDispatch implements SendOnce: whatever the sessions, the processes and the
\* faults do, an outside observer of the socket and of the control records sees
\* intents handed over at most once, and never after a withdrawal.
Withdrawn == {i \in Intents : Cancelled(i)}
Abstract == INSTANCE SendOnce WITH sends <- wire, withdrawn <- Withdrawn
RefinesSendOnce == Abstract!Spec
=============================================================================
