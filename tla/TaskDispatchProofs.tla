------------------------- MODULE TaskDispatchProofs -------------------------
(***************************************************************************)
(* Type correctness, at most one send per intent, true and final           *)
(* withdrawals, and the refinement of SendOnce, for any sessions,          *)
(* processes and intents and any bounds.                                   *)
(*                                                                         *)
(* The inductive invariant is TypeOK /\ Inv: what has reached the socket   *)
(* is safe because the record is SENDING throughout the send section, and  *)
(* the section is exclusive because whoever is in it holds the record lock.*)
(***************************************************************************)
EXTENDS TaskDispatch, TLAPS

-----------------------------------------------------------------------------
(* The values actions assign are of the declared types. *)

LEMMA DispTypes ==
  /\ \A st \in DispState : Result(st) \in Disp
  /\ \A st \in DispState, id \in 0..MaxId : WithId(st, id) \in Disp
  /\ Held \in Disp /\ LegacyUnknown \in Disp
  /\ \A d \in Disp : d.st \in DispState /\ d.id \in 0..MaxId
<1> USE DispatchAssumption DEF Disp
<1>1. \A st \in DispState : Result(st) \in Disp
  BY DEF Result
<1>2. \A st \in DispState, id \in 0..MaxId : WithId(st, id) \in Disp
  BY DEF WithId
<1>3. Held \in Disp /\ LegacyUnknown \in Disp
  BY DEF Held, LegacyUnknown, DispState
<1>4. \A d \in Disp : d.st \in DispState /\ d.id \in 0..MaxId
  OBVIOUS
<1>5. QED
  BY <1>1, <1>2, <1>3, <1>4

LEMMA RecordTypes ==
  /\ NoRecord \in Record
  /\ \A r \in Record : /\ r.id \in 0..MaxId
                       /\ [r EXCEPT !.st = "SENT"] \in Record
                       /\ [r EXCEPT !.st = "FAILED"] \in Record
  /\ \A id \in 0..MaxId : [st |-> "SENDING", id |-> id] \in Record
BY DispatchAssumption DEF Record, NoRecord, RecordState

LEMMA RequestTypes ==
  /\ NoRequest \in Request
  /\ \A q \in Request : q.act \in Actions \cup {"none"} /\ q.id \in 0..MaxId
  /\ \A q \in Request, out \in Outcomes : [q EXCEPT !.out = out] \in Request
  /\ \A act \in Actions \cup {"none"}, out \in Outcomes, id \in 0..MaxId :
       [act |-> act, out |-> out, id |-> id] \in Request
  /\ \A q \in Request, act \in Actions \cup {"none"}, id \in 0..MaxId :
       [act |-> act, id |-> id, out |-> q.out] \in Request
BY DispatchAssumption DEF Request, NoRequest, Actions, Outcomes

LEMMA RaisedType == ASSUME NEW q \in Request PROVE Raised(q) \in Request
BY RequestTypes DEF Raised, Outcomes

LEMMA ControlTypes ==
  /\ NoControl \in Control
  /\ \A b \in BOOLEAN, q \in Request : [blocked |-> b, req |-> q] \in Control
  /\ \A c \in Control : c.req \in Request /\ c.blocked \in BOOLEAN
BY RequestTypes DEF Control, NoControl

LEMMA SnapshotTypes ==
  /\ NoSnap \in Snapshot
  /\ [NoSnap EXCEPT !.there = TRUE] \in Snapshot
  /\ \A x \in Snapshot : x.disp \in Disp /\ x.last \in Request
  /\ \A d \in Disp, q \in Request : [there |-> TRUE, disp |-> d, last |-> q] \in Snapshot
<1>1. Result("none") \in Disp /\ NoRequest \in Request
  BY DispTypes, RequestTypes DEF DispState
<1>2. NoSnap \in Snapshot
  BY <1>1 DEF Snapshot, NoSnap
<1>3. [NoSnap EXCEPT !.there = TRUE] \in Snapshot
  BY <1>1 DEF Snapshot, NoSnap
<1>4. \A x \in Snapshot : x.disp \in Disp /\ x.last \in Request
  BY DEF Snapshot
<1>5. \A d \in Disp, q \in Request : [there |-> TRUE, disp |-> d, last |-> q] \in Snapshot
  BY DEF Snapshot
<1>6. QED
  BY <1>2, <1>3, <1>4, <1>5

-----------------------------------------------------------------------------
(* What the helpers of the actions preserve. *)

LEMMA CostsType == ASSUME TypeOK, NEW w, Costs(w) PROVE faults' \in 0..MaxFaults
BY DispatchAssumption DEF TypeOK, Costs

LEMMA PutRecordType ==
  ASSUME TypeOK, NEW p \in Procs, NEW i \in Intents, NEW r \in Record, NEW w,
         PutRecord(p, i, r, w)
  PROVE  /\ disk' \in [Intents -> Record]
         /\ diskFile' \in {"absent", "ok", "corrupt"}
         /\ known' \subseteq Procs
         /\ faults' \in 0..MaxFaults
<1>1. disk' \in [Intents -> Record]
  BY DEF TypeOK, PutRecord
<1>2. diskFile' \in {"absent", "ok", "corrupt"} /\ known' \subseteq Procs
  BY DEF TypeOK, PutRecord
<1>3. faults' \in 0..MaxFaults
  BY CostsType DEF PutRecord
<1>4. QED
  BY <1>1, <1>2, <1>3

LEMMA PutControlType ==
  ASSUME TypeOK, NEW i \in Intents, NEW c \in Control, NEW w, PutControl(i, c, w)
  PROVE  ctl' \in [Intents -> Control] /\ faults' \in 0..MaxFaults
<1>1. ctl' \in [Intents -> Control]
  BY DEF TypeOK, PutControl
<1>2. faults' \in 0..MaxFaults
  BY CostsType DEF PutControl
<1>3. QED
  BY <1>1, <1>2

LEMMA SaveHistoryType ==
  ASSUME TypeOK, NEW s \in Sessions, NEW w, SaveHistory(s, w)
  PROVE  history' \in [Intents -> Snapshot] /\ faults' \in 0..MaxFaults
<1>1. disp[s] \in Disp /\ last[s] \in Request
  BY DEF TypeOK
<1>2. SnapshotOf(s) \in Snapshot
  BY <1>1 DEF SnapshotOf, Snapshot
<1>3. history' \in [Intents -> Snapshot]
  BY <1>2 DEF TypeOK, SaveHistory
<1>4. faults' \in 0..MaxFaults
  BY CostsType DEF SaveHistory
<1>5. QED
  BY <1>3, <1>4

LEMMA GotoType ==
  ASSUME TypeOK, NEW s, NEW l \in PcState, Goto(s, l)
  PROVE  pc' \in [Sessions -> PcState]
BY DEF TypeOK, Goto

LEMMA FinishType ==
  ASSUME TypeOK, NEW s \in Sessions, NEW d \in Disp, Finish(s, d)
  PROVE  /\ disp' \in [Sessions -> Disp]
         /\ guard' \in [Intents -> Sessions \cup {NoOne}]
         /\ pc' \in [Sessions -> PcState]
<1>1. disp' \in [Sessions -> Disp]
  BY DEF TypeOK, Finish
<1>2. guard' \in [Intents -> Sessions \cup {NoOne}]
  BY DEF TypeOK, Finish
<1>3. pc' \in [Sessions -> PcState]
  BY GotoType DEF Finish, PcState
<1>4. QED
  BY <1>1, <1>2, <1>3

LEMMA EndControlType ==
  ASSUME TypeOK, NEW s \in Sessions, NEW q \in Request, EndControl(s, q)
  PROVE  /\ last' \in [Sessions -> Request]
         /\ guard' \in [Intents -> Sessions \cup {NoOne}]
         /\ pc' \in [Sessions -> PcState]
<1>1. last' \in [Sessions -> Request]
  BY DEF TypeOK, EndControl
<1>2. guard' \in [Intents -> Sessions \cup {NoOne}]
  BY DEF TypeOK, EndControl
<1>3. pc' \in [Sessions -> PcState]
  BY GotoType DEF EndControl, PcState
<1>4. QED
  BY <1>1, <1>2, <1>3

\* The components of the state a session works on.
LEMMA SessionTypes ==
  ASSUME TypeOK, NEW s \in Sessions
  PROVE  /\ Host[s] \in Procs /\ Target[s] \in Intents
         /\ disk[Target[s]] \in Record
         /\ ctl[Target[s]] \in Control
         /\ history[Target[s]] \in Snapshot
         /\ disp[s] \in Disp /\ last[s] \in Request
BY DispatchAssumption DEF TypeOK

-----------------------------------------------------------------------------
(* Typing of every variable: the base of all other proofs. *)

LEMMA TypeInit == Init => TypeOK
<1> SUFFICES ASSUME Init PROVE TypeOK
  OBVIOUS
<1> USE DispatchAssumption DEF Init
<1>1. disk \in [Intents -> Record] /\ ctl \in [Intents -> Control]
  BY RecordTypes, ControlTypes
<1>2. history \in [Intents -> Snapshot]
  BY SnapshotTypes
<1>3. disp \in [Sessions -> Disp] /\ last \in [Sessions -> Request]
  BY DispTypes, RequestTypes DEF DispState
<1>4. pc \in [Sessions -> PcState]
  BY DEF PcState
<1>5. wire \in [Intents -> Nat]
  OBVIOUS
<1>6. /\ archived \subseteq Intents /\ known \subseteq Procs /\ robot \subseteq 0..MaxId
      /\ diskFile \in {"absent", "ok", "corrupt"}
      /\ bridge \in [Procs -> {"down", "none", "up"}]
  OBVIOUS
<1>7. /\ guard \in [Intents -> Sessions \cup {NoOne}] /\ recLock \in Sessions \cup {NoOne}
      /\ told \in [Sessions -> BOOLEAN]
  OBVIOUS
<1>8. idSeq \in 0..MaxId /\ faults \in 0..MaxFaults
  OBVIOUS
<1>9. QED
  BY <1>1, <1>2, <1>3, <1>4, <1>5, <1>6, <1>7, <1>8 DEF TypeOK

LEMMA ConfirmType == ASSUME TypeOK, NEW s \in Sessions, Confirm(s) PROVE TypeOK'
<1>1. archived' \subseteq Intents
  BY SessionTypes DEF Confirm, TypeOK
<1>2. disp' \in [Sessions -> Disp] /\ last' \in [Sessions -> Request]
  BY DispTypes, RequestTypes DEF Confirm, DispState, TypeOK
<1>3. pc' \in [Sessions -> PcState]
  BY GotoType DEF Confirm, PcState
<1>4. QED
  BY <1>1, <1>2, <1>3 DEF Confirm, TypeOK, store, locks, outside

LEMMA SaveType ==
  ASSUME TypeOK, NEW s \in Sessions, SaveConfirmed(s) \/ SaveResult(s) PROVE TypeOK'
<1>1. history' \in [Intents -> Snapshot] /\ faults' \in 0..MaxFaults
  BY SaveHistoryType DEF SaveConfirmed, SaveResult
<1>2. pc' \in [Sessions -> PcState]
  BY GotoType DEF SaveConfirmed, SaveResult, PcState
<1>3. told' \in [Sessions -> BOOLEAN]
  BY DEF SaveConfirmed, SaveResult, TypeOK
<1>4. QED
  BY <1>1, <1>2, <1>3
   DEF SaveConfirmed, SaveResult, TypeOK, store, process, locks, memory, outside

LEMMA GuardFailsType == ASSUME TypeOK, NEW s \in Sessions, GuardFails(s) PROVE TypeOK'
<1>1. Result("FAILED") \in Disp
  BY DispTypes DEF DispState
<1>2. \A act \in Controls : [act |-> act, out |-> "failed", id |-> 0] \in Request
  BY DispatchAssumption DEF Request, Outcomes, Actions
<1>3. disp' \in [Sessions -> Disp] /\ last' \in [Sessions -> Request]
  BY <1>1, <1>2 DEF GuardFails, TypeOK
<1>4. pc' \in [Sessions -> PcState]
  BY GotoType DEF GuardFails, PcState
<1>5. faults' \in 0..MaxFaults
  BY DispatchAssumption DEF GuardFails, TypeOK
<1>6. QED
  BY <1>3, <1>4, <1>5 DEF GuardFails, TypeOK, store, process, locks, outside

LEMMA RestoreType == ASSUME TypeOK, NEW s \in Sessions, Restore(s) PROVE TypeOK'
<1> DEFINE snap == history[Target[s]]
<1>1. snap.disp \in Disp /\ snap.last \in Request
  BY SessionTypes, SnapshotTypes
<1>2. disp' \in [Sessions -> Disp]
  BY <1>1, DispTypes DEF Restore, TypeOK
<1>3. last' \in [Sessions -> Request]
  BY <1>1 DEF Restore, TypeOK
<1>4. pc' \in [Sessions -> PcState]
  BY GotoType DEF Restore, PcState
<1>5. QED
  BY <1>2, <1>3, <1>4 DEF Restore, TypeOK, store, process, locks, outside

LEMMA CrashType == ASSUME TypeOK, NEW p \in Procs, Crash(p) PROVE TypeOK'
<1>1. bridge' \in [Procs -> {"down", "none", "up"}] /\ known' \subseteq Procs
  BY DEF Crash, TypeOK
<1>2. pc' \in [Sessions -> PcState] /\ told' \in [Sessions -> BOOLEAN]
  BY DEF Crash, TypeOK, PcState
<1>3. guard' \in [Intents -> Sessions \cup {NoOne}]
  BY DEF Crash, TypeOK
<1>4. recLock' \in Sessions \cup {NoOne}
  BY DEF Crash, TypeOK
<1>5. disp' \in [Sessions -> Disp]
  BY DispTypes DEF Crash, TypeOK, DispState
<1>6. last' \in [Sessions -> Request]
  BY RequestTypes DEF Crash, TypeOK
<1>7. faults' \in 0..MaxFaults
  BY DispatchAssumption DEF Crash, TypeOK
<1>8. QED
  BY <1>1, <1>2, <1>3, <1>4, <1>5, <1>6, <1>7 DEF Crash, TypeOK, outside

LEMMA EnvironmentType ==
  ASSUME TypeOK, (\E p \in Procs : Start(p)) \/ Damage \/ Repair PROVE TypeOK'
<1>1. CASE \E p \in Procs : Start(p)
  <2>1. bridge' \in [Procs -> {"down", "none", "up"}]
    BY <1>1 DEF Start, TypeOK
  <2>2. QED
    BY <1>1, <2>1 DEF Start, TypeOK, store, locks, memory, outside
<1>2. CASE Damage \/ Repair
  <2>1. faults' \in 0..MaxFaults
    BY <1>2, DispatchAssumption DEF Damage, Repair, TypeOK
  <2>2. QED
    BY <1>2, <2>1 DEF Damage, Repair, TypeOK, process, locks, memory, outside
<1>3. QED
  BY <1>1, <1>2

LEMMA DispatchBeginType ==
  ASSUME TypeOK, NEW s \in Sessions, DispatchBegin(s) PROVE TypeOK'
<1> DEFINE i == Target[s]
           resumed == [ctl[i].req EXCEPT !.out = "resumed"]
<1>1. ctl[i].req \in Request /\ resumed \in Request
  BY SessionTypes, ControlTypes, RequestTypes DEF Outcomes
<1>2. [blocked |-> FALSE, req |-> resumed] \in Control
  BY <1>1, ControlTypes
<1>3. Held \in Disp /\ Result("FAILED") \in Disp
  BY DispTypes DEF DispState
<1>4. i \in Intents
  BY SessionTypes
<1>5. guard' \in [Intents -> Sessions \cup {NoOne}] /\ pc' \in [Sessions -> PcState]
  <2>1. CASE \E d \in Disp : Finish(s, d)
    BY <2>1, FinishType
  <2>2. CASE guard' = [guard EXCEPT ![i] = s] /\ Goto(s, "recordCheck")
    <3>1. pc' \in [Sessions -> PcState]
      BY <2>2, GotoType DEF PcState, DispatchPc
    <3>2. QED
      BY <2>2, <3>1 DEF TypeOK
  <2>3. QED
    BY <2>1, <2>2, <1>3 DEF DispatchBegin
<1>6. disp' \in [Sessions -> Disp]
  BY <1>3, FinishType DEF DispatchBegin, memory, TypeOK
<1>7. last' \in [Sessions -> Request]
  BY <1>1 DEF DispatchBegin, memory, TypeOK
<1>8. ctl' \in [Intents -> Control] /\ faults' \in 0..MaxFaults
  BY <1>2, <1>4, PutControlType DEF DispatchBegin, TypeOK
<1>9. QED
  BY <1>5, <1>6, <1>7, <1>8 DEF DispatchBegin, TypeOK, store, process, outside

LEMMA CheckRecordType ==
  ASSUME TypeOK, NEW s \in Sessions, CheckRecord(s) PROVE TypeOK'
<1> DEFINE i == Target[s]
           r == disk[i]
           p == Host[s]
<1>1. /\ [r EXCEPT !.st = "SENT"] \in Record /\ i \in Intents /\ p \in Procs
      /\ r.id \in 0..MaxId
  BY SessionTypes, RecordTypes
<1>2. /\ Result("FAILED") \in Disp /\ WithId("SENT", r.id) \in Disp
      /\ WithId("UNKNOWN", r.id) \in Disp /\ LegacyUnknown \in Disp
  BY <1>1, DispTypes DEF DispState
<1>3. /\ disk' \in [Intents -> Record]
      /\ diskFile' \in {"absent", "ok", "corrupt"}
      /\ known' \subseteq Procs /\ faults' \in 0..MaxFaults
  <2>1. CASE \E w \in WriteOutcomes : PutRecord(p, i, [r EXCEPT !.st = "SENT"], w)
    BY <2>1, <1>1, PutRecordType
  <2>2. CASE UNCHANGED <<store, faults>>
    BY <2>2 DEF store, TypeOK
  <2>3. QED
    BY <2>1, <2>2 DEF CheckRecord
<1>4. /\ disp' \in [Sessions -> Disp]
      /\ guard' \in [Intents -> Sessions \cup {NoOne}]
      /\ pc' \in [Sessions -> PcState]
  <2>1. CASE \E d \in Disp : Finish(s, d)
    BY <2>1, FinishType
  <2>2. CASE Goto(s, "gate") /\ UNCHANGED <<guard, disp>>
    <3>1. pc' \in [Sessions -> PcState]
      BY <2>2, GotoType DEF PcState, DispatchPc
    <3>2. QED
      BY <2>2, <3>1 DEF TypeOK
  <2>3. QED
    BY <2>1, <2>2, <1>2 DEF CheckRecord
<1>5. QED
  BY <1>3, <1>4 DEF CheckRecord, TypeOK, process, outside

LEMMA GateType == ASSUME TypeOK, NEW s \in Sessions, Gate(s) PROVE TypeOK'
<1>1. CASE \E st \in {"SCHEDULED", "BLOCKED", "FAILED"} : Finish(s, Result(st))
  <2>1. PICK st \in {"SCHEDULED", "BLOCKED", "FAILED"} : Finish(s, Result(st))
    BY <1>1
  <2>2. Result(st) \in Disp
    BY DispTypes DEF DispState
  <2>3. QED
    BY <2>1, <2>2, FinishType DEF Gate, TypeOK, store, process, outside
<1>2. CASE Goto(s, "ready") /\ UNCHANGED <<guard, disp>>
  <2>1. pc' \in [Sessions -> PcState]
    BY <1>2, GotoType DEF PcState, DispatchPc
  <2>2. QED
    BY <1>2, <2>1 DEF Gate, TypeOK, store, process, outside
<1>3. QED
  BY <1>1, <1>2 DEF Gate

LEMMA ReserveType == ASSUME TypeOK, NEW s \in Sessions, Reserve(s) PROVE TypeOK'
<1> DEFINE i == Target[s]
           p == Host[s]
           id == IF NeedsId(i) THEN NextId ELSE disk[i].id
           r == [st |-> "SENDING", id |-> id]
<1>1. i \in Intents /\ p \in Procs /\ disk[i].id \in 0..MaxId /\ idSeq \in 0..MaxId
  BY SessionTypes, RecordTypes DEF TypeOK
<1>2. Result("FAILED") \in Disp
  BY DispTypes DEF DispState
<1>3. /\ disp' \in [Sessions -> Disp]
      /\ guard' \in [Intents -> Sessions \cup {NoOne}]
      /\ pc' \in [Sessions -> PcState]
  <2>1. CASE Finish(s, Result("FAILED"))
    BY <2>1, <1>2, FinishType
  <2>2. CASE Goto(s, "sending") /\ UNCHANGED <<guard, disp>>
    <3>1. pc' \in [Sessions -> PcState]
      BY <2>2, GotoType DEF PcState, DispatchPc
    <3>2. QED
      BY <2>2, <3>1 DEF TypeOK
  <2>3. QED
    BY <2>1, <2>2 DEF Reserve
<1>4. recLock' \in Sessions \cup {NoOne}
  BY DEF Reserve, TypeOK
<1>5. idSeq' \in 0..MaxId
  BY <1>1, DispatchAssumption DEF Reserve, NeedsId, NextId
<1>6. /\ disk' \in [Intents -> Record]
      /\ diskFile' \in {"absent", "ok", "corrupt"}
      /\ known' \subseteq Procs /\ faults' \in 0..MaxFaults
  <2>1. CASE UNCHANGED <<store, faults>>
    BY <2>1 DEF store, TypeOK
  <2>2. CASE UNCHANGED store /\ \E w \in {"lost", "kept"} : Costs(w)
    BY <2>2, CostsType DEF store, TypeOK
  <2>3. CASE id <= MaxId /\ \E w \in WriteOutcomes : PutRecord(p, i, r, w)
    <3>1. id \in 0..MaxId
      BY <2>3, <1>1, DispatchAssumption DEF NextId
    <3>2. r \in Record
      BY <3>1, RecordTypes
    <3>3. QED
      BY <3>2, <2>3, <1>1, PutRecordType
  <2>4. QED
    BY <2>1, <2>2, <2>3 DEF Reserve
<1>7. QED
  BY <1>3, <1>4, <1>5, <1>6 DEF Reserve, TypeOK, process, outside

LEMMA PublishType == ASSUME TypeOK, NEW s \in Sessions, Publish(s) PROVE TypeOK'
<1> DEFINE i == Target[s]
<1>1. i \in Intents /\ disk[i].id \in 0..MaxId /\ WithId("UNKNOWN", disk[i].id) \in Disp
  BY SessionTypes, RecordTypes, DispTypes DEF DispState
<1>2. /\ disp' \in [Sessions -> Disp]
      /\ guard' \in [Intents -> Sessions \cup {NoOne}]
      /\ pc' \in [Sessions -> PcState]
  <2>1. CASE Finish(s, WithId("UNKNOWN", disk[i].id))
    BY <2>1, <1>1, FinishType
  <2>2. CASE (Goto(s, "failed") \/ Goto(s, "sent")) /\ UNCHANGED <<disp, guard>>
    <3>1. pc' \in [Sessions -> PcState]
      BY <2>2, GotoType DEF PcState, DispatchPc
    <3>2. QED
      BY <2>2, <3>1 DEF TypeOK
  <2>3. QED
    BY <2>1, <2>2 DEF Publish, locks
<1>3. wire' \in [Intents -> Nat] /\ recLock' \in Sessions \cup {NoOne}
  BY DEF Publish, TypeOK, locks
<1>4. robot' \subseteq 0..MaxId
  BY <1>1 DEF Publish, TypeOK
<1>5. QED
  BY <1>2, <1>3, <1>4 DEF Publish, TypeOK, store, process

LEMMA RecordSentType == ASSUME TypeOK, NEW s \in Sessions, RecordSent(s) PROVE TypeOK'
<1> DEFINE i == Target[s]
<1>1. /\ i \in Intents /\ Host[s] \in Procs
      /\ [disk[i] EXCEPT !.st = "SENT"] \in Record
      /\ WithId("SENT", disk[i].id) \in Disp
      /\ WithId("UNKNOWN", disk[i].id) \in Disp
  BY SessionTypes, RecordTypes, DispTypes DEF DispState
<1>2. PICK w \in WriteOutcomes :
        /\ PutRecord(Host[s], i, [disk[i] EXCEPT !.st = "SENT"], w)
        /\ Finish(s, WithId(IF w = "ok" THEN "SENT" ELSE "UNKNOWN", disk[i].id))
  BY DEF RecordSent
<1>3. WithId(IF w = "ok" THEN "SENT" ELSE "UNKNOWN", disk[i].id) \in Disp
  BY <1>1
<1>4. /\ disp' \in [Sessions -> Disp]
      /\ guard' \in [Intents -> Sessions \cup {NoOne}]
      /\ pc' \in [Sessions -> PcState]
  BY <1>2, <1>3, FinishType
<1>5. /\ disk' \in [Intents -> Record]
      /\ diskFile' \in {"absent", "ok", "corrupt"}
      /\ known' \subseteq Procs /\ faults' \in 0..MaxFaults
  BY <1>1, <1>2, PutRecordType
<1>6. QED
  BY <1>4, <1>5 DEF RecordSent, TypeOK, process, outside

LEMMA RecordFailedType ==
  ASSUME TypeOK, NEW s \in Sessions, RecordFailed(s) PROVE TypeOK'
<1> DEFINE i == Target[s]
<1>1. /\ i \in Intents /\ Host[s] \in Procs
      /\ [disk[i] EXCEPT !.st = "FAILED"] \in Record
      /\ Result("FAILED") \in Disp
  BY SessionTypes, RecordTypes, DispTypes DEF DispState
<1>2. /\ disp' \in [Sessions -> Disp]
      /\ guard' \in [Intents -> Sessions \cup {NoOne}]
      /\ pc' \in [Sessions -> PcState]
  BY <1>1, FinishType DEF RecordFailed
<1>3. /\ disk' \in [Intents -> Record]
      /\ diskFile' \in {"absent", "ok", "corrupt"}
      /\ known' \subseteq Procs /\ faults' \in 0..MaxFaults
  BY <1>1, PutRecordType DEF RecordFailed
<1>4. QED
  BY <1>2, <1>3 DEF RecordFailed, TypeOK, process, outside

LEMMA ControlBeginType ==
  ASSUME TypeOK, NEW s \in Sessions, NEW act \in Controls, ControlBegin(s, act)
  PROVE  TypeOK'
<1> DEFINE i == Target[s]
           asked == [act |-> act, out |-> "none", id |-> 0]
<1>1. ctl[i].req \in Request /\ asked \in Request /\ Held \in Disp
  <2>1. ctl[i].req \in Request /\ Held \in Disp
    BY SessionTypes, ControlTypes, DispTypes
  <2>2. act \in Actions \cup {"none"} /\ 0 \in 0..MaxId /\ "none" \in Outcomes
    BY DispatchAssumption DEF Actions, Outcomes
  <2>3. QED
    BY <2>1, <2>2, RequestTypes
<1>2. disp' \in [Sessions -> Disp]
  BY <1>1 DEF ControlBegin, TypeOK
<1>3. /\ last' \in [Sessions -> Request]
      /\ guard' \in [Intents -> Sessions \cup {NoOne}]
      /\ pc' \in [Sessions -> PcState]
  <2>1. CASE EndControl(s, ctl[i].req)
    BY <2>1, <1>1, EndControlType
  <2>2. CASE /\ last' = [last EXCEPT ![s] = asked]
             /\ guard' = [guard EXCEPT ![i] = s]
             /\ Goto(s, "ctlRead")
    <3>1. pc' \in [Sessions -> PcState]
      BY <2>2, GotoType DEF PcState, ControlPc
    <3>2. QED
      BY <1>1, <2>2, <3>1 DEF TypeOK
  <2>3. QED
    BY <2>1, <2>2 DEF ControlBegin
<1>4. QED
  BY <1>2, <1>3 DEF ControlBegin, TypeOK, store, process, outside

LEMMA TaskIdType ==
  ASSUME TypeOK, NEW s \in Sessions, NEW r \in Record PROVE TaskIdOf(s, r) \in 0..MaxId
<1>1. r.id \in 0..MaxId /\ disp[s].id \in 0..MaxId
  BY SessionTypes, RecordTypes, DispTypes
<1>2. QED
  BY <1>1, DispatchAssumption DEF TaskIdOf

LEMMA ControlDecideType ==
  ASSUME TypeOK, NEW s \in Sessions, ControlDecide(s) PROVE TypeOK'
<1> DEFINE i == Target[s]
           p == Host[s]
           r == IF bridge[p] = "up" THEN disk[i] ELSE NoRecord
           unsent == DefinitelyUnsent(s, r)
           id == TaskIdOf(s, r)
           act == last[s].act
           req == [act |-> act, id |-> id,
                   out |-> IF unsent THEN Hold(act) ELSE "requested"]
           sent == [r EXCEPT !.st = "SENT"]
           held == [blocked |-> unsent \/ id = 0, req |-> req]
<1>1. /\ i \in Intents /\ p \in Procs /\ r \in Record /\ sent \in Record
      /\ Raised(last[s]) \in Request /\ Held \in Disp
  BY SessionTypes, RecordTypes, RaisedType, DispTypes
<1>2. req \in Request
  <2>1. act \in Actions \cup {"none"} /\ id \in 0..MaxId
    BY <1>1, SessionTypes, RequestTypes, TaskIdType
  <2>2. (IF unsent THEN Hold(act) ELSE "requested") \in Outcomes
    BY DEF Hold, Outcomes
  <2>3. QED
    BY <2>1, <2>2 DEF Request
<1>3. held \in Control
  BY <1>2, ControlTypes
<1>4. /\ disk' \in [Intents -> Record]
      /\ diskFile' \in {"absent", "ok", "corrupt"}
      /\ known' \subseteq Procs
  <2>1. CASE UNCHANGED store
    BY <2>1 DEF store, TypeOK
  <2>2. CASE \E w \in WriteOutcomes : PutRecord(p, i, sent, w)
    BY <2>2, <1>1, PutRecordType
  <2>3. QED
    BY <2>1, <2>2 DEF ControlDecide
<1>5. ctl' \in [Intents -> Control] /\ faults' \in 0..MaxFaults
  <2>1. CASE UNCHANGED <<ctl, faults>>
    BY <2>1 DEF TypeOK
  <2>2. CASE UNCHANGED ctl /\ \E w \in WriteOutcomes : PutRecord(p, i, sent, w)
    BY <2>2, <1>1, PutRecordType DEF TypeOK
  <2>3. CASE \E w \in WriteOutcomes : PutControl(i, held, w)
    BY <2>3, <1>1, <1>3, PutControlType
  <2>4. QED
    BY <2>1, <2>2, <2>3 DEF ControlDecide
<1>6. /\ last' \in [Sessions -> Request]
      /\ guard' \in [Intents -> Sessions \cup {NoOne}]
      /\ pc' \in [Sessions -> PcState]
  <2>1. CASE UNCHANGED <<last, guard, pc>>
    BY <2>1 DEF TypeOK
  <2>2. CASE EndControl(s, Raised(last[s]))
    BY <2>2, <1>1, EndControlType
  <2>3. CASE /\ last' = [last EXCEPT ![s] = req]
             /\ Goto(s, IF unsent THEN "ctlSave" ELSE "ctlNote")
             /\ UNCHANGED guard
    <3>1. pc' \in [Sessions -> PcState]
      BY <2>3, GotoType DEF PcState, ControlPc
    <3>2. QED
      BY <1>2, <2>3, <3>1 DEF TypeOK
  <2>4. QED
    BY <2>1, <2>2, <2>3 DEF ControlDecide
<1>7. disp' \in [Sessions -> Disp]
  BY <1>1 DEF ControlDecide, TypeOK
<1>8. QED
  BY <1>4, <1>5, <1>6, <1>7 DEF ControlDecide, TypeOK, process, outside

LEMMA ControlNoteType ==
  ASSUME TypeOK, NEW s \in Sessions, ControlNote(s) \/ ControlSave(s) PROVE TypeOK'
<1>1. last[s] \in Request /\ Raised(last[s]) \in Request
  BY SessionTypes, RaisedType
<1>2. history' \in [Intents -> Snapshot] /\ faults' \in 0..MaxFaults
  BY SaveHistoryType DEF ControlNote, ControlSave
<1>3. /\ last' \in [Sessions -> Request]
      /\ guard' \in [Intents -> Sessions \cup {NoOne}]
      /\ pc' \in [Sessions -> PcState]
  <2>1. CASE \E q \in Request : EndControl(s, q)
    BY <2>1, EndControlType
  <2>2. CASE Goto(s, "ctlSend") /\ UNCHANGED <<last, guard>>
    <3>1. pc' \in [Sessions -> PcState]
      BY <2>2, GotoType DEF PcState, ControlPc
    <3>2. QED
      BY <2>2, <3>1 DEF TypeOK
  <2>3. QED
    BY <1>1, <2>1, <2>2 DEF ControlNote, ControlSave
<1>4. QED
  BY <1>2, <1>3 DEF ControlNote, ControlSave, TypeOK, store, process, outside

LEMMA ControlSendType ==
  ASSUME TypeOK, NEW s \in Sessions, ControlSend(s) PROVE TypeOK'
<1>1. \A out \in Outcomes : [last[s] EXCEPT !.out = out] \in Request
  BY SessionTypes, RequestTypes
<1>2. last' \in [Sessions -> Request]
  <2>1. CASE UNCHANGED last
    BY <2>1 DEF TypeOK
  <2>2. CASE \E out \in Outcomes : last' = [last EXCEPT ![s].out = out]
    BY <1>1, <2>2 DEF TypeOK
  <2>3. QED
    BY <2>1, <2>2 DEF ControlSend, Outcomes
<1>3. pc' \in [Sessions -> PcState]
  <2>1. "ctlEnd" \in PcState /\ "ctlMark" \in PcState
    BY DEF PcState, ControlPc
  <2>2. QED
    BY <2>1, GotoType DEF ControlSend
<1>4. idSeq' \in 0..MaxId
  BY DispatchAssumption DEF ControlSend, TypeOK, NextId
<1>5. told' \in [Sessions -> BOOLEAN]
  BY DEF ControlSend, TypeOK
<1>6. QED
  BY <1>2, <1>3, <1>4, <1>5 DEF ControlSend, TypeOK, store, process, locks, outside

LEMMA ControlMarkType ==
  ASSUME TypeOK, NEW s \in Sessions, ControlMark(s) PROVE TypeOK'
<1> DEFINE i == Target[s]
           p == Host[s]
<1>1. /\ i \in Intents /\ p \in Procs /\ disk[i] \in Record
      /\ \A out \in Outcomes : [last[s] EXCEPT !.out = out] \in Request
  BY SessionTypes, RequestTypes
<1>2. /\ disk' \in [Intents -> Record]
      /\ diskFile' \in {"absent", "ok", "corrupt"}
      /\ known' \subseteq Procs /\ faults' \in 0..MaxFaults
  <2>1. CASE UNCHANGED <<store, faults>>
    BY <2>1 DEF store, TypeOK
  <2>2. CASE \E w \in WriteOutcomes : PutRecord(p, i, disk[i], w)
    BY <2>2, <1>1, PutRecordType
  <2>3. QED
    BY <2>1, <2>2 DEF ControlMark
<1>3. last' \in [Sessions -> Request]
  <2>1. \E out \in Outcomes : last' = [last EXCEPT ![s].out = out]
    BY DEF ControlMark, Outcomes
  <2>2. QED
    BY <1>1, <2>1 DEF TypeOK
<1>4. pc' \in [Sessions -> PcState]
  BY GotoType DEF ControlMark, PcState, ControlPc
<1>5. QED
  BY <1>2, <1>3, <1>4 DEF ControlMark, TypeOK, process, locks, outside

LEMMA ControlEndType ==
  ASSUME TypeOK, NEW s \in Sessions, ControlEnd(s) PROVE TypeOK'
<1> DEFINE i == Target[s]
           c == [blocked |-> last[s].id = 0, req |-> last[s]]
<1>1. i \in Intents /\ c \in Control /\ Raised(last[s]) \in Request
  BY SessionTypes, ControlTypes, RaisedType
<1>2. ctl' \in [Intents -> Control] /\ faults' \in 0..MaxFaults
  BY <1>1, PutControlType DEF ControlEnd
<1>3. /\ last' \in [Sessions -> Request]
      /\ guard' \in [Intents -> Sessions \cup {NoOne}]
      /\ pc' \in [Sessions -> PcState]
  <2>1. CASE EndControl(s, Raised(last[s]))
    BY <2>1, <1>1, EndControlType
  <2>2. CASE Goto(s, "ctlSave") /\ UNCHANGED <<last, guard>>
    <3>1. pc' \in [Sessions -> PcState]
      BY <2>2, GotoType DEF PcState, ControlPc
    <3>2. QED
      BY <2>2, <3>1 DEF TypeOK
  <2>3. QED
    BY <2>1, <2>2 DEF ControlEnd
<1>4. QED
  BY <1>2, <1>3 DEF ControlEnd, TypeOK, store, process, outside

LEMMA ManageType == ASSUME TypeOK, NEW p \in Procs, Manage(p) PROVE TypeOK'
<1>1. /\ disk' \in [Intents -> Record]
      /\ diskFile' \in {"absent", "ok", "corrupt"}
      /\ known' \subseteq Procs /\ faults' \in 0..MaxFaults
  <2>1. CASE UNCHANGED <<store, faults>>
    BY <2>1 DEF store, TypeOK
  <2>2. CASE \E w \in WriteOutcomes, i \in Intents : PutRecord(p, i, disk[i], w)
    <3>1. PICK w \in WriteOutcomes, i \in Intents : PutRecord(p, i, disk[i], w)
      BY <2>2
    <3>2. disk[i] \in Record
      BY DEF TypeOK
    <3>3. QED
      BY <3>1, <3>2, PutRecordType
  <2>3. QED
    BY <2>1, <2>2 DEF Manage
<1>2. idSeq' \in 0..MaxId
  BY DispatchAssumption DEF Manage, TypeOK, NextId
<1>3. QED
  BY <1>1, <1>2 DEF Manage, TypeOK, process, locks, memory, outside

LEMMA TypeStep == TypeOK /\ [Next]_vars => TypeOK'
<1> SUFFICES ASSUME TypeOK, [Next]_vars PROVE TypeOK'
  OBVIOUS
<1>1. ASSUME NEW s \in Sessions, Progress(s) PROVE TypeOK'
  BY <1>1, SaveType, CheckRecordType, GateType, ReserveType, PublishType, RecordSentType,
     RecordFailedType, ControlDecideType, ControlNoteType, ControlSendType,
     ControlMarkType, ControlEndType DEF Progress
<1>2. ASSUME NEW s \in Sessions,
             \/ Confirm(s) \/ Restore(s) \/ GuardFails(s) \/ DispatchBegin(s)
             \/ \E act \in Controls : ControlBegin(s, act)
      PROVE  TypeOK'
  BY <1>2, ConfirmType, RestoreType, GuardFailsType, DispatchBeginType, ControlBeginType
<1>3. ASSUME NEW p \in Procs, Crash(p) \/ Start(p) \/ Manage(p) PROVE TypeOK'
  BY <1>3, CrashType, EnvironmentType, ManageType
<1>4. CASE Damage \/ Repair
  BY <1>4, EnvironmentType
<1>5. CASE UNCHANGED vars
  BY <1>5 DEF vars, TypeOK
<1>6. QED
  BY <1>1, <1>2, <1>3, <1>4, <1>5 DEF Next

\* Every variable stays in its declared domain, whatever crashes, failed writes
\* and damaged files occur (TypeOK of TaskDispatch).
THEOREM TypeCorrect == Spec => []TypeOK
<1>1. QED
  BY TypeInit, TypeStep, PTL DEF Spec

-----------------------------------------------------------------------------
(* At most one send: exclusion, evidence, and what follows from them. *)

Inv == SectionsExclusive /\ EvidenceKept /\ AtMostOnce

Busy == DispatchPc \cup ControlPc

\* The part of TypeOK the arguments below use.
LEMMA Shape ==
  ASSUME TypeOK
  PROVE  /\ pc \in [Sessions -> PcState]
         /\ guard \in [Intents -> Sessions \cup {NoOne}]
         /\ disk \in [Intents -> Record]
         /\ ctl \in [Intents -> Control]
         /\ wire \in [Intents -> Nat]
         /\ recLock \in Sessions \cup {NoOne}
         /\ NoOne \notin Sessions
         /\ \A s \in Sessions : Target[s] \in Intents
BY DispatchAssumption DEF TypeOK

-----------------------------------------------------------------------------
(* Exclusion *)

\* Who writes records or control records is alone in doing so.
LEMMA OneSender ==
  ASSUME LocksHeld, NEW s \in Sessions, NEW t \in Sessions, t # s,
         recLock \in {s, NoOne}, NoOne \notin Sessions
  PROVE  pc[t] \notin SendingPc
BY DEF LocksHeld

LEMMA OneHolder ==
  ASSUME LocksHeld, NEW s \in Sessions, NEW t \in Sessions, t # s, Target[t] = Target[s],
         guard[Target[s]] \in {s, NoOne}, NoOne \notin Sessions
  PROVE  pc[t] \notin Busy
BY DEF LocksHeld, Busy

\* A step that moves one session, and takes no lock, keeps LocksHeld.
LEMMA KeepLocks ==
  ASSUME TypeOK, LocksHeld, NEW s \in Sessions, NEW l \in PcState, Goto(s, l),
         UNCHANGED <<guard, recLock>>,
         l \in SendingPc => recLock = s,
         l \in Busy => pc[s] \in Busy
  PROVE  LocksHeld'
BY Shape DEF LocksHeld, Goto, Busy

LEMMA DropGuard ==
  ASSUME TypeOK, LocksHeld, NEW s \in Sessions, Goto(s, "save"),
         guard[Target[s]] \in {s, NoOne},
         guard' = [guard EXCEPT ![Target[s]] = NoOne],
         recLock' = recLock \/ (recLock = s /\ recLock' = NoOne)
  PROVE  LocksHeld'
<1>1. \A t \in Sessions : pc'[t] \in SendingPc => t # s /\ recLock' = t
  BY Shape DEF LocksHeld, Goto, SendingPc
<1>2. ASSUME NEW t \in Sessions, pc'[t] \in DispatchPc \cup ControlPc
      PROVE  guard'[Target[t]] = t
  <2>1. t # s /\ pc[t] \in Busy
    BY <1>2, Shape DEF Goto, DispatchPc, ControlPc, Busy
  <2>2. Target[t] # Target[s]
    BY <2>1, Shape, OneHolder
  <2>3. QED
    BY <2>1, <2>2, Shape DEF LocksHeld, Busy
<1>3. QED
  BY <1>1, <1>2 DEF LocksHeld

LEMMA TakeGuard ==
  ASSUME TypeOK, LocksHeld, NEW s \in Sessions, NEW l \in PcState, Goto(s, l),
         l \notin SendingPc, guard[Target[s]] = NoOne,
         guard' = [guard EXCEPT ![Target[s]] = s], UNCHANGED recLock
  PROVE  LocksHeld'
<1>1. ASSUME NEW t \in Sessions, pc'[t] \in DispatchPc \cup ControlPc
      PROVE  guard'[Target[t]] = t
  <2>1. CASE t = s
    BY <2>1, Shape
  <2>2. CASE t # s
    <3>1. pc[t] \in Busy
      BY <1>1, <2>2, Shape DEF Goto, Busy
    <3>2. Target[t] # Target[s]
      BY <2>2, <3>1, Shape, OneHolder
    <3>3. QED
      BY <3>1, <3>2, Shape DEF LocksHeld, Busy
  <2>3. QED
    BY <2>1, <2>2
<1>2. \A t \in Sessions : pc'[t] \in SendingPc => recLock' = t
  BY Shape DEF LocksHeld, Goto
<1>3. QED
  BY <1>1, <1>2 DEF LocksHeld

-----------------------------------------------------------------------------
(* Kinds of step *)

\* The send records after a step: as they were, or rewritten by a step that found
\* the record lock free and kept the evidence.
RecordsKept == /\ UNCHANGED <<wire, recLock>>
               /\ UNCHANGED disk \/ (recLock = NoOne /\ EvidenceKept')

LEMMA KeepRecords ==
  ASSUME TypeOK, Inv, RecordsKept, NEW l, l \notin SendingPc,
         (\E s \in Sessions : Goto(s, l)) \/ UNCHANGED pc
  PROVE  SendSection' /\ EvidenceKept' /\ AtMostOnce'
<1>1. AtMostOnce' /\ EvidenceKept'
  BY DEF Inv, RecordsKept, AtMostOnce, EvidenceKept
<1>2. SendSection'
  <2>1. ASSUME NEW t \in Sessions, pc'[t] \in SendingPc PROVE pc[t] = pc'[t]
    BY <2>1, Shape DEF Goto
  <2>2. CASE UNCHANGED disk
    BY <2>1, <2>2 DEF Inv, SectionsExclusive, SendSection, RecordsKept, SendingPc
  <2>3. CASE recLock = NoOne
    BY <2>1, <2>3, Shape DEF Inv, SectionsExclusive, LocksHeld, SendSection, SendingPc
  <2>4. QED
    BY <2>2, <2>3 DEF RecordsKept
<1>3. QED
  BY <1>1, <1>2

\* A step of one session that leaves the control records alone.
LEMMA QuietStep ==
  ASSUME TypeOK, Inv, RecordsKept, UNCHANGED ctl, NEW s \in Sessions,
         \/ \E l \in PcState \ SendingPc :
              /\ Goto(s, l) /\ UNCHANGED guard
              /\ l \in DispatchPc => pc[s] \in DispatchPc
              /\ l \in ControlPc => pc[s] \in ControlPc \ {"ctlSave"}
         \/ /\ Goto(s, "save") /\ guard[Target[s]] \in {s, NoOne}
            /\ guard' = [guard EXCEPT ![Target[s]] = NoOne]
  PROVE  Inv'
<1>1. PICK l \in PcState \ SendingPc :
        /\ Goto(s, l)
        /\ l \in DispatchPc => pc[s] \in DispatchPc
        /\ l \in ControlPc => pc[s] \in ControlPc \ {"ctlSave"}
        /\ \/ UNCHANGED guard
           \/ /\ l = "save" /\ guard[Target[s]] \in {s, NoOne}
              /\ guard' = [guard EXCEPT ![Target[s]] = NoOne]
  BY DEF PcState, SendingPc, DispatchPc, ControlPc
<1>2. LocksHeld'
  <2>1. LocksHeld /\ UNCHANGED recLock
    BY DEF Inv, SectionsExclusive, RecordsKept
  <2>2. CASE UNCHANGED guard
    BY <1>1, <2>1, <2>2, KeepLocks DEF Busy
  <2>3. CASE /\ l = "save" /\ guard[Target[s]] \in {s, NoOne}
             /\ guard' = [guard EXCEPT ![Target[s]] = NoOne]
    BY <1>1, <2>1, <2>3, DropGuard
  <2>4. QED
    BY <1>1, <2>2, <2>3
<1>3. SendSection' /\ EvidenceKept' /\ AtMostOnce'
  BY <1>1, KeepRecords
<1>4. GuardedControl'
  BY <1>1, Shape DEF Inv, SectionsExclusive, GuardedControl, Goto, Cancelled
<1>5. QED
  BY <1>2, <1>3, <1>4 DEF Inv, SectionsExclusive

\* A step that moves no session and takes no lock.
LEMMA IdleStep ==
  ASSUME TypeOK, Inv, RecordsKept, UNCHANGED <<ctl, guard, pc>>
  PROVE  Inv'
<1>1. SendSection' /\ EvidenceKept' /\ AtMostOnce'
  <2>1. "idle" \notin SendingPc
    BY DEF SendingPc
  <2>2. QED
    BY <2>1, KeepRecords
<1>2. LocksHeld' /\ GuardedControl'
  BY DEF Inv, SectionsExclusive, LocksHeld, GuardedControl, Cancelled, RecordsKept
<1>3. QED
  BY <1>1, <1>2 DEF Inv, SectionsExclusive

-----------------------------------------------------------------------------
(* Every action keeps Inv. *)

\* What the writers of send records keep: a record that must stay SENDING or SENT
\* is only overwritten by SENT or by itself.
LEMMA PutKeepsEvidence ==
  ASSUME TypeOK, EvidenceKept, NEW p, NEW i \in Intents, NEW r, NEW w,
         PutRecord(p, i, r, w), UNCHANGED wire,
         r.st \in {"SENDING", "SENT"} \/ r = disk[i] \/ wire[i] = 0
  PROVE  EvidenceKept'
BY Shape DEF PutRecord, EvidenceKept

LEMMA SessionStep ==
  ASSUME TypeOK, Inv, NEW s \in Sessions,
         Confirm(s) \/ SaveConfirmed(s) \/ SaveResult(s) \/ Restore(s) \/ GuardFails(s)
  PROVE  Inv'
<1>1. RecordsKept /\ UNCHANGED <<ctl, guard>>
  BY DEF Confirm, SaveConfirmed, SaveResult, Restore, GuardFails, RecordsKept, store, locks, outside
<1>2. \E l \in {"confirmed", "auto", "idle", "save"} : Goto(s, l)
  BY DEF Confirm, SaveConfirmed, SaveResult, Restore, GuardFails
<1>3. \A l \in {"confirmed", "auto", "idle", "save"} :
        l \in PcState \ SendingPc /\ l \notin DispatchPc /\ l \notin ControlPc
  BY DEF PcState, SendingPc, DispatchPc, ControlPc
<1>4. QED
  BY <1>1, <1>2, <1>3, QuietStep

LEMMA CrashStep == ASSUME TypeOK, Inv, NEW p \in Procs, Crash(p) PROVE Inv'
<1>1. UNCHANGED <<disk, ctl, wire>>
  BY DEF Crash, outside
<1>2. \A t \in Sessions : pc'[t] = IF Host[t] = p THEN "out" ELSE pc[t]
  BY DEF Crash
<1>3. "out" \notin SendingPc /\ "out" \notin DispatchPc /\ "out" \notin ControlPc
  BY DEF SendingPc, DispatchPc, ControlPc
<1>4. LocksHeld'
  <2>1. ASSUME NEW t \in Sessions, pc'[t] \in SendingPc PROVE recLock' = t
    BY <1>2, <1>3, <2>1 DEF Inv, SectionsExclusive, LocksHeld, Crash
  <2>2. ASSUME NEW t \in Sessions, pc'[t] \in DispatchPc \cup ControlPc
        PROVE  guard'[Target[t]] = t
    <3>1. Host[t] # p /\ guard[Target[t]] = t
      BY <1>2, <1>3, <2>2 DEF Inv, SectionsExclusive, LocksHeld
    <3>2. QED
      BY <3>1, Shape DEF Crash
  <2>3. QED
    BY <2>1, <2>2 DEF LocksHeld
<1>5. SendSection' /\ GuardedControl'
  <2>1. SendSection'
    BY <1>1, <1>2, <1>3 DEF Inv, SectionsExclusive, SendSection, SendingPc
  <2>2. GuardedControl'
    BY <1>1, <1>2, <1>3 DEF Inv, SectionsExclusive, GuardedControl, Cancelled
  <2>3. QED
    BY <2>1, <2>2
<1>6. EvidenceKept' /\ AtMostOnce'
  BY <1>1 DEF Inv, EvidenceKept, AtMostOnce
<1>7. QED
  BY <1>4, <1>5, <1>6 DEF Inv, SectionsExclusive

\* A record write by a process that moves no session and found the lock free.
LEMMA OutsideStep ==
  ASSUME TypeOK, Inv,
         Damage \/ Repair \/ \E p \in Procs : Start(p) \/ Manage(p)
  PROVE  Inv'
<1>1. UNCHANGED <<ctl, guard, pc, wire, recLock>>
  BY DEF Damage, Repair, Start, Manage, locks, outside
<1>2. RecordsKept
  <2>1. CASE UNCHANGED disk
    BY <1>1, <2>1 DEF RecordsKept
  <2>2. CASE /\ recLock = NoOne
             /\ \E p \in Procs, w \in WriteOutcomes, i \in Intents :
                  PutRecord(p, i, disk[i], w)
    BY <1>1, <2>2, PutKeepsEvidence DEF RecordsKept, Inv
  <2>3. QED
    BY <2>1, <2>2 DEF Damage, Repair, Start, Manage, store
<1>3. QED
  BY <1>1, <1>2, IdleStep

LEMMA DispatchBeginStep ==
  ASSUME TypeOK, Inv, NEW s \in Sessions, DispatchBegin(s) PROVE Inv'
<1> DEFINE i == Target[s]
<1>1. RecordsKept /\ guard[i] = NoOne /\ i \in Intents
  BY Shape DEF DispatchBegin, GuardFree, RecordsKept, store, outside
<1>2. LocksHeld'
  <2>1. CASE Goto(s, "recordCheck") /\ guard' = [guard EXCEPT ![i] = s]
    <3>1. "recordCheck" \in PcState /\ "recordCheck" \notin SendingPc
      BY DEF PcState, DispatchPc, SendingPc
    <3>2. QED
      BY <1>1, <2>1, <3>1, TakeGuard DEF Inv, SectionsExclusive, RecordsKept
  <2>2. CASE \E d : Finish(s, d)
    BY <1>1, <2>2, DropGuard DEF Inv, SectionsExclusive, RecordsKept, Finish
  <2>3. QED
    BY <2>1, <2>2 DEF DispatchBegin
<1>3. SendSection' /\ EvidenceKept' /\ AtMostOnce'
  <2>1. \E l \in {"recordCheck", "save"} : Goto(s, l)
    BY DEF DispatchBegin, Finish
  <2>2. QED
    BY <1>1, <2>1, KeepRecords DEF SendingPc
<1>4. GuardedControl'
  <2>1. \A t \in Sessions : t # s => pc'[t] = pc[t]
    BY Shape DEF DispatchBegin, Finish, Goto
  <2>2. ASSUME NEW t \in Sessions, t # s, pc[t] \in Busy PROVE ctl'[Target[t]] = ctl[Target[t]]
    <3>1. Target[t] # i
      BY <1>1, <2>2, Shape, OneHolder DEF Inv, SectionsExclusive
    <3>2. QED
      BY <3>1, Shape DEF DispatchBegin, PutControl
  <2>3. pc'[s] \in DispatchPc => ~ctl'[i].blocked
    BY <1>1, Shape DEF DispatchBegin, PutControl, Finish, Goto, DispatchPc
  <2>4. pc'[s] \notin ControlPc
    BY Shape DEF DispatchBegin, Finish, Goto, ControlPc
  <2>5. QED
    BY <2>1, <2>2, <2>3, <2>4 DEF Inv, SectionsExclusive, GuardedControl, Cancelled, Busy
<1>5. QED
  BY <1>2, <1>3, <1>4 DEF Inv, SectionsExclusive

LEMMA CheckStep ==
  ASSUME TypeOK, Inv, NEW s \in Sessions, CheckRecord(s) \/ Gate(s) PROVE Inv'
<1> DEFINE i == Target[s]
           r == [disk[i] EXCEPT !.st = "SENT"]
<1>1. /\ pc[s] \in DispatchPc /\ guard[i] = s /\ i \in Intents
      /\ UNCHANGED <<ctl, wire, recLock>>
  BY Shape DEF CheckRecord, Gate, outside, DispatchPc, Inv, SectionsExclusive, LocksHeld
<1>2. RecordsKept
  <2>1. CASE UNCHANGED store
    BY <1>1, <2>1 DEF RecordsKept, store
  <2>2. CASE recLock = NoOne /\ \E w \in WriteOutcomes : PutRecord(Host[s], i, r, w)
    <3>1. r.st = "SENT"
      BY <1>1, Shape DEF Record
    <3>2. QED
      BY <1>1, <2>2, <3>1, PutKeepsEvidence DEF RecordsKept, Inv
  <2>3. QED
    BY <2>1, <2>2 DEF CheckRecord, Gate
<1>3. \/ \E l \in {"gate", "ready"} : Goto(s, l) /\ UNCHANGED guard
      \/ Goto(s, "save") /\ guard' = [guard EXCEPT ![i] = NoOne]
  BY DEF CheckRecord, Gate, Finish
<1>4. \A l \in {"gate", "ready"} : l \in PcState \ SendingPc /\ l \notin ControlPc
  BY DEF PcState, DispatchPc, SendingPc, ControlPc
<1>5. QED
  BY <1>1, <1>2, <1>3, <1>4, QuietStep

LEMMA ReserveStep == ASSUME TypeOK, Inv, NEW s \in Sessions, Reserve(s) PROVE Inv'
<1> DEFINE i == Target[s]
           id == IF NeedsId(i) THEN NextId ELSE disk[i].id
           r == [st |-> "SENDING", id |-> id]
<1>1. /\ pc[s] = "ready" /\ recLock = NoOne /\ i \in Intents /\ UNCHANGED <<ctl, wire>>
      /\ guard[i] = s
  BY Shape DEF Reserve, outside, DispatchPc, Inv, SectionsExclusive, LocksHeld
<1>2. UNCHANGED disk \/ \E w \in WriteOutcomes : PutRecord(Host[s], i, r, w)
  BY DEF Reserve, store
<1>3. EvidenceKept'
  <2>1. CASE UNCHANGED disk
    BY <1>1, <2>1 DEF Inv, EvidenceKept
  <2>2. CASE \E w \in WriteOutcomes : PutRecord(Host[s], i, r, w)
    BY <1>1, <2>2, PutKeepsEvidence DEF Inv
  <2>3. QED
    BY <1>2, <2>1, <2>2
<1>4. CASE Finish(s, Result("FAILED")) /\ UNCHANGED recLock
  BY <1>1, <1>3, <1>4, QuietStep DEF Finish, RecordsKept
<1>5. CASE /\ disk[i].st \in {"NONE", "FAILED"} /\ PutRecord(Host[s], i, r, "ok")
           /\ recLock' = s /\ Goto(s, "sending") /\ UNCHANGED guard
  <2>1. \A t \in Sessions : t # s => pc'[t] = pc[t] /\ pc[t] \notin SendingPc
    BY <1>1, <1>5, Shape, OneSender DEF Goto, Inv, SectionsExclusive
  <2>2. pc'[s] = "sending"
    BY <1>5, Shape DEF Goto
  <2>3. LocksHeld'
    BY <1>1, <1>5, <2>1, <2>2 DEF Inv, SectionsExclusive, LocksHeld
  <2>4. SendSection'
    <3>1. disk'[i].st = "SENDING"
      BY <1>1, <1>5, Shape DEF PutRecord
    <3>2. i \notin Legacy => wire'[i] = 0
      BY <1>1, <1>5, Shape DEF Inv, EvidenceKept
    <3>3. QED
      BY <2>1, <2>2, <3>1, <3>2 DEF SendSection, SendingPc
  <2>5. GuardedControl'
    <3>1. "sending" \notin ControlPc /\ "ready" \in DispatchPc
      BY DEF ControlPc, DispatchPc
    <3>2. QED
      BY <1>1, <2>1, <2>2, <3>1 DEF Inv, SectionsExclusive, GuardedControl, Cancelled
  <2>6. AtMostOnce'
    BY <1>1 DEF Inv, AtMostOnce
  <2>7. QED
    BY <1>3, <2>3, <2>4, <2>5, <2>6 DEF Inv, SectionsExclusive
<1>6. QED
  BY <1>4, <1>5 DEF Reserve, WriteOutcomes

LEMMA PublishStep == ASSUME TypeOK, Inv, NEW s \in Sessions, Publish(s) PROVE Inv'
<1> DEFINE i == Target[s]
<1>1. /\ pc[s] = "sending" /\ i \in Intents /\ UNCHANGED <<ctl, disk>>
      /\ recLock = s /\ guard[i] = s
      /\ i \notin Legacy => disk[i].st = "SENDING" /\ wire[i] = 0
  BY Shape
   DEF Publish, store, DispatchPc, SendingPc, Inv, SectionsExclusive, LocksHeld, SendSection
<1>2. UNCHANGED wire \/ wire' = [wire EXCEPT ![i] = @ + 1]
  BY DEF Publish
<1>3. EvidenceKept' /\ AtMostOnce'
  <2>1. \A j \in Intents : j # i => wire'[j] = wire[j]
    BY <1>2, Shape
  <2>2. i \notin Legacy => wire'[i] <= 1
    BY <1>1, <1>2, Shape
  <2>3. QED
    BY <1>1, <2>1, <2>2 DEF Inv, EvidenceKept, AtMostOnce
<1>4. CASE Goto(s, "failed") /\ UNCHANGED <<wire, locks>>
  <2>1. \A t \in Sessions : pc'[t] = IF t = s THEN "failed" ELSE pc[t]
    BY <1>4, Shape DEF Goto
  <2>2. SendSection'
    BY <1>1, <1>4, <2>1 DEF Inv, SectionsExclusive, SendSection, SendingPc
  <2>3. LocksHeld' /\ GuardedControl'
    BY <1>1, <1>4, <2>1
     DEF Inv, SectionsExclusive, LocksHeld, GuardedControl, Cancelled, locks,
         SendingPc, DispatchPc, ControlPc
  <2>4. QED
    BY <1>3, <2>2, <2>3 DEF Inv, SectionsExclusive
<1>5. CASE Goto(s, "sent") /\ UNCHANGED locks
  <2>1. \A t \in Sessions : pc'[t] = IF t = s THEN "sent" ELSE pc[t]
    BY <1>5, Shape DEF Goto
  <2>2. \A t \in Sessions : t # s => pc[t] \notin SendingPc
    BY <1>1, Shape, OneSender DEF Inv, SectionsExclusive
  <2>3. SendSection'
    BY <1>1, <2>1, <2>2 DEF SendSection, SendingPc
  <2>4. LocksHeld' /\ GuardedControl'
    BY <1>1, <1>5, <2>1
     DEF Inv, SectionsExclusive, LocksHeld, GuardedControl, Cancelled, locks,
         SendingPc, DispatchPc, ControlPc
  <2>5. QED
    BY <1>3, <2>3, <2>4 DEF Inv, SectionsExclusive
<1>6. CASE Finish(s, WithId("UNKNOWN", disk[i].id)) /\ recLock' = NoOne
  <2>1. LocksHeld'
    BY <1>1, <1>6, DropGuard DEF Finish, Inv, SectionsExclusive
  <2>2. \A t \in Sessions : pc'[t] = IF t = s THEN "save" ELSE pc[t]
    BY <1>6, Shape DEF Finish, Goto
  <2>3. \A t \in Sessions : pc'[t] \notin SendingPc
    BY <1>1, <2>2, Shape, OneSender DEF Inv, SectionsExclusive, SendingPc
  <2>4. SendSection' /\ GuardedControl'
    BY <1>1, <2>2, <2>3
     DEF Inv, SectionsExclusive, SendSection, GuardedControl, Cancelled, SendingPc,
         DispatchPc, ControlPc
  <2>5. QED
    BY <1>3, <2>1, <2>4 DEF Inv, SectionsExclusive
<1>7. QED
  BY <1>4, <1>5, <1>6 DEF Publish

LEMMA RecordOutcomeStep ==
  ASSUME TypeOK, Inv, NEW s \in Sessions, RecordSent(s) \/ RecordFailed(s) PROVE Inv'
<1> DEFINE i == Target[s]
<1>1. /\ pc[s] \in SendingPc /\ i \in Intents /\ UNCHANGED <<ctl, wire>>
      /\ recLock = s /\ recLock' = NoOne /\ guard[i] = s
      /\ Goto(s, "save") /\ guard' = [guard EXCEPT ![i] = NoOne]
  BY Shape
   DEF RecordSent, RecordFailed, outside, DispatchPc, SendingPc, Inv, SectionsExclusive,
       LocksHeld, Finish
<1>2. EvidenceKept'
  <2>1. CASE RecordSent(s)
    <3>1. [disk[i] EXCEPT !.st = "SENT"].st = "SENT"
      BY <1>1, Shape DEF Record
    <3>2. QED
      BY <1>1, <2>1, <3>1, PutKeepsEvidence DEF RecordSent, Inv
  <2>2. CASE RecordFailed(s)
    <3>1. i \notin Legacy => wire[i] = 0
      BY <2>2 DEF RecordFailed, Inv, SectionsExclusive, SendSection
    <3>2. \A j \in Intents : j # i => disk'[j] = disk[j]
      BY <2>2, Shape DEF RecordFailed, PutRecord
    <3>3. QED
      BY <1>1, <3>1, <3>2 DEF Inv, EvidenceKept
  <2>3. QED
    BY <2>1, <2>2
<1>3. LocksHeld'
  BY <1>1, DropGuard DEF Inv, SectionsExclusive
<1>4. \A t \in Sessions : pc'[t] = IF t = s THEN "save" ELSE pc[t]
  BY <1>1, Shape DEF Goto
<1>5. \A t \in Sessions : pc'[t] \notin SendingPc
  BY <1>1, <1>4, Shape, OneSender DEF Inv, SectionsExclusive, SendingPc
<1>6. SendSection' /\ GuardedControl'
  BY <1>1, <1>4, <1>5
   DEF Inv, SectionsExclusive, SendSection, GuardedControl, Cancelled, SendingPc,
       DispatchPc, ControlPc
<1>7. AtMostOnce'
  BY <1>1 DEF Inv, AtMostOnce
<1>8. QED
  BY <1>2, <1>3, <1>6, <1>7 DEF Inv, SectionsExclusive

LEMMA ControlBeginStep ==
  ASSUME TypeOK, Inv, NEW s \in Sessions, NEW act, ControlBegin(s, act) PROVE Inv'
<1> DEFINE i == Target[s]
<1>1. RecordsKept /\ UNCHANGED ctl /\ guard[i] = NoOne /\ i \in Intents
  BY Shape DEF ControlBegin, GuardFree, RecordsKept, store, outside
<1>2. CASE EndControl(s, ctl[i].req)
  BY <1>1, <1>2, QuietStep DEF EndControl
<1>3. CASE ~Cancelled(i) /\ Goto(s, "ctlRead") /\ guard' = [guard EXCEPT ![i] = s]
  <2>1. "ctlRead" \in PcState /\ "ctlRead" \notin SendingPc /\ "ctlRead" \notin DispatchPc
    BY DEF PcState, ControlPc, SendingPc, DispatchPc
  <2>2. LocksHeld'
    BY <1>1, <1>3, <2>1, TakeGuard DEF Inv, SectionsExclusive, RecordsKept
  <2>3. SendSection' /\ EvidenceKept' /\ AtMostOnce'
    BY <1>1, <1>3, <2>1, KeepRecords
  <2>4. GuardedControl'
    BY <1>1, <1>3, <2>1, Shape DEF Inv, SectionsExclusive, GuardedControl, Goto, Cancelled
  <2>5. QED
    BY <2>2, <2>3, <2>4 DEF Inv, SectionsExclusive
<1>4. QED
  BY <1>2, <1>3 DEF ControlBegin

\* A control record is only written by the holder of the guard, who goes on to
\* "ctlNote" only if the record is not a withdrawal.
LEMMA ControlWrite ==
  ASSUME TypeOK, Inv, RecordsKept, NEW s \in Sessions, NEW c, NEW w,
         pc[s] \in ControlPc, PutControl(Target[s], c, w),
         \/ Goto(s, "ctlSave") /\ UNCHANGED guard
         \/ Goto(s, "ctlNote") /\ UNCHANGED guard /\ ~Cancelled(Target[s])'
         \/ Goto(s, "save") /\ guard' = [guard EXCEPT ![Target[s]] = NoOne]
  PROVE  Inv'
<1> DEFINE i == Target[s]
<1>1. guard[i] = s /\ i \in Intents
  BY Shape DEF Inv, SectionsExclusive, LocksHeld
<1>2. PICK l \in {"ctlSave", "ctlNote", "save"} : Goto(s, l)
  OBVIOUS
<1>3. l \in PcState /\ l \notin SendingPc /\ l \notin DispatchPc
  BY DEF PcState, ControlPc, SendingPc, DispatchPc
<1>4. LocksHeld'
  <2>1. CASE UNCHANGED guard
    BY <1>2, <1>3, <2>1, KeepLocks DEF Inv, SectionsExclusive, RecordsKept, Busy
  <2>2. CASE Goto(s, "save") /\ guard' = [guard EXCEPT ![i] = NoOne]
    BY <1>1, <2>2, DropGuard DEF Inv, SectionsExclusive, RecordsKept
  <2>3. QED
    BY <2>1, <2>2
<1>5. SendSection' /\ EvidenceKept' /\ AtMostOnce'
  BY <1>2, <1>3, KeepRecords
<1>6. GuardedControl'
  <2>1. \A t \in Sessions : t # s => pc'[t] = pc[t]
    BY <1>2, Shape DEF Goto
  <2>2. ASSUME NEW t \in Sessions, t # s, pc[t] \in Busy PROVE ctl'[Target[t]] = ctl[Target[t]]
    <3>1. Target[t] # i
      BY <1>1, <2>2, Shape, OneHolder DEF Inv, SectionsExclusive
    <3>2. QED
      BY <3>1, Shape DEF PutControl
  <2>3. pc'[s] \in ControlPc \ {"ctlSave"} => ~Cancelled(i)'
    BY Shape DEF Goto, ControlPc
  <2>4. pc'[s] \notin DispatchPc
    BY <1>2, <1>3, Shape DEF Goto
  <2>5. QED
    BY <2>1, <2>2, <2>3, <2>4 DEF Inv, SectionsExclusive, GuardedControl, Cancelled, Busy
<1>7. QED
  BY <1>4, <1>5, <1>6 DEF Inv, SectionsExclusive

LEMMA ControlDecideStep ==
  ASSUME TypeOK, Inv, NEW s \in Sessions, ControlDecide(s) PROVE Inv'
<1> DEFINE i == Target[s]
           p == Host[s]
           r == IF bridge[p] = "up" THEN disk[i] ELSE NoRecord
           act == last[s].act
           unsent == DefinitelyUnsent(s, r)
           req == [act |-> act, id |-> TaskIdOf(s, r),
                   out |-> IF unsent THEN Hold(act) ELSE "requested"]
           held == [blocked |-> unsent \/ TaskIdOf(s, r) = 0, req |-> req]
           ended == EndControl(s, Raised(last[s]))
<1>1. /\ pc[s] = "ctlRead" /\ "ctlRead" \in ControlPc /\ i \in Intents
      /\ UNCHANGED <<wire, recLock>> /\ guard[i] = s
  BY Shape DEF ControlDecide, outside, ControlPc, Inv, SectionsExclusive, LocksHeld
<1>2. CASE ended /\ UNCHANGED <<store, ctl>>
  BY <1>1, <1>2, QuietStep DEF EndControl, RecordsKept, store
<1>3. CASE /\ r.st = "SENDING" /\ recLock = NoOne /\ UNCHANGED ctl
           /\ \E w \in WriteOutcomes : PutRecord(p, i, [r EXCEPT !.st = "SENT"], w)
           /\ UNCHANGED <<guard, pc>> \/ ended
  <2>1. r = disk[i]
    BY <1>3 DEF NoRecord
  <2>2. [r EXCEPT !.st = "SENT"].st = "SENT"
    BY <1>1, <2>1, Shape DEF Record
  <2>3. RecordsKept
    BY <1>1, <1>3, <2>2, PutKeepsEvidence DEF RecordsKept, Inv
  <2>4. CASE UNCHANGED <<guard, pc>>
    BY <1>3, <2>3, <2>4, IdleStep
  <2>5. CASE ended
    BY <1>1, <1>3, <2>3, <2>5, QuietStep DEF EndControl
  <2>6. QED
    BY <1>3, <2>4, <2>5
<1>4. CASE \E w \in WriteOutcomes :
             /\ PutControl(i, held, w) /\ UNCHANGED store
             /\ \/ w # "ok" /\ ended
                \/ w = "ok" /\ unsent /\ Goto(s, "ctlSave") /\ UNCHANGED guard
                \/ w = "ok" /\ ~unsent /\ Goto(s, "ctlNote") /\ UNCHANGED guard
  <2>1. RecordsKept
    BY <1>1, <1>4 DEF RecordsKept, store
  <2>2. PICK w \in WriteOutcomes :
             /\ PutControl(i, held, w)
             /\ \/ w # "ok" /\ ended
                \/ w = "ok" /\ unsent /\ Goto(s, "ctlSave") /\ UNCHANGED guard
                \/ w = "ok" /\ ~unsent /\ Goto(s, "ctlNote") /\ UNCHANGED guard
    BY <1>4
  <2>3. CASE w = "ok" /\ ~unsent /\ Goto(s, "ctlNote") /\ UNCHANGED guard
    <3>1. ctl'[i] = held
      BY <1>1, <2>2, <2>3, Shape DEF PutControl
    <3>2. ~Cancelled(i)'
      BY <2>3, <3>1 DEF Cancelled
    <3>3. QED
      BY <1>1, <2>1, <2>2, <2>3, <3>2, ControlWrite
  <2>4. CASE ended \/ (Goto(s, "ctlSave") /\ UNCHANGED guard)
    BY <1>1, <2>1, <2>2, <2>4, ControlWrite DEF EndControl
  <2>5. QED
    BY <2>2, <2>3, <2>4
<1>5. QED
  <2>1. "SENDING" # NoRecord.st
    BY DEF NoRecord
  <2>2. QED
    BY <1>2, <1>3, <1>4, <2>1 DEF ControlDecide

LEMMA ControlEndStep ==
  ASSUME TypeOK, Inv, NEW s \in Sessions, ControlEnd(s) PROVE Inv'
<1> DEFINE c == [blocked |-> last[s].id = 0, req |-> last[s]]
<1>1. RecordsKept /\ pc[s] \in ControlPc
  BY DEF ControlEnd, ControlPc, RecordsKept, store, outside
<1>2. \E w \in WriteOutcomes :
        /\ PutControl(Target[s], c, w)
        /\ \/ Goto(s, "ctlSave") /\ UNCHANGED guard
           \/ Goto(s, "save") /\ guard' = [guard EXCEPT ![Target[s]] = NoOne]
  BY DEF ControlEnd, EndControl
<1>3. QED
  BY <1>1, <1>2, ControlWrite

LEMMA ControlSendStep ==
  ASSUME TypeOK, Inv, NEW s \in Sessions,
         ControlNote(s) \/ ControlSend(s) \/ ControlMark(s) \/ ControlSave(s)
  PROVE  Inv'
<1> DEFINE i == Target[s]
<1>1. /\ pc[s] \in {"ctlNote", "ctlSend", "ctlMark", "ctlSave"} /\ i \in Intents
      /\ UNCHANGED <<ctl, wire, recLock>> /\ guard[i] = s
  BY Shape
   DEF ControlNote, ControlSend, ControlMark, ControlSave, outside, locks, ControlPc,
       Inv, SectionsExclusive, LocksHeld
<1>2. RecordsKept
  <2>1. CASE UNCHANGED disk
    BY <1>1, <2>1 DEF RecordsKept
  <2>2. CASE recLock = NoOne /\ \E w \in WriteOutcomes : PutRecord(Host[s], i, disk[i], w)
    BY <1>1, <2>2, PutKeepsEvidence DEF RecordsKept, Inv
  <2>3. QED
    BY <2>1, <2>2 DEF ControlNote, ControlSend, ControlMark, ControlSave, store
<1>3. CASE Goto(s, "save") /\ guard' = [guard EXCEPT ![i] = NoOne]
  BY <1>1, <1>2, <1>3, QuietStep
<1>4. CASE /\ \E l \in {"ctlSend", "ctlMark", "ctlEnd"} : Goto(s, l)
           /\ UNCHANGED guard /\ pc[s] # "ctlSave"
  <2>1. \A l \in {"ctlSend", "ctlMark", "ctlEnd"} :
          l \in PcState \ SendingPc /\ l \notin DispatchPc
    BY DEF PcState, ControlPc, SendingPc, DispatchPc
  <2>2. pc[s] \in ControlPc \ {"ctlSave"}
    BY <1>1, <1>4 DEF ControlPc
  <2>3. QED
    BY <1>1, <1>2, <1>4, <2>1, <2>2, QuietStep
<1>5. QED
  BY <1>3, <1>4 DEF ControlNote, ControlSend, ControlMark, ControlSave, EndControl, locks

LEMMA InvInit == Init => Inv
<1> SUFFICES ASSUME Init PROVE Inv
  OBVIOUS
<1>1. \A s \in Sessions : pc[s] = "out" /\ Target[s] \in Intents
  BY DispatchAssumption DEF Init
<1>2. SectionsExclusive
  BY <1>1
   DEF SectionsExclusive, LocksHeld, SendSection, GuardedControl, SendingPc, DispatchPc,
       ControlPc
<1>3. EvidenceKept /\ AtMostOnce
  BY DEF Init, EvidenceKept, AtMostOnce
<1>4. QED
  BY <1>2, <1>3 DEF Inv

LEMMA InvStep == TypeOK /\ Inv /\ [Next]_vars => Inv'
<1> SUFFICES ASSUME TypeOK, Inv, [Next]_vars PROVE Inv'
  OBVIOUS
<1>1. ASSUME NEW s \in Sessions, Progress(s) PROVE Inv'
  BY <1>1, SessionStep, CheckStep, ReserveStep, PublishStep, RecordOutcomeStep,
     ControlDecideStep, ControlSendStep, ControlEndStep DEF Progress
<1>2. ASSUME NEW s \in Sessions,
             \/ Confirm(s) \/ Restore(s) \/ GuardFails(s) \/ DispatchBegin(s)
             \/ \E act \in Controls : ControlBegin(s, act)
      PROVE  Inv'
  BY <1>2, SessionStep, DispatchBeginStep, ControlBeginStep
<1>3. ASSUME NEW p \in Procs, Crash(p) \/ Start(p) \/ Manage(p) PROVE Inv'
  BY <1>3, CrashStep, OutsideStep
<1>4. CASE Damage \/ Repair
  BY <1>4, OutsideStep
<1>5. CASE UNCHANGED vars
  <2>1. RecordsKept /\ UNCHANGED <<ctl, guard, pc>>
    BY <1>5 DEF vars, RecordsKept
  <2>2. QED
    BY <2>1, IdleStep
<1>6. QED
  BY <1>1, <1>2, <1>3, <1>4, <1>5 DEF Next

LEMMA InvCorrect == Spec => [](TypeOK /\ Inv)
<1>1. Init => TypeOK /\ Inv
  BY TypeInit, InvInit
<1>2. TypeOK /\ Inv /\ [Next]_vars => (TypeOK /\ Inv)'
  BY TypeStep, InvStep
<1>3. QED
  BY <1>1, <1>2, PTL DEF Spec

-----------------------------------------------------------------------------
(* The properties *)

\* No intent archived with send records is ever handed to the socket twice
\* (bridge_service.dispatch_intent, "at most once per intent identity").
THEOREM SendsAtMostOnce == Spec => []AtMostOnce
<1>1. TypeOK /\ Inv => AtMostOnce
  BY DEF Inv
<1>2. QED
  BY <1>1, InvCorrect, PTL

\* What may have reached the robot has a durable record that forbids a retry, in
\* every state a crash can expose (EvidenceKept, dispatch_intent).
THEOREM EvidenceIsKept == Spec => []EvidenceKept
<1>1. TypeOK /\ Inv => EvidenceKept
  BY DEF Inv
<1>2. QED
  BY <1>1, InvCorrect, PTL

\* Send sections and guarded sections exclude each other (SectionsExclusive: the
\* record lock of bridge_service and the guard of execution_state).
THEOREM SectionsAreExclusive == Spec => []SectionsExclusive
<1>1. TypeOK /\ Inv => SectionsExclusive
  BY DEF Inv
<1>2. QED
  BY <1>1, InvCorrect, PTL

\* Who writes control records.
LEMMA ControlWriters ==
  ASSUME [Next]_vars
  PROVE  UNCHANGED ctl \/ \E s \in Sessions : DispatchBegin(s) \/ ControlDecide(s) \/ ControlEnd(s)
<1>1. ASSUME NEW s \in Sessions,
             \/ Confirm(s) \/ Restore(s) \/ GuardFails(s) \/ SaveConfirmed(s) \/ SaveResult(s)
             \/ CheckRecord(s) \/ Gate(s) \/ Reserve(s) \/ Publish(s)
             \/ RecordSent(s) \/ RecordFailed(s) \/ ControlNote(s) \/ ControlSend(s)
             \/ ControlMark(s) \/ ControlSave(s) \/ \E act \in Controls : ControlBegin(s, act)
      PROVE  UNCHANGED ctl
  BY <1>1
   DEF Confirm, Restore, GuardFails, SaveConfirmed, SaveResult, CheckRecord, Gate, Reserve, Publish,
       RecordSent, RecordFailed, ControlNote, ControlSend, ControlMark, ControlSave,
       ControlBegin
<1>2. ASSUME Damage \/ Repair \/ (\E p \in Procs : Crash(p) \/ Start(p) \/ Manage(p))
             \/ UNCHANGED vars
      PROVE  UNCHANGED ctl
  BY <1>2 DEF Damage, Repair, Crash, Start, Manage, vars
<1>3. QED
  BY <1>1, <1>2 DEF Next, Progress

\* What one step does to the control records: the holder of a guard that saw no
\* withdrawal may write one record, a resume lifts a pause; all else keeps them.
LEMMA ControlRecordStep ==
  ASSUME TypeOK, Inv, [Next]_vars
  PROVE  \/ UNCHANGED ctl
         \/ /\ UNCHANGED wire
            /\ \E i \in Intents : \E c : ~Cancelled(i) /\ ctl' = [ctl EXCEPT ![i] = c]
<1> DEFINE Goal == \/ UNCHANGED ctl
                   \/ /\ UNCHANGED wire
                      /\ \E i \in Intents : \E c : ~Cancelled(i) /\ ctl' = [ctl EXCEPT ![i] = c]
<1>1. ASSUME NEW s \in Sessions, DispatchBegin(s) PROVE Goal
  <2>1. UNCHANGED wire /\ Target[s] \in Intents
    BY <1>1, Shape DEF DispatchBegin, outside
  <2>2. CASE UNCHANGED ctl
    BY <2>2
  <2>3. CASE Paused(Target[s]) /\ \E c, w : PutControl(Target[s], c, w)
    <3>1. ~Cancelled(Target[s])
      BY <2>3 DEF Paused, Cancelled
    <3>2. QED
      BY <2>1, <2>3, <3>1 DEF PutControl
  <2>4. QED
    BY <1>1, <2>2, <2>3 DEF DispatchBegin
<1>2. ASSUME NEW s \in Sessions, ControlDecide(s) \/ ControlEnd(s) PROVE Goal
  <2>1. UNCHANGED wire /\ Target[s] \in Intents
    BY <1>2, Shape DEF ControlDecide, ControlEnd, outside
  <2>2. ~Cancelled(Target[s])
    BY <1>2 DEF ControlDecide, ControlEnd, ControlPc, Inv, SectionsExclusive, GuardedControl
  <2>3. UNCHANGED ctl \/ \E c, w : PutControl(Target[s], c, w)
    BY <1>2 DEF ControlDecide, ControlEnd
  <2>4. QED
    BY <2>1, <2>2, <2>3 DEF PutControl
<1>3. QED
  BY <1>1, <1>2, ControlWriters

\* What one step does to the socket: only the send of an intent nobody withdrew.
LEMMA WireStep ==
  ASSUME TypeOK, Inv, [Next]_vars
  PROVE  \/ UNCHANGED wire
         \/ /\ UNCHANGED ctl
            /\ \E i \in Intents : /\ ~Cancelled(i)
                                  /\ i \in Legacy \/ wire[i] = 0
                                  /\ wire' = [wire EXCEPT ![i] = @ + 1]
<1>1. ASSUME NEW s \in Sessions, Publish(s)
      PROVE  /\ UNCHANGED ctl /\ ~Cancelled(Target[s]) /\ Target[s] \in Intents
             /\ Target[s] \in Legacy \/ wire[Target[s]] = 0
             /\ UNCHANGED wire \/ wire' = [wire EXCEPT ![Target[s]] = @ + 1]
  BY <1>1, Shape
   DEF Publish, DispatchPc, Inv, SectionsExclusive, GuardedControl, SendSection, Cancelled
<1>2. ASSUME NEW s \in Sessions,
             \/ Confirm(s) \/ Restore(s) \/ GuardFails(s) \/ SaveConfirmed(s) \/ SaveResult(s)
             \/ DispatchBegin(s) \/ CheckRecord(s) \/ Gate(s) \/ Reserve(s)
             \/ RecordSent(s) \/ RecordFailed(s) \/ ControlDecide(s) \/ ControlNote(s)
             \/ ControlSend(s) \/ ControlMark(s) \/ ControlEnd(s) \/ ControlSave(s)
             \/ \E act \in Controls : ControlBegin(s, act)
      PROVE  UNCHANGED wire
  BY <1>2
   DEF Confirm, Restore, GuardFails, SaveConfirmed, SaveResult, DispatchBegin, CheckRecord, Gate,
       Reserve, RecordSent, RecordFailed, ControlDecide, ControlNote, ControlSend,
       ControlMark, ControlEnd, ControlSave, ControlBegin, outside
<1>3. ASSUME Damage \/ Repair \/ (\E p \in Procs : Crash(p) \/ Start(p) \/ Manage(p))
             \/ UNCHANGED vars
      PROVE  UNCHANGED wire
  BY <1>3 DEF Damage, Repair, Crash, Start, Manage, vars, outside
<1>4. QED
  BY <1>1, <1>2, <1>3 DEF Next, Progress

LEMMA WithdrawalStep ==
  TypeOK /\ Inv /\ [Next]_vars =>
    \A i \in Intents : Cancelled(i) => Cancelled(i)' /\ wire'[i] = wire[i]
<1> SUFFICES ASSUME TypeOK, Inv, [Next]_vars, NEW i \in Intents, Cancelled(i)
             PROVE  Cancelled(i)' /\ wire'[i] = wire[i]
  OBVIOUS
<1>1. Cancelled(i)'
  BY ControlRecordStep, Shape DEF Cancelled
<1>2. wire'[i] = wire[i]
  BY WireStep, Shape
<1>3. QED
  BY <1>1, <1>2

\* A withdrawn intent stays withdrawn and is never handed to the socket, from any
\* session, after any crash (WithdrawalIsFinal, execution_dispatch_contract.md).
THEOREM WithdrawalFinal == Spec => WithdrawalIsFinal
<1>1. TypeOK /\ Inv /\ [Next]_vars =>
        [\A i \in Intents : Cancelled(i) => Cancelled(i)' /\ wire'[i] = wire[i]]_vars
  BY WithdrawalStep
<1>2. QED
  BY <1>1, InvCorrect, PTL DEF Spec, WithdrawalIsFinal

\* TaskDispatch implements SendOnce under wire and Withdrawn: every step is a
\* Hand, a Withdraw or a stutter of the abstract specification.
THEOREM DispatchRefinesSendOnce == Spec => RefinesSendOnce
<1>1. Init => Abstract!Init
  BY DEF Init, Abstract!Init, Withdrawn, Cancelled, NoControl
<1>2. TypeOK /\ Inv /\ [Next]_vars => [Abstract!Next]_<<wire, Withdrawn>>
  <2> SUFFICES ASSUME TypeOK, Inv, [Next]_vars
               PROVE  [Abstract!Next]_<<wire, Withdrawn>>
    OBVIOUS
  <2>1. CASE UNCHANGED wire /\ UNCHANGED ctl
    BY <2>1 DEF Withdrawn, Cancelled
  <2>2. ASSUME UNCHANGED wire, NEW i \in Intents, NEW c, ~Cancelled(i),
               ctl' = [ctl EXCEPT ![i] = c]
        PROVE  [Abstract!Next]_<<wire, Withdrawn>>
    <3>1. \A j \in Intents : j # i => (Cancelled(j)' <=> Cancelled(j))
      BY <2>2, Shape DEF Cancelled
    <3>2. Withdrawn' = Withdrawn \/ Withdrawn' = Withdrawn \cup {i}
      BY <2>2, <3>1 DEF Withdrawn
    <3>3. QED
      BY <2>2, <3>2 DEF Abstract!Next, Abstract!Withdraw
  <2>3. ASSUME UNCHANGED ctl, NEW i \in Intents, ~Cancelled(i),
               i \in Legacy \/ wire[i] = 0, wire' = [wire EXCEPT ![i] = @ + 1]
        PROVE  [Abstract!Next]_<<wire, Withdrawn>>
    <3>1. Withdrawn' = Withdrawn /\ i \notin Withdrawn
      BY <2>3 DEF Withdrawn, Cancelled
    <3>2. QED
      BY <2>3, <3>1 DEF Abstract!Next, Abstract!Hand
  <2>4. QED
    BY <2>1, <2>2, <2>3, ControlRecordStep, WireStep
<1>3. QED
  BY <1>1, <1>2, InvCorrect, PTL DEF Spec, RefinesSendOnce, Abstract!Spec

-----------------------------------------------------------------------------
(* Records, task ids and what a session shows                                *)

\* A record has an id as soon as it is more than an absence, and ids are handed
\* out in order.
IdsGiven == \A i \in Intents : /\ disk[i].st = "NONE" <=> disk[i].id = 0
                               /\ disk[i].id <= idSeq

\* What the robot has received belongs to an intent that was handed over.
Received == \A n \in robot : \E i \in Intents : wire[i] > 0 /\ disk[i].id = n /\ n # 0

SentRecords == \A i \in Intents : disk[i].st = "SENT" => wire[i] > 0

Sending == \A s \in Sessions :
  /\ pc[s] \in SendingPc => disk[Target[s]].st = "SENDING"
  /\ pc[s] = "sent" => wire[Target[s]] > 0

\* A dispatch state that claims a send carries the id of the record, in a session
\* as well as in a saved history.
Shown(i, d) == d.st = "SENT" => wire[i] > 0 /\ d.id = disk[i].id /\ d.id # 0

Told == IdsGiven /\ IdsUnique /\ Received /\ SentRecords /\ Sending
Display == /\ \A s \in Sessions : Shown(Target[s], disp[s])
           /\ \A i \in Intents : Shown(i, history[i].disp)

\* The four kinds of step, by what becomes of the records.
Steady == /\ UNCHANGED <<disk, wire, robot>> /\ idSeq <= idSeq'
          /\ \A t \in Sessions : pc'[t] \in SendingPc =>
               pc'[t] = pc[t] \/ (pc[t] = "sending" /\ pc'[t] = "failed")
Taken(i, id) == /\ \/ disk[i].st = "FAILED" /\ id = disk[i].id /\ idSeq' = idSeq
                   \/ disk[i].st = "NONE" /\ id = idSeq + 1 /\ idSeq' = id
                /\ disk' = [disk EXCEPT ![i] = [st |-> "SENDING", id |-> id]]
                /\ UNCHANGED <<wire, robot>>
                /\ \A t \in Sessions : pc'[t] \in SendingPc => Target[t] = i /\ pc'[t] = "sending"
Handed(i) == /\ disk[i].st = "SENDING" /\ UNCHANGED <<disk, idSeq>>
             /\ wire' = [wire EXCEPT ![i] = @ + 1] /\ robot' \in {robot, robot \cup {disk[i].id}}
             /\ \A t \in Sessions : pc'[t] \in SendingPc => Target[t] = i /\ pc'[t] = "sent"
Marked(i, st) == /\ disk[i].st = "SENDING" /\ disk' = [disk EXCEPT ![i].st = st]
                 /\ st = "SENT" => disk[i].id \in robot \/ wire[i] > 0
                 /\ UNCHANGED <<wire, robot, idSeq>>
                 /\ \A t \in Sessions : pc'[t] \notin SendingPc

LEMMA Counters ==
  ASSUME TypeOK
  PROVE  idSeq \in Nat /\ \A i \in Intents : disk[i].id \in Nat /\ wire[i] \in Nat
BY DispatchAssumption DEF TypeOK, Record

\* A record that is rewritten as it stands is not changed.
LEMMA Rewritten ==
  ASSUME TypeOK, NEW p, NEW i \in Intents, NEW w, PutRecord(p, i, disk[i], w)
  PROVE  UNCHANGED disk
BY DEF PutRecord, TypeOK

LEMMA Restated ==
  ASSUME TypeOK, NEW p, NEW i \in Intents, NEW st, NEW w,
         PutRecord(p, i, [disk[i] EXCEPT !.st = st], w)
  PROVE  UNCHANGED disk \/ disk' = [disk EXCEPT ![i].st = st]
BY DEF PutRecord, TypeOK

\* A step that moves one session, not into the send section.
LEMMA MovesOut ==
  ASSUME TypeOK, NEW s \in Sessions, NEW l, Goto(s, l), l \notin SendingPc
  PROVE  \A t \in Sessions : pc'[t] \in SendingPc => t # s /\ pc'[t] = pc[t]
BY DEF Goto, TypeOK

LEMMA NobodySends ==
  ASSUME TypeOK, Inv, recLock = NoOne
  PROVE  \A t \in Sessions : pc[t] \notin SendingPc
BY Shape DEF Inv, SectionsExclusive, LocksHeld

LEMMA SteadySession ==
  ASSUME TypeOK, NEW s \in Sessions,
         \/ Confirm(s) \/ SaveConfirmed(s) \/ SaveResult(s) \/ Restore(s) \/ GuardFails(s) \/ DispatchBegin(s)
         \/ Gate(s) \/ ControlNote(s) \/ ControlSend(s) \/ ControlEnd(s) \/ ControlSave(s)
         \/ \E act \in Controls : ControlBegin(s, act)
  PROVE  Steady
<1> USE DEF store, outside
<1>1. PICK l : Goto(s, l) /\ l \in {"confirmed", "auto", "idle", "recordCheck", "save", "ready",
                                    "ctlRead", "ctlSend", "ctlMark", "ctlEnd", "ctlSave"}
  BY DEF Confirm, SaveConfirmed, SaveResult, Restore, GuardFails, DispatchBegin, Gate, ControlNote,
         ControlSend, ControlEnd, ControlSave, ControlBegin, Finish, EndControl
<1>2. \A t \in Sessions : pc'[t] \in SendingPc => pc'[t] = pc[t]
  BY <1>1, MovesOut DEF SendingPc
<1>3. UNCHANGED <<disk, wire, robot>>
  BY DEF Confirm, SaveConfirmed, SaveResult, Restore, GuardFails, DispatchBegin, Gate, ControlNote,
         ControlSend, ControlEnd, ControlSave, ControlBegin
<1>4. idSeq' \in {idSeq, idSeq + 1}
  BY DEF Confirm, SaveConfirmed, SaveResult, Restore, GuardFails, DispatchBegin, Gate, ControlNote,
         ControlSend, ControlEnd, ControlSave, ControlBegin, NextId
<1>5. idSeq <= idSeq' BY <1>4, Counters
<1> QED BY <1>2, <1>3, <1>5 DEF Steady

LEMMA SteadyOutside ==
  ASSUME TypeOK, Damage \/ Repair \/ \E p \in Procs : Crash(p) \/ Start(p) \/ Manage(p)
  PROVE  Steady
<1> USE DEF store, outside
<1>1. UNCHANGED <<wire, robot>> /\ \A t \in Sessions : pc'[t] \in SendingPc => pc'[t] = pc[t]
  BY DEF Damage, Repair, Crash, Start, Manage, SendingPc
<1>2. UNCHANGED disk BY Rewritten DEF Damage, Repair, Crash, Start, Manage
<1>3. idSeq <= idSeq' BY Counters DEF Damage, Repair, Crash, Start, Manage, NextId
<1> QED BY <1>1, <1>2, <1>3 DEF Steady

LEMMA RecordStep ==
  ASSUME TypeOK, Inv, Told, [Next]_vars
  PROVE  \/ Steady
         \/ \E i \in Intents : Handed(i)
         \/ \E i \in Intents, id \in Nat : Taken(i, id)
         \/ \E i \in Intents, st \in {"SENT", "FAILED"} : Marked(i, st)
<1> USE DEF store, outside
<1> DEFINE Goal == \/ Steady
                   \/ \E i \in Intents : Handed(i)
                   \/ \E i \in Intents, id \in Nat : Taken(i, id)
                   \/ \E i \in Intents, st \in {"SENT", "FAILED"} : Marked(i, st)
<1>1. ASSUME NEW s \in Sessions, CheckRecord(s) \/ ControlDecide(s) PROVE Goal
  <2> DEFINE i == Target[s]
  <2>0. i \in Intents /\ idSeq \in Nat /\ UNCHANGED <<wire, robot, idSeq>>
    BY <1>1, Shape, Counters DEF CheckRecord, ControlDecide
  <2>1. UNCHANGED pc \/ \E l : Goto(s, l) /\ l \in {"save", "gate", "ctlSave", "ctlNote"}
    BY <1>1 DEF CheckRecord, ControlDecide, Finish, EndControl
  <2>2. \A t \in Sessions : pc'[t] \in SendingPc => pc'[t] = pc[t]
    BY <2>1, MovesOut DEF SendingPc
  <2>3. \/ UNCHANGED disk
        \/ /\ recLock = NoOne /\ disk[i].st = "SENDING" /\ disk[i].id \in robot
           /\ \E w : PutRecord(Host[s], i, [disk[i] EXCEPT !.st = "SENT"], w)
    BY <1>1 DEF CheckRecord, ControlDecide, MayHaveReceipt, NoRecord
  <2>4. CASE UNCHANGED disk BY <2>0, <2>2, <2>4 DEF Steady
  <2>5. CASE /\ recLock = NoOne /\ disk[i].st = "SENDING" /\ disk[i].id \in robot
             /\ disk' = [disk EXCEPT ![i].st = "SENT"]
    <3>1. Marked(i, "SENT") BY <2>0, <2>2, <2>5, NobodySends DEF Marked
    <3> QED BY <2>0, <3>1
  <2> QED BY <2>0, <2>3, <2>4, <2>5, Restated
<1>2. ASSUME NEW s \in Sessions, Reserve(s) PROVE Goal
  <2> DEFINE i == Target[s]
             id == IF NeedsId(i) THEN NextId ELSE disk[i].id
  <2>0. i \in Intents /\ idSeq \in Nat /\ id \in Nat /\ UNCHANGED <<wire, robot>>
        /\ \A t \in Sessions : pc[t] \notin SendingPc
    BY <1>2, Shape, Counters, NobodySends DEF Reserve, NextId
  <2>1. Goto(s, "save") \/ Goto(s, "sending") BY <1>2 DEF Reserve, Finish
  <2>2. \A t \in Sessions : pc'[t] \in SendingPc => t = s /\ pc'[t] = "sending"
    BY <2>0, <2>1, Shape DEF Goto, SendingPc
  <2>3. CASE Goto(s, "save")
    <3>1. \A t \in Sessions : pc'[t] \notin SendingPc BY <2>0, <2>3, Shape DEF Goto, SendingPc
    <3>2. CASE UNCHANGED disk
      <4>1. idSeq' \in {idSeq, NextId}
        BY <1>2 DEF Reserve
      <4> QED BY <2>0, <3>1, <3>2, <4>1 DEF Steady, NextId
    <3>3. CASE ~UNCHANGED disk
      <4>1. /\ disk[i].st \in {"NONE", "FAILED"} /\ idSeq' = IF NeedsId(i) THEN id ELSE idSeq
            /\ disk' = [disk EXCEPT ![i] = [st |-> "SENDING", id |-> id]]
        BY <1>2, <3>3 DEF Reserve, PutRecord
      <4>2. Taken(i, id) BY <2>0, <3>1, <4>1 DEF Taken, NeedsId, NextId
      <4> QED BY <2>0, <4>2
    <3> QED BY <3>2, <3>3
  <2>4. CASE Goto(s, "sending") /\ ~Goto(s, "save")
    <3>1. /\ disk[i].st \in {"NONE", "FAILED"} /\ idSeq' = IF NeedsId(i) THEN id ELSE idSeq
          /\ disk' = [disk EXCEPT ![i] = [st |-> "SENDING", id |-> id]]
      BY <1>2, <2>4 DEF Reserve, PutRecord, Finish, WriteOutcomes
    <3>2. Taken(i, id) BY <2>0, <2>2, <3>1 DEF Taken, NeedsId, NextId
    <3> QED BY <2>0, <3>2
  <2> QED BY <2>1, <2>3, <2>4
<1>3. ASSUME NEW s \in Sessions, Publish(s) PROVE Goal
  <2> DEFINE i == Target[s]
  <2>0. i \in Intents /\ idSeq \in Nat /\ UNCHANGED <<disk, idSeq>> /\ pc[s] = "sending"
    BY <1>3, Shape, Counters DEF Publish
  <2>1. recLock = s /\ disk[i].st = "SENDING"
    BY <2>0 DEF Inv, SectionsExclusive, LocksHeld, Told, Sending, SendingPc
  <2>2. \A t \in Sessions : t # s => pc[t] \notin SendingPc
    BY <2>1, Shape, OneSender DEF Inv, SectionsExclusive
  <2>3. CASE Goto(s, "failed") /\ UNCHANGED <<wire, robot>>
    BY <2>0, <2>3, Shape DEF Steady, Goto
  <2>4. CASE /\ wire' = [wire EXCEPT ![i] = @ + 1] /\ robot' \in {robot, robot \cup {disk[i].id}}
             /\ Goto(s, "sent") \/ Goto(s, "save")
    <3>1. \A t \in Sessions : pc'[t] \in SendingPc => t = s /\ pc'[t] = "sent"
      BY <2>2, <2>4, Shape DEF Goto, SendingPc
    <3>2. Handed(i) BY <2>0, <2>1, <2>4, <3>1 DEF Handed
    <3> QED BY <2>0, <3>2
  <2> QED BY <1>3, <2>3, <2>4 DEF Publish, Finish
<1>4. ASSUME NEW s \in Sessions, RecordSent(s) \/ RecordFailed(s) PROVE Goal
  <2> DEFINE i == Target[s]
  <2>0. /\ i \in Intents /\ idSeq \in Nat /\ UNCHANGED <<wire, robot, idSeq>>
        /\ pc[s] \in SendingPc /\ Goto(s, "save")
    BY <1>4, Shape, Counters DEF RecordSent, RecordFailed, SendingPc, Finish
  <2>1. recLock = s /\ disk[i].st = "SENDING"
    BY <2>0 DEF Inv, SectionsExclusive, LocksHeld, Told, Sending
  <2>2. \A t \in Sessions : pc'[t] \notin SendingPc
    <3>1. \A t \in Sessions : t # s => pc[t] \notin SendingPc
      BY <2>1, Shape, OneSender DEF Inv, SectionsExclusive
    <3> QED BY <2>0, <3>1, Shape DEF Goto, SendingPc
  <2>3. PICK st \in {"SENT", "FAILED"} :
          /\ st = "SENT" => pc[s] = "sent"
          /\ \E w : PutRecord(Host[s], i, [disk[i] EXCEPT !.st = st], w)
    BY <1>4 DEF RecordSent, RecordFailed
  <2>4. st = "SENT" => wire[i] > 0 BY <2>3 DEF Told, Sending
  <2>5. CASE UNCHANGED disk BY <2>0, <2>2, <2>5 DEF Steady
  <2>6. CASE disk' = [disk EXCEPT ![i].st = st]
    <3>1. Marked(i, st) BY <2>0, <2>1, <2>2, <2>4, <2>6 DEF Marked
    <3> QED BY <2>0, <3>1
  <2>7. UNCHANGED disk \/ disk' = [disk EXCEPT ![i].st = st]
    BY <2>3 DEF PutRecord
  <2> QED BY <2>5, <2>6, <2>7
<1>5. ASSUME NEW s \in Sessions, ControlMark(s) PROVE Goal
  <2>1. UNCHANGED <<wire, robot, idSeq>> /\ Target[s] \in Intents /\ idSeq \in Nat
    BY <1>5, Shape, Counters DEF ControlMark
  <2>2. UNCHANGED disk BY <1>5, <2>1, Rewritten DEF ControlMark
  <2>3. \A t \in Sessions : pc'[t] \in SendingPc => pc'[t] = pc[t]
    BY <1>5, MovesOut DEF ControlMark, SendingPc
  <2> QED BY <2>1, <2>2, <2>3 DEF Steady
<1>6. CASE UNCHANGED vars BY <1>6, Counters DEF vars, Steady
<1> QED BY <1>1, <1>2, <1>3, <1>4, <1>5, <1>6, SteadySession, SteadyOutside DEF Next, Progress

\* Ids and sends, once there, stay.
LEMMA SendsStay ==
  ASSUME TypeOK, Inv, Told, [Next]_vars, NEW i \in Intents
  PROVE  /\ disk[i].id # 0 => disk'[i].id = disk[i].id
         /\ wire[i] > 0 => wire'[i] > 0
<1>0. wire[i] \in Nat /\ disk[i].id \in Nat BY Counters
<1>1. CASE Steady BY <1>1 DEF Steady
<1>2. ASSUME NEW j \in Intents, Handed(j) PROVE wire[i] > 0 => wire'[i] > 0
  BY <1>0, <1>2, Shape DEF Handed
<1>3. ASSUME NEW j \in Intents, Handed(j) PROVE disk'[i].id = disk[i].id
  BY <1>3 DEF Handed
<1>4. ASSUME NEW j \in Intents, NEW id \in Nat, Taken(j, id), disk[i].id # 0
      PROVE  disk'[i].id = disk[i].id
  <2>1. CASE i = j
    <3>1. disk[i].st # "NONE" BY <1>4 DEF Told, IdsGiven
    <3> QED BY <1>4, <2>1, <3>1, Shape DEF Taken
  <2>2. CASE i # j BY <1>4, <2>2, Shape DEF Taken
  <2> QED BY <2>1, <2>2
<1>5. ASSUME NEW j \in Intents, NEW st \in {"SENT", "FAILED"}, Marked(j, st)
      PROVE  disk'[i].id = disk[i].id
  BY <1>5, Shape DEF Marked, Record
<1>6. ASSUME ~\E j \in Intents : Handed(j) PROVE wire' = wire
  BY <1>6, RecordStep DEF Steady, Taken, Marked
<1> QED BY <1>1, <1>2, <1>3, <1>4, <1>5, <1>6, RecordStep

LEMMA ToldStep ==
  ASSUME TypeOK, Inv, Told, [Next]_vars, TypeOK'
  PROVE  Told'
<1>0. /\ idSeq \in Nat /\ idSeq' \in Nat
      /\ \A i \in Intents : /\ disk[i].id \in Nat /\ wire[i] \in Nat
                            /\ disk'[i].id \in Nat /\ wire'[i] \in Nat
  <2>1. idSeq \in Nat /\ \A i \in Intents : disk[i].id \in Nat /\ wire[i] \in Nat BY Counters
  <2>2. idSeq' \in Nat /\ \A i \in Intents : disk'[i].id \in Nat /\ wire'[i] \in Nat
    BY DispatchAssumption DEF TypeOK, Record
  <2> QED BY <2>1, <2>2
<1>1. CASE Steady
  <2>1. IdsGiven' BY <1>0, <1>1 DEF Steady, Told, IdsGiven
  <2>2. IdsUnique' /\ Received' /\ SentRecords'
    BY <1>1 DEF Steady, Told, IdsUnique, Received, SentRecords
  <2>3. Sending' BY <1>1 DEF Steady, Told, Sending, SendingPc
  <2> QED BY <2>1, <2>2, <2>3 DEF Told
<1>2. ASSUME NEW i \in Intents, Handed(i) PROVE Told'
  <2>1. IdsGiven' /\ IdsUnique' BY <1>2 DEF Handed, Told, IdsGiven, IdsUnique
  <2>2. wire'[i] > 0 /\ \A j \in Intents : wire'[j] >= wire[j] /\ (wire[j] > 0 => wire'[j] > 0)
    BY <1>0, <1>2, Shape DEF Handed
  <2>3. SentRecords' BY <1>2, <2>2 DEF Handed, Told, SentRecords
  <2>4. Received'
    <3>1. disk[i].id # 0 BY <1>2 DEF Handed, Told, IdsGiven
    <3>2. ASSUME NEW n \in robot' PROVE \E j \in Intents : wire'[j] > 0 /\ disk'[j].id = n /\ n # 0
      BY <1>2, <2>2, <3>1, <3>2 DEF Handed, Told, Received
    <3> QED BY <3>2 DEF Received
  <2>5. Sending' BY <1>2, <2>2 DEF Handed, Sending, SendingPc
  <2> QED BY <2>1, <2>3, <2>4, <2>5 DEF Told
<1>3. ASSUME NEW i \in Intents, NEW id \in Nat, Taken(i, id) PROVE Told'
  <2>1. /\ disk'[i] = [st |-> "SENDING", id |-> id] /\ \A j \in Intents \ {i} : disk'[j] = disk[j]
        /\ UNCHANGED <<wire, robot>>
    BY <1>3, Shape DEF Taken
  <2>2. id # 0 /\ id <= idSeq' /\ idSeq <= idSeq' /\ (id = disk[i].id \/ id > idSeq)
    BY <1>0, <1>3 DEF Taken, Told, IdsGiven
  <2>3. IdsGiven'
    <3>1. ASSUME NEW j \in Intents
          PROVE  (disk'[j].st = "NONE" <=> disk'[j].id = 0) /\ disk'[j].id <= idSeq'
      BY <1>0, <2>1, <2>2 DEF Told, IdsGiven
    <3> QED BY <3>1 DEF IdsGiven
  <2>4. IdsUnique'
    <3>1. ASSUME NEW j \in Intents \ {i} PROVE disk'[j].id # id \/ disk'[j].id = 0
      BY <1>0, <1>3, <2>1, <2>2 DEF Told, IdsUnique, IdsGiven
    <3>2. ASSUME NEW j \in Intents, NEW k \in Intents, disk'[j].id # 0,
                 disk'[j].id = disk'[k].id
          PROVE  j = k
      BY <2>1, <2>2, <3>1, <3>2 DEF Told, IdsUnique
    <3> QED BY <3>2 DEF IdsUnique
  <2>5. SentRecords' BY <2>1 DEF Told, SentRecords
  <2>6. Received'
    <3>1. \A j \in Intents : disk[j].id # 0 => disk'[j].id = disk[j].id
      BY SendsStay
    <3> QED BY <2>1, <3>1 DEF Told, Received
  <2>7. Sending' BY <1>3, <2>1 DEF Taken, Sending, SendingPc
  <2> QED BY <2>3, <2>4, <2>5, <2>6, <2>7 DEF Told
<1>4. ASSUME NEW i \in Intents, NEW st \in {"SENT", "FAILED"}, Marked(i, st) PROVE Told'
  <2>1. /\ disk'[i].st = st /\ UNCHANGED <<wire, robot, idSeq>>
        /\ \A j \in Intents : /\ disk'[j].id = disk[j].id
                              /\ j # i => disk'[j].st = disk[j].st
    BY <1>4, Shape DEF Marked, Record
  <2>2. IdsGiven' /\ IdsUnique' BY <1>4, <2>1 DEF Marked, Told, IdsGiven, IdsUnique
  <2>3. Received' BY <2>1 DEF Told, Received
  <2>4. st = "SENT" => wire[i] > 0
    <3>1. ASSUME disk[i].id \in robot PROVE wire[i] > 0
      <4>1. PICK j \in Intents : wire[j] > 0 /\ disk[j].id = disk[i].id /\ disk[i].id # 0
        BY <3>1 DEF Told, Received
      <4>2. j = i BY <4>1 DEF Told, IdsUnique
      <4> QED BY <4>1, <4>2
    <3> QED BY <1>4, <3>1 DEF Marked
  <2>5. SentRecords' BY <2>1, <2>4 DEF Told, SentRecords
  <2>6. Sending' BY <1>4 DEF Marked, Sending, SendingPc
  <2> QED BY <2>2, <2>3, <2>5, <2>6 DEF Told
<1> QED BY <1>1, <1>2, <1>3, <1>4, RecordStep

\* Where a session's dispatch state, and that of a history, comes from.
LEMMA DispStep ==
  ASSUME TypeOK, [Next]_vars, NEW s \in Sessions
  PROVE  \/ disp'[s] = disp[s]
         \/ disp'[s].st # "SENT"
         \/ disp'[s] = history[Target[s]].disp
         \/ disk'[Target[s]].st = "SENT" /\ disp'[s].id = disk'[Target[s]].id
<1> USE DEF memory
<1> DEFINE Goal == \/ disp'[s] = disp[s]
                   \/ disp'[s].st # "SENT"
                   \/ disp'[s] = history[Target[s]].disp
                   \/ disk'[Target[s]].st = "SENT" /\ disp'[s].id = disk'[Target[s]].id
<1>1. ASSUME NEW t \in Sessions, NEW d, disp' = [disp EXCEPT ![t] = d], t # s PROVE Goal
  BY <1>1 DEF TypeOK
<1>2. ASSUME NEW t \in Sessions, NEW d, disp' = [disp EXCEPT ![t] = d], d.st # "SENT" PROVE Goal
  BY <1>2 DEF TypeOK
<1>3. CASE UNCHANGED disp BY <1>3
<1> DEFINE Put(t, d) == disp' = [disp EXCEPT ![t] = d]
           Quiet(t) == \/ UNCHANGED disp
                       \/ Put(t, Held) \/ Put(t, LegacyUnknown)
                       \/ Put(t, WithId("UNKNOWN", disk[Target[t]].id))
                       \/ Put(t, Result("none")) \/ Put(t, Result("FAILED"))
                       \/ Put(t, Result("SCHEDULED")) \/ Put(t, Result("BLOCKED"))
<1>4. ASSUME NEW t \in Sessions, Confirm(t) \/ Gate(t) \/ DispatchBegin(t) \/ Reserve(t)
                                  \/ Publish(t) \/ RecordFailed(t) \/ GuardFails(t)
      PROVE  Quiet(t)
  <2>1. CASE Confirm(t) BY <2>1 DEF Confirm
  <2>2. CASE Gate(t) BY <2>2 DEF Gate, Finish
  <2>3. CASE DispatchBegin(t) BY <2>3 DEF DispatchBegin, Finish
  <2>4. CASE Reserve(t) BY <2>4 DEF Reserve, Finish
  <2>5. CASE Publish(t) BY <2>5 DEF Publish, Finish
  <2>6. CASE RecordFailed(t) BY <2>6 DEF RecordFailed, Finish
  <2>7. CASE GuardFails(t) BY <2>7 DEF GuardFails
  <2> QED BY <1>4, <2>1, <2>2, <2>3, <2>4, <2>5, <2>6, <2>7
<1>5. ASSUME NEW t \in Sessions, ControlDecide(t) \/ \E act \in Controls : ControlBegin(t, act)
      PROVE  Quiet(t)
  <2>1. CASE ControlDecide(t) BY <2>1 DEF ControlDecide
  <2>2. CASE \E act \in Controls : ControlBegin(t, act) BY <2>2 DEF ControlBegin
  <2> QED BY <1>5, <2>1, <2>2
<1>13. ASSUME NEW t \in Sessions, Quiet(t) PROVE Goal
  <2>1. /\ Held.st # "SENT" /\ LegacyUnknown.st # "SENT"
        /\ WithId("UNKNOWN", disk[Target[t]].id).st # "SENT"
        /\ Result("none").st # "SENT" /\ Result("FAILED").st # "SENT"
        /\ Result("SCHEDULED").st # "SENT" /\ Result("BLOCKED").st # "SENT"
    BY DEF Held, LegacyUnknown, WithId, Result
  <2>2. ASSUME NEW d, d.st # "SENT", Put(t, d) PROVE Goal
    BY <1>2, <2>2
  <2> QED BY <1>3, <1>13, <2>1, <2>2
<1>6. ASSUME NEW t \in Sessions, Restore(t) PROVE Goal
  <2>1. \/ disp' = [disp EXCEPT ![t] = LegacyUnknown]
        \/ disp' = [disp EXCEPT ![t] = history[Target[t]].disp]
    BY <1>6 DEF Restore
  <2> QED BY <2>1 DEF TypeOK, LegacyUnknown
<1>7. ASSUME CheckRecord(s), TypeOK PROVE Goal
  <2> DEFINE i == Target[s]
  <2>0. i \in Intents BY Shape
  <2>1. CASE /\ disk[i].st = "SENT" /\ UNCHANGED disk
             /\ disp' = [disp EXCEPT ![s] = WithId("SENT", disk[i].id)]
    BY <2>1 DEF TypeOK, WithId
  <2>2. CASE \E w \in WriteOutcomes :
               /\ PutRecord(Host[s], i, [disk[i] EXCEPT !.st = "SENT"], w)
               /\ disp' = [disp EXCEPT ![s] = IF w = "ok" THEN WithId("SENT", disk[i].id)
                                              ELSE Result("FAILED")]
    <3>1. PICK w \in WriteOutcomes :
            /\ PutRecord(Host[s], i, [disk[i] EXCEPT !.st = "SENT"], w)
            /\ disp' = [disp EXCEPT ![s] = IF w = "ok" THEN WithId("SENT", disk[i].id)
                                           ELSE Result("FAILED")]
      BY <2>2
    <3>2. CASE w = "ok"
      <4>1. disk'[i].st = "SENT" /\ disk'[i].id = disk[i].id
        BY <2>0, <3>1, <3>2, Shape DEF PutRecord, Record
      <4>2. disp'[s].id = disk[i].id BY <3>1, <3>2 DEF TypeOK, WithId
      <4> QED BY <4>1, <4>2
    <3>3. CASE w # "ok" BY <3>1, <3>3 DEF TypeOK, Result
    <3> QED BY <3>2, <3>3
  <2>3. CASE Quiet(s) BY <1>13, <2>3
  <2>4. \/ /\ disk[i].st = "SENT" /\ UNCHANGED disk
           /\ disp' = [disp EXCEPT ![s] = WithId("SENT", disk[i].id)]
        \/ \E w \in WriteOutcomes :
              /\ PutRecord(Host[s], i, [disk[i] EXCEPT !.st = "SENT"], w)
              /\ disp' = [disp EXCEPT ![s] = IF w = "ok" THEN WithId("SENT", disk[i].id)
                                             ELSE Result("FAILED")]
        \/ Quiet(s)
    BY <1>7 DEF CheckRecord, Finish, store
  <2> QED BY <2>1, <2>2, <2>3, <2>4
<1>8. ASSUME RecordSent(s) PROVE Goal
  <2> DEFINE i == Target[s]
  <2>0. i \in Intents BY Shape
  <2>1. PICK w \in WriteOutcomes :
          /\ PutRecord(Host[s], i, [disk[i] EXCEPT !.st = "SENT"], w)
          /\ disp' = [disp EXCEPT ![s] = WithId(IF w = "ok" THEN "SENT" ELSE "UNKNOWN", disk[i].id)]
    BY <1>8 DEF RecordSent, Finish
  <2>2. CASE w = "ok"
    <3>1. disk'[i].st = "SENT" /\ disk'[i].id = disk[i].id
      BY <2>0, <2>1, <2>2, Shape DEF PutRecord, Record
    <3>2. disp'[s].id = disk[i].id BY <2>1, <2>2 DEF TypeOK, WithId
    <3> QED BY <3>1, <3>2
  <2>3. CASE w # "ok" BY <2>1, <2>3 DEF TypeOK, WithId
  <2> QED BY <2>2, <2>3
<1>9. ASSUME NEW t \in Sessions, CheckRecord(t) \/ RecordSent(t)
      PROVE  UNCHANGED disp \/ \E d : disp' = [disp EXCEPT ![t] = d]
  BY <1>9 DEF CheckRecord, RecordSent, Finish
<1>10. ASSUME NEW t \in Sessions, SaveConfirmed(t) \/ SaveResult(t) \/ ControlNote(t)
                 \/ ControlSend(t) \/ ControlMark(t) \/ ControlEnd(t) \/ ControlSave(t)
       PROVE  UNCHANGED disp
  BY <1>10 DEF SaveConfirmed, SaveResult, ControlNote, ControlSend, ControlMark, ControlEnd,
               ControlSave
<1>11. ASSUME NEW p \in Procs, Crash(p) PROVE Goal
  BY <1>11 DEF Crash, Result
<1>12. CASE Damage \/ Repair \/ (\E p \in Procs : Start(p) \/ Manage(p)) \/ UNCHANGED vars
  BY <1>3, <1>12 DEF Damage, Repair, Start, Manage, vars
<1> QED BY <1>1, <1>3, <1>4, <1>5, <1>6, <1>7, <1>8, <1>9, <1>10, <1>11, <1>12, <1>13
   DEF Next, Progress

LEMMA HistoryStep ==
  ASSUME TypeOK, [Next]_vars, NEW i \in Intents
  PROVE  \/ history'[i] = history[i]
         \/ \E s \in Sessions : Target[s] = i /\ history'[i].disp = disp[s]
<1> DEFINE Goal == \/ history'[i] = history[i]
                   \/ \E s \in Sessions : Target[s] = i /\ history'[i].disp = disp[s]
<1>1. ASSUME NEW s \in Sessions, NEW w, SaveHistory(s, w) PROVE Goal
  BY <1>1 DEF SaveHistory, SnapshotOf, TypeOK
<1>2. ASSUME NEW s \in Sessions,
             SaveConfirmed(s) \/ SaveResult(s) \/ ControlNote(s) \/ ControlSave(s)
      PROVE  Goal
  BY <1>1, <1>2 DEF SaveConfirmed, SaveResult, ControlNote, ControlSave
<1>3. ASSUME NEW s \in Sessions,
             \/ Confirm(s) \/ Restore(s) \/ GuardFails(s) \/ DispatchBegin(s) \/ CheckRecord(s) \/ Gate(s)
             \/ Reserve(s) \/ Publish(s) \/ RecordSent(s) \/ RecordFailed(s)
             \/ ControlDecide(s) \/ ControlSend(s) \/ ControlMark(s) \/ ControlEnd(s)
             \/ \E act \in Controls : ControlBegin(s, act)
      PROVE  UNCHANGED history
  BY <1>3 DEF Confirm, Restore, GuardFails, DispatchBegin, CheckRecord, Gate, Reserve, Publish, RecordSent,
              RecordFailed, ControlDecide, ControlSend, ControlMark, ControlEnd, ControlBegin
<1>4. CASE \/ Damage \/ Repair \/ UNCHANGED vars
           \/ \E p \in Procs : Crash(p) \/ Start(p) \/ Manage(p)
  BY <1>4 DEF Damage, Repair, Crash, Start, Manage, vars
<1> QED BY <1>2, <1>3, <1>4 DEF Next, Progress

LEMMA DisplayStep ==
  ASSUME TypeOK, Inv, Told, Display, [Next]_vars, TypeOK'
  PROVE  Display'
<1>1. ASSUME NEW i \in Intents, NEW d, Shown(i, d)
      PROVE  d.st = "SENT" => wire'[i] > 0 /\ d.id = disk'[i].id /\ d.id # 0
  BY <1>1, SendsStay DEF Shown
<1>2. Told' BY ToldStep
<1>3. ASSUME NEW s \in Sessions, disp'[s].st = "SENT"
      PROVE  LET i == Target[s] IN
             wire'[i] > 0 /\ disp'[s].id = disk'[i].id /\ disp'[s].id # 0
  <2>0. Target[s] \in Intents BY Shape
  <2>1. CASE disp'[s] = disp[s] BY <1>1, <1>3, <2>0, <2>1 DEF Display
  <2>2. CASE disp'[s] = history[Target[s]].disp BY <1>1, <1>3, <2>0, <2>2 DEF Display
  <2>3. CASE disk'[Target[s]].st = "SENT" /\ disp'[s].id = disk'[Target[s]].id
    BY <1>2, <2>0, <2>3 DEF Told, SentRecords, IdsGiven
  <2> QED BY <1>3, <2>1, <2>2, <2>3, DispStep
<1>4. ASSUME NEW i \in Intents, history'[i].disp.st = "SENT"
      PROVE  /\ wire'[i] > 0 /\ history'[i].disp.id = disk'[i].id
             /\ history'[i].disp.id # 0
  <2>1. CASE history'[i] = history[i] BY <1>1, <1>4, <2>1 DEF Display
  <2>2. ASSUME NEW s \in Sessions, Target[s] = i, history'[i].disp = disp[s]
        PROVE  /\ wire'[i] > 0 /\ history'[i].disp.id = disk'[i].id
               /\ history'[i].disp.id # 0
    BY <1>1, <1>4, <2>2 DEF Display
  <2> QED BY <2>1, <2>2, HistoryStep
<1> QED BY <1>3, <1>4 DEF Display, Shown

LEMMA ToldCorrect == Spec => [](TypeOK /\ Inv /\ Told /\ Display)
<1>1. Init => Told /\ Display
  <2>1. ASSUME Init PROVE IdsGiven /\ IdsUnique /\ Received /\ SentRecords /\ Sending
    <3>1. \A i \in Intents : disk[i].st = "NONE" /\ disk[i].id = 0
      BY <2>1 DEF Init, NoRecord
    <3>2. idSeq = 0 /\ robot = {} /\ \A t \in Sessions : pc[t] \notin SendingPc
      BY <2>1 DEF Init, SendingPc
    <3>3. IdsGiven BY <3>1, <3>2 DEF IdsGiven
    <3>4. IdsUnique /\ Received /\ SentRecords BY <3>1, <3>2 DEF IdsUnique, Received, SentRecords
    <3>5. Sending BY <3>2 DEF Sending, SendingPc
    <3> QED BY <3>3, <3>4, <3>5
  <2>2. ASSUME Init PROVE Display
    <3>1. \A t \in Sessions : disp[t] = Result("none") BY <2>2 DEF Init
    <3>2. NoSnap.disp = Result("none") /\ [NoSnap EXCEPT !.there = TRUE].disp = NoSnap.disp
      BY DEF NoSnap
    <3>3. \A i \in Intents : history[i].disp = Result("none")
      BY <2>2, <3>2 DEF Init
    <3>4. Result("none").st # "SENT" BY DEF Result
    <3> QED BY <3>1, <3>3, <3>4 DEF Display, Shown
  <2> QED BY <2>1, <2>2 DEF Told
<1>2. TypeOK /\ Inv /\ Told /\ Display /\ [Next]_vars /\ TypeOK' => Told' /\ Display'
  BY ToldStep, DisplayStep
<1> QED BY <1>1, <1>2, TypeInit, TypeStep, InvCorrect, PTL DEF Spec

\* SentIsTrue: SENT is only shown for what was handed to the socket, with the id of
\* its record, also by a session that restored an old history after crashes.
THEOREM ShownSentIsSent == Spec => []SentIsTrue
<1>1. Display => SentIsTrue BY DEF Display, Shown, SentIsTrue
<1> QED BY <1>1, ToldCorrect, PTL

\* IdIsStable: the id a record carries is never replaced ("A failed transport
\* attempt keeps the same ROS task ID").
THEOREM IdNeverChanges == Spec => IdIsStable
<1>1. TypeOK /\ Inv /\ Told /\ Display /\ [Next]_vars =>
        [\A i \in Intents : disk[i].id # 0 => disk'[i].id = disk[i].id]_vars
  BY SendsStay
<1> QED BY <1>1, ToldCorrect, PTL DEF Spec, IdIsStable

\* IdsUnique: no two intents ever share a ROS task id, whichever write of the
\* counter or of the records fails and whichever process reserved it.
THEOREM IdsAreUnique == Spec => []IdsUnique
<1>1. Told => IdsUnique BY DEF Told
<1> QED BY <1>1, ToldCorrect, PTL

-----------------------------------------------------------------------------
(* A withdrawal is told truthfully, when every process has its bridge        *)

\* A session acts only in a process whose bridge is there.
Serving == /\ \A p \in Procs : bridge[p] # "none"
           /\ \A s \in Sessions : pc[s] # "out" => bridge[Host[s]] = "up"

\* A control request that reached its last write carries the transport's answer.
Answered == \A s \in Sessions : pc[s] = "ctlEnd" => last[s].out # "not_sent_cancelled"

LEMMA ServingStep ==
  ASSUME ~Degraded, TypeOK, Serving, [Next]_vars
  PROVE  Serving'
<1>0. /\ bridge \in [Procs -> {"down", "none", "up"}] /\ pc \in [Sessions -> PcState]
      /\ \A t \in Sessions : Host[t] \in Procs
  BY DispatchAssumption DEF TypeOK
<1>1. ASSUME NEW s \in Sessions,
             Confirm(s) \/ Restore(s) \/ GuardFails(s) \/ DispatchBegin(s) \/ Progress(s)
             \/ \E act \in Controls : ControlBegin(s, act)
      PROVE  Serving'
  <2>1. UNCHANGED bridge
    BY <1>1 DEF Confirm, Restore, GuardFails, DispatchBegin, ControlBegin, Progress, SaveConfirmed,
       SaveResult, CheckRecord, Gate, Reserve, Publish, RecordSent, RecordFailed, ControlDecide, ControlNote,
       ControlSend, ControlMark, ControlEnd, ControlSave, process
  <2>2. UNCHANGED pc \/ \E l : Goto(s, l)
    <3>1. CASE \/ Confirm(s) \/ Restore(s) \/ GuardFails(s) \/ DispatchBegin(s)
               \/ \E act \in Controls : ControlBegin(s, act)
      BY <3>1 DEF Confirm, Restore, GuardFails, DispatchBegin, ControlBegin, Finish, EndControl
    <3>2. CASE SaveConfirmed(s) \/ SaveResult(s) \/ CheckRecord(s) \/ Gate(s) \/ Reserve(s)
      BY <3>2 DEF SaveConfirmed, SaveResult, CheckRecord, Gate, Reserve, Finish
    <3>3. CASE Publish(s) \/ RecordSent(s) \/ RecordFailed(s)
      BY <3>3 DEF Publish, RecordSent, RecordFailed, Finish
    <3>4. CASE ControlDecide(s) \/ ControlNote(s) \/ ControlSend(s) \/ ControlMark(s)
               \/ ControlEnd(s) \/ ControlSave(s)
      BY <3>4 DEF ControlDecide, ControlNote, ControlSend, ControlMark, ControlEnd, ControlSave,
                  EndControl
    <3> QED BY <1>1, <3>1, <3>2, <3>3, <3>4 DEF Progress
  <2>3. pc[s] # "out" \/ bridge[Host[s]] # "down"
    BY <1>1 DEF Confirm, Restore, GuardFails, DispatchBegin, ControlBegin, Progress, SaveConfirmed,
       SaveResult, CheckRecord, Gate, Reserve, Publish, RecordSent, RecordFailed, ControlDecide, ControlNote,
       ControlSend, ControlMark, ControlEnd, ControlSave
  <2>4. bridge[Host[s]] = "up" BY <1>0, <2>3 DEF Serving
  <2>5. \A t \in Sessions : t # s => pc'[t] = pc[t] BY <1>0, <2>2 DEF Goto
  <2> QED BY <2>1, <2>4, <2>5 DEF Serving
<1>2. ASSUME NEW p \in Procs, Crash(p) PROVE Serving'
  BY <1>0, <1>2 DEF Crash, Serving
<1>3. ASSUME NEW p \in Procs, Start(p) PROVE Serving'
  BY <1>0, <1>3 DEF Start, Serving
<1>4. CASE (\E p \in Procs : Manage(p)) \/ Damage \/ Repair \/ UNCHANGED vars
  BY <1>4 DEF Manage, Damage, Repair, vars, process, Serving
<1> QED BY <1>1, <1>2, <1>3, <1>4 DEF Next

LEMMA AnsweredStep ==
  ASSUME TypeOK, Answered, [Next]_vars
  PROVE  Answered'
<1> USE DEF memory
<1>0. last \in [Sessions -> Request] /\ pc \in [Sessions -> PcState]
  BY DEF TypeOK
<1>1. ASSUME NEW s \in Sessions, NEW l, Goto(s, l), l # "ctlEnd",
             \A t \in Sessions : t # s => last'[t] = last[t]
      PROVE  Answered'
  BY <1>0, <1>1 DEF Answered, Goto
<1>2. ASSUME NEW s \in Sessions, UNCHANGED <<pc, last>> PROVE Answered'
  BY <1>2 DEF Answered
<1>3. ASSUME NEW s \in Sessions,
             \/ Confirm(s) \/ Restore(s) \/ GuardFails(s) \/ DispatchBegin(s) \/ SaveConfirmed(s)
             \/ SaveResult(s) \/ CheckRecord(s) \/ Gate(s) \/ Reserve(s)
             \/ \E act \in Controls : ControlBegin(s, act)
      PROVE  Answered'
  <2>1. \A t \in Sessions : t # s => last'[t] = last[t]
    BY <1>0, <1>3 DEF Confirm, Restore, GuardFails, DispatchBegin, SaveConfirmed, SaveResult, CheckRecord,
       Gate, Reserve, ControlBegin, EndControl
  <2>2. PICK l : Goto(s, l) /\ l \in {"confirmed", "idle", "recordCheck", "save", "auto", "gate",
                                     "ready", "sending", "ctlRead"}
    BY <1>3 DEF Confirm, Restore, GuardFails, DispatchBegin, SaveConfirmed, SaveResult, CheckRecord,
       Gate, Reserve, ControlBegin, Finish, EndControl
  <2> QED BY <1>1, <2>1, <2>2
<1>4. ASSUME NEW s \in Sessions, Publish(s) \/ RecordSent(s) \/ RecordFailed(s)
      PROVE  Answered'
  <2>1. UNCHANGED last BY <1>4 DEF Publish, RecordSent, RecordFailed
  <2>2. PICK l : Goto(s, l) /\ l \in {"sent", "failed", "save"}
    BY <1>4 DEF Publish, RecordSent, RecordFailed, Finish
  <2> QED BY <1>1, <2>1, <2>2
<1>5. ASSUME NEW s \in Sessions,
             ControlDecide(s) \/ ControlNote(s) \/ ControlEnd(s) \/ ControlSave(s)
      PROVE  Answered'
  <2>1. \A t \in Sessions : t # s => last'[t] = last[t]
    BY <1>0, <1>5 DEF ControlDecide, ControlNote, ControlEnd, ControlSave, EndControl
  <2>2. UNCHANGED <<pc, last>>
        \/ \E l \in {"save", "ctlSave", "ctlNote", "ctlSend"} : Goto(s, l)
    BY <1>5 DEF ControlDecide, ControlNote, ControlEnd, ControlSave, EndControl
  <2> QED BY <1>1, <1>2, <2>1, <2>2
<1>6. ASSUME NEW s \in Sessions, NEW out \in {"unknown", "failed", "sent"}, Goto(s, "ctlEnd"),
             last' = [last EXCEPT ![s].out = out]
      PROVE  Answered'
  <2>1. last'[s].out = out BY <1>0, <1>6 DEF Request
  <2> QED BY <1>0, <1>6, <2>1 DEF Answered, Goto
<1>7. ASSUME NEW s \in Sessions, ControlSend(s) PROVE Answered'
  <2>1. CASE Goto(s, "ctlMark") /\ UNCHANGED last BY <1>1, <2>1
  <2> QED BY <1>6, <1>7, <2>1 DEF ControlSend
<1>8. ASSUME NEW s \in Sessions, ControlMark(s) PROVE Answered'
  BY <1>6, <1>8 DEF ControlMark
<1>9. ASSUME NEW p \in Procs, Crash(p) PROVE Answered'
  BY <1>0, <1>9 DEF Crash, Answered
<1>10. CASE \/ Damage \/ Repair \/ UNCHANGED vars
            \/ \E p \in Procs : Start(p) \/ Manage(p)
  BY <1>10 DEF Damage, Repair, Start, Manage, vars, Answered
<1> QED BY <1>3, <1>4, <1>5, <1>7, <1>8, <1>9, <1>10 DEF Next, Progress

\* A withdrawal is only written by a request that read a record of something
\* never sent, and the guard and EvidenceKept make that reading true.
LEMMA NewWithdrawal ==
  ASSUME Legacy = {}, TypeOK, Inv, Serving, Answered, [Next]_vars,
         NEW i \in Intents, ~Cancelled(i), Cancelled(i)'
  PROVE  wire'[i] = 0
<1> DEFINE Goal == wire'[i] = 0
<1>0. ctl' # ctl BY DEF Cancelled
<1>1. ASSUME NEW s \in Sessions, NEW c, NEW w, PutControl(Target[s], c, w)
      PROVE  i = Target[s] /\ c.blocked /\ c.req.out = "not_sent_cancelled"
  BY <1>1, Shape DEF PutControl, Cancelled
<1>2. ASSUME NEW s \in Sessions, DispatchBegin(s) PROVE FALSE
  <2>1. PICK r, w : PutControl(Target[s], [blocked |-> FALSE, req |-> r], w)
    BY <1>0, <1>2 DEF DispatchBegin
  <2> QED BY <1>1, <2>1
<1>3. ASSUME NEW s \in Sessions, ControlEnd(s) PROVE FALSE
  <2>1. PICK w : PutControl(Target[s], [blocked |-> last[s].id = 0, req |-> last[s]], w)
    BY <1>3 DEF ControlEnd
  <2>2. last[s].out # "not_sent_cancelled" BY <1>3 DEF ControlEnd, Answered
  <2> QED BY <1>1, <2>1, <2>2
<1>4. ASSUME NEW s \in Sessions, ControlDecide(s) PROVE Goal
  <2> DEFINE r == disk[Target[s]]
  <2>1. bridge[Host[s]] = "up" BY <1>4 DEF ControlDecide, Serving
  <2>2. PICK b, a, id, w :
          PutControl(Target[s],
                     [blocked |-> b,
                      req |-> [act |-> a, id |-> id,
                               out |-> IF DefinitelyUnsent(s, r) THEN Hold(a) ELSE "requested"]],
                     w)
    BY <1>0, <1>4, <2>1 DEF ControlDecide
  <2>3. i = Target[s] /\ (IF DefinitelyUnsent(s, r) THEN Hold(a) ELSE "requested") = "not_sent_cancelled"
    BY <1>1, <2>2
  <2>4. disk[i].st \in {"FAILED", "NONE"} BY <2>3 DEF DefinitelyUnsent
  <2>5. wire[i] \in Nat /\ ~(wire[i] > 0) BY <2>4, Shape DEF Inv, EvidenceKept
  <2>6. UNCHANGED wire BY <1>4 DEF ControlDecide, outside
  <2> QED BY <2>5, <2>6
<1> QED BY <1>2, <1>3, <1>4, ControlWriters DEF Cancelled

\* WithdrawnMeansUnsent: whoever is told "尚未发送的任务已取消下发" is told the
\* truth.  Both hypotheses are needed: a process serving without a bridge object,
\* and an intent archived before there were send records, are treated as unsent
\* without evidence.
THEOREM WithdrawalIsTrue ==
  ASSUME ~Degraded, Legacy = {}
  PROVE  Spec => []WithdrawnMeansUnsent
<1>1. Init => Serving /\ Answered /\ WithdrawnMeansUnsent
  BY DispatchAssumption
  DEF Init, Serving, Answered, WithdrawnMeansUnsent, Cancelled, NoControl
<1>2. TypeOK /\ Inv /\ Serving /\ Answered /\ WithdrawnMeansUnsent /\ [Next]_vars =>
        Serving' /\ Answered' /\ WithdrawnMeansUnsent'
  <2> SUFFICES ASSUME TypeOK, Inv, Serving, Answered, WithdrawnMeansUnsent, [Next]_vars
               PROVE  Serving' /\ Answered' /\ WithdrawnMeansUnsent'
    OBVIOUS
  <2>1. ASSUME NEW i \in Intents, Cancelled(i)' PROVE wire'[i] = 0
    <3>1. CASE Cancelled(i) BY <3>1, WithdrawalStep DEF WithdrawnMeansUnsent
    <3>2. CASE ~Cancelled(i) BY <2>1, <3>2, NewWithdrawal
    <3> QED BY <3>1, <3>2
  <2> QED BY <2>1, ServingStep, AnsweredStep DEF WithdrawnMeansUnsent
<1> QED BY <1>1, <1>2, InvCorrect, PTL DEF Spec

=============================================================================
