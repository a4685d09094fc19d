------------------------ MODULE TaskPublicationProofs ------------------------
(***************************************************************************)
(* The publication of task files, for any sessions, processes and contents   *)
(* and any number of failed writes, crashes, power losses and deletions.     *)
(*                                                                           *)
(* The history hands out copies of drafts taken at any time, so nothing can  *)
(* be shown of the live drafts alone: each part of the invariant is stated   *)
(* of the live drafts and of every snapshot, and says what the shared files  *)
(* promise to a draft.  The files keep those promises because a confirmation *)
(* links without replacing and holds the lock until it knows the outcome.    *)
(***************************************************************************)
EXTENDS TaskPublication, TLAPS

Numbered   == {"recheck", "stage", "guard", "link"}
Publishing == Numbered \cup {"reserve", "sync"}

\* The session that has linked its file, and no other, holds the publish lock.
LockHeld == \A s \in Sessions : pubLock = s <=> pc[s] = "sync"

\* A confirmation under way keeps the draft it has accepted; from the link on the
\* official file is the artifact of its draft.
ConfirmHolds == \A s \in Sessions :
  /\ pc[s] \in Publishing =>
       draft[s].phase = "confirming" /\ draft[s].pending = NoFile /\ draft[s].intent # 0
  /\ pc[s] \in Numbered \cup {"sync"} => draft[s].task # 0
  /\ pc[s] = "sync" => files[draft[s].intent] = ArtifactOf(s)

\* What is shown as done is on stable storage, in a session or a snapshot.
Durable(d) == d.phase = "done" =>
  /\ d.intent \in synced /\ d.pending = NoFile
  /\ files[d.intent].task = d.task /\ files[d.intent].par = d.par

AllDurable ==
  /\ synced \subseteq {i \in Seqs : Exists(i)}
  /\ \A s \in Sessions : Durable(draft[s])
  /\ \A h \in saved : Durable(h)

\* A pending artifact names its intent, and is its file unless power was lost.
Waiting(d) == d.pending # NoFile =>
  d.intent # 0 /\ d.pending.task # 0 /\ (~PowerFails => files[d.intent] = d.pending)

AllWaiting ==
  /\ \A s \in Sessions : Waiting(draft[s])
  /\ \A h \in saved : Waiting(h)

\* A task id a draft keeps is that of a file on stable storage.
Filed(n) == n # 0 => \E i \in synced : files[i].task = n

AllFiled ==
  /\ \A s \in Sessions :
       /\ draft[s].pending = NoFile /\ pc[s] \notin Numbered \cup {"sync"} => Filed(draft[s].task)
       /\ pc[s] \in Publishing => Filed(work[s].prev)
  /\ \A h \in saved : h.pending = NoFile => Filed(h.task)

IInv == TypeOK /\ LockHeld /\ ConfirmHolds /\ AllDurable /\ AllWaiting /\ AllFiled

-----------------------------------------------------------------------------
(* Types *)

LEMMA Constants ==
  /\ NoFile \in Artifact /\ Fresh \in Draft /\ NoWork \in Work
  /\ 0 \in Seq0 /\ Seqs \subseteq Seq0 /\ Seq0 = Seqs \cup {0} /\ Seqs \subseteq Nat /\ 0 \notin Seqs
BY PublicationAssumption DEF NoFile, Artifact, Fresh, Draft, Phases, NoWork, Work, Seq0, Seqs

LEMMA InitType == Init => TypeOK
BY Constants, PublicationAssumption DEF Init, TypeOK, PcState

LEMMA FaultsType ==
  ASSUME faults \in 0..MaxFaults, NEW w, Costs(w)
  PROVE  faults' \in 0..MaxFaults
BY PublicationAssumption DEF Costs

LEMMA ReserveType ==
  ASSUME TypeOK, NEW p \in Procs, NEW k \in Kinds, NEW n \in Seqs, NEW w, Reserve(p, k, n, w)
  PROVE  /\ counter' \in [Kinds -> Seq0] /\ memory' \in [Procs -> [Kinds -> Seq0]]
         /\ issued' \in [Kinds -> [Seqs -> Nat]] /\ faults' \in 0..MaxFaults
<1>1. faults' \in 0..MaxFaults BY FaultsType DEF TypeOK, Reserve
<1>2. counter' \in [Kinds -> Seq0] BY Constants DEF TypeOK, Reserve
<1>3. memory' \in [Procs -> [Kinds -> Seq0]] BY Constants DEF TypeOK, Reserve
<1>4. issued' \in [Kinds -> [Seqs -> Nat]]
  <2>1. issued[k] \in [Seqs -> Nat] BY DEF TypeOK
  <2>2. [issued[k] EXCEPT ![n] = @ + 1] \in [Seqs -> Nat] BY <2>1
  <2> QED BY <2>2 DEF TypeOK, Reserve
<1> QED BY <1>1, <1>2, <1>3, <1>4

LEMMA DraftType ==
  ASSUME TypeOK, NEW s \in Sessions, NEW d \in Draft, draft' = [draft EXCEPT ![s] = d]
  PROVE  draft' \in [Sessions -> Draft]
BY DEF TypeOK

LEMMA PhaseType ==
  ASSUME NEW d \in Draft, NEW ph \in Phases
  PROVE  [d EXCEPT !.phase = ph] \in Draft
BY DEF Draft

LEMMA RollbackType ==
  ASSUME TypeOK, NEW s \in Sessions, NEW ph \in Phases, RolledBack(s, ph)
  PROVE  /\ draft' \in [Sessions -> Draft] /\ work' \in [Sessions -> Work]
         /\ pc' \in [Sessions -> PcState]
<1>1. work[s].prev \in Seq0 /\ draft[s] \in Draft BY DEF TypeOK, Work
<1>2. [draft[s] EXCEPT !.phase = ph, !.task = work[s].prev] \in Draft BY <1>1 DEF Draft
<1>3. draft' = [draft EXCEPT ![s] = [draft[s] EXCEPT !.phase = ph, !.task = work[s].prev]]
  BY DEF TypeOK, RolledBack
<1>4. draft' \in [Sessions -> Draft] BY <1>2, <1>3, DraftType
<1>5. work' \in [Sessions -> Work] BY Constants DEF TypeOK, RolledBack
<1>6. pc' \in [Sessions -> PcState] BY DEF TypeOK, RolledBack, Goto, PcState
<1> QED BY <1>4, <1>5, <1>6

LEMMA ArtifactType ==
  ASSUME TypeOK, NEW s \in Sessions
  PROVE  ArtifactOf(s) \in Artifact
<1>1. draft[s] \in Draft /\ work[s] \in Work BY DEF TypeOK
<1>2. draft[s].task \in Seq0 /\ draft[s].par \in Params \cup {NoParam} /\ work[s].ver \in 0..MaxVer
  BY <1>1 DEF Draft, Work
<1> QED BY <1>2 DEF Artifact, ArtifactOf

LEMMA GoneType ==
  ASSUME TypeOK, NEW dead, Gone(dead)
  PROVE  /\ memory' \in [Procs -> [Kinds -> Seq0]] /\ draft' \in [Sessions -> Draft]
         /\ pc' \in [Sessions -> PcState] /\ work' \in [Sessions -> Work]
         /\ pubLock' \in Sessions \cup {NoOne} /\ faults' \in 0..MaxFaults
<1>1. memory' \in [Procs -> [Kinds -> Seq0]]
  <2>1. \A p \in Procs : memory[p] \in [Kinds -> Seq0] BY DEF TypeOK
  <2>2. [k \in Kinds |-> 0] \in [Kinds -> Seq0] BY Constants
  <2> QED BY <2>1, <2>2 DEF Gone
<1>2. draft' \in [Sessions -> Draft] BY Constants DEF TypeOK, Gone
<1>3. pc' \in [Sessions -> PcState] BY DEF TypeOK, Gone, PcState
<1>4. work' \in [Sessions -> Work] BY Constants DEF TypeOK, Gone
<1>5. pubLock' \in Sessions \cup {NoOne} BY DEF TypeOK, Gone
<1>6. faults' \in 0..MaxFaults BY PublicationAssumption DEF TypeOK, Gone
<1> QED BY <1>1, <1>2, <1>3, <1>4, <1>5, <1>6

\* A draft's turn: what it may become, whatever the reservation of its id does.
LEMMA FilledType ==
  ASSUME TypeOK, NEW s \in Sessions, NEW q \in Params, FillSlots(s, q)
  PROVE  TypeOK'
<1>1. PICK ph \in Phases \ {"done"} :
        \/ \E n \in Seqs, w \in WriteOutcomes :
             /\ Reserve(Host[s], "TI", n, w)
             /\ draft' = IF w = "ok"
                         THEN [draft EXCEPT ![s] =
                                 [draft[s] EXCEPT !.phase = ph, !.par = q, !.intent = n]]
                         ELSE draft
        \/ /\ draft' = [draft EXCEPT ![s] = [draft[s] EXCEPT !.phase = ph, !.par = q]]
           /\ UNCHANGED <<ids, faults>>
  BY DEF FillSlots
<1>2. draft[s] \in Draft BY DEF TypeOK
<1>3. \A n \in Seqs : [draft[s] EXCEPT !.phase = ph, !.par = q, !.intent = n] \in Draft
  BY <1>2, Constants DEF Draft
<1>4. [draft[s] EXCEPT !.phase = ph, !.par = q] \in Draft BY <1>2 DEF Draft
<1>5. draft' \in [Sessions -> Draft] BY <1>1, <1>3, <1>4, DraftType DEF TypeOK
<1>6. /\ counter' \in [Kinds -> Seq0] /\ memory' \in [Procs -> [Kinds -> Seq0]]
      /\ issued' \in [Kinds -> [Seqs -> Nat]] /\ faults' \in 0..MaxFaults
  <2>1. Host[s] \in Procs /\ "TI" \in Kinds BY PublicationAssumption DEF Kinds
  <2> QED BY <1>1, <2>1, ReserveType DEF ids, TypeOK
<1> QED BY <1>5, <1>6 DEF FillSlots, archive, TypeOK

LEMMA OpenedType ==
  ASSUME TypeOK, NEW t \in Sessions, NEW h \in saved, NEW s \in Sessions, OpenHistory(t, h, s)
  PROVE  TypeOK'
<1> DEFINE base == IF h.phase = "done" /\ ~Confirmed(h) THEN [h EXCEPT !.phase = "collecting"]
                   ELSE h
<1>1. h \in Draft /\ draft[s] \in Draft /\ base \in Draft
  BY DEF TypeOK, Draft, Phases
<1>2. \A n \in Seqs : [base EXCEPT !.intent = n] \in Draft
  BY <1>1, Constants DEF Draft
<1>3. \/ UNCHANGED <<saved, draft>>
      \/ /\ saved' \subseteq saved \cup {draft[s]}
         /\ \E d \in Draft : draft' = [draft EXCEPT ![t] = d]
  BY <1>1, <1>2 DEF OpenHistory
<1>4. saved' \subseteq Draft /\ draft' \in [Sessions -> Draft]
  BY <1>1, <1>3, DraftType DEF TypeOK
<1>5. \/ UNCHANGED <<ids, faults>>
      \/ \E n \in Seqs, w \in WriteOutcomes : Reserve(Host[t], "TI", n, w)
  BY DEF OpenHistory
<1>6. /\ counter' \in [Kinds -> Seq0] /\ memory' \in [Procs -> [Kinds -> Seq0]]
      /\ issued' \in [Kinds -> [Seqs -> Nat]] /\ faults' \in 0..MaxFaults
  <2>1. Host[t] \in Procs /\ "TI" \in Kinds BY PublicationAssumption DEF Kinds
  <2> QED BY <1>5, <2>1, ReserveType DEF ids, TypeOK
<1> QED BY <1>4, <1>6 DEF OpenHistory, archive, TypeOK

LEMMA ConfirmedType ==
  ASSUME TypeOK, ConfirmHolds, NEW s \in Sessions, Progress(s)
  PROVE  TypeOK'
<1> USE DEF archive, ids
<1>0. draft[s] \in Draft /\ work[s] \in Work BY DEF TypeOK
<1>1. CASE ReserveTask(s)
  <2>1. Host[s] \in Procs /\ "TASK" \in Kinds /\ "confirming" \in Phases
    BY PublicationAssumption DEF Kinds, Phases
  <2>2. CASE Rollback(s) /\ UNCHANGED <<ids, faults>>
    BY <1>1, <2>1, <2>2, RollbackType DEF ReserveTask, Rollback, TypeOK
  <2>3. ASSUME NEW n \in Seqs, NEW w \in WriteOutcomes, Reserve(Host[s], "TASK", n, w)
        PROVE  /\ counter' \in [Kinds -> Seq0] /\ memory' \in [Procs -> [Kinds -> Seq0]]
               /\ issued' \in [Kinds -> [Seqs -> Nat]] /\ faults' \in 0..MaxFaults
    BY <2>1, <2>3, ReserveType
  <2>4. ASSUME NEW n \in Seqs, NEW w \in WriteOutcomes, Reserve(Host[s], "TASK", n, w), Rollback(s)
        PROVE  TypeOK'
    BY <1>1, <2>1, <2>3, <2>4, RollbackType DEF ReserveTask, Rollback, TypeOK
  <2>5. ASSUME NEW n \in Seqs, NEW w \in WriteOutcomes, Reserve(Host[s], "TASK", n, w),
               draft' = [draft EXCEPT ![s].task = n], Goto(s, "recheck"), UNCHANGED work
        PROVE  TypeOK'
    <3>1. [draft[s] EXCEPT !.task = n] \in Draft BY <1>0, Constants DEF Draft
    <3>2. draft' = [draft EXCEPT ![s] = [draft[s] EXCEPT !.task = n]] BY <2>5 DEF TypeOK
    <3>3. draft' \in [Sessions -> Draft] BY <3>1, <3>2, DraftType
    <3>4. pc' \in [Sessions -> PcState] BY <2>5 DEF TypeOK, Goto, PcState
    <3> QED BY <1>1, <2>3, <2>5, <3>3, <3>4 DEF ReserveTask, TypeOK
  <2> QED BY <1>1, <2>2, <2>4, <2>5 DEF ReserveTask
<1>2. CASE Recheck(s)
  <2>1. CASE Rollback(s)
    BY <1>2, <2>1, RollbackType DEF Recheck, Rollback, Phases, TypeOK
  <2>2. CASE RolledBack(s, "blocked")
    BY <1>2, <2>2, RollbackType DEF Recheck, Phases, TypeOK
  <2>3. CASE Goto(s, "stage") /\ UNCHANGED <<work, draft>>
    BY <1>2, <2>3 DEF Recheck, Goto, PcState, TypeOK
  <2>4. CASE Goto(s, "stage") /\ work' = [work EXCEPT ![s].ver = version] /\ UNCHANGED draft
    BY <1>2, <2>4 DEF Recheck, Goto, PcState, TypeOK, Work
  <2> QED BY <1>2, <2>1, <2>2, <2>3, <2>4 DEF Recheck
<1>3. CASE CreateStaging(s)
  <2>1. draft[s].intent \in Seqs
    BY <1>0, <1>3, Constants DEF CreateStaging, ConfirmHolds, Publishing, Numbered, Draft
  <2>2. staged' \subseteq Seqs /\ faults' \in 0..MaxFaults
    BY <1>3, <2>1, FaultsType DEF CreateStaging, TypeOK
  <2>3. CASE Rollback(s)
    BY <1>3, <2>2, <2>3, RollbackType DEF CreateStaging, Rollback, Phases, TypeOK
  <2>4. CASE Goto(s, "guard") /\ UNCHANGED <<draft, work>>
    BY <1>3, <2>2, <2>4 DEF CreateStaging, Goto, PcState, TypeOK
  <2> QED BY <1>3, <2>3, <2>4 DEF CreateStaging
<1>4. CASE GuardVersion(s)
  <2>1. CASE Rollback(s)
    BY <1>4, <2>1, RollbackType DEF GuardVersion, Rollback, Phases, TypeOK
  <2>2. CASE Goto(s, "link") /\ UNCHANGED <<draft, work>>
    BY <1>4, <2>2 DEF GuardVersion, Goto, PcState, TypeOK
  <2> QED BY <1>4, <2>1, <2>2 DEF GuardVersion
<1>5. CASE Link(s)
  <2>1. faults' \in 0..MaxFaults BY <1>5, FaultsType DEF Link, TypeOK
  <2>2. CASE Rollback(s) /\ UNCHANGED <<files, pubLock>>
    BY <1>5, <2>1, <2>2, RollbackType DEF Link, Rollback, Phases, TypeOK
  <2>3. CASE /\ files' = [files EXCEPT ![draft[s].intent] = ArtifactOf(s)]
             /\ pubLock' = s /\ Goto(s, "sync") /\ UNCHANGED <<draft, work, faults>>
    BY <1>5, <2>3, ArtifactType DEF Link, Goto, PcState, TypeOK
  <2> QED BY <1>5, <2>2, <2>3 DEF Link
<1>6. CASE Sync(s)
  <2>1. draft[s].intent \in Seqs
    BY <1>0, <1>6, Constants DEF Sync, ConfirmHolds, Publishing, Numbered, Draft
  <2>2. synced' \subseteq Seqs /\ faults' \in 0..MaxFaults
    BY <1>6, <2>1, FaultsType DEF Sync, TypeOK
  <2>3. [draft[s] EXCEPT !.phase = "done", !.pending = NoFile] \in Draft
    BY <1>0, Constants DEF Draft, Phases
  <2>4. [draft[s] EXCEPT !.pending = ArtifactOf(s)] \in Draft
    BY <1>0, ArtifactType DEF Draft
  <2>5. draft' \in [Sessions -> Draft]
    <3>1. \/ draft' = [draft EXCEPT ![s] = [draft[s] EXCEPT !.phase = "done", !.pending = NoFile]]
          \/ draft' = [draft EXCEPT ![s] = [draft[s] EXCEPT !.pending = ArtifactOf(s)]]
      BY <1>6 DEF Sync, Complete, Uncertain, TypeOK
    <3> QED BY <2>3, <2>4, <3>1, DraftType
  <2>6. work' \in [Sessions -> Work] BY <1>6, Constants DEF Sync, TypeOK
  <2>7. pc' \in [Sessions -> PcState] BY <1>6 DEF Sync, Goto, PcState, TypeOK
  <2> QED BY <1>6, <2>2, <2>5, <2>6, <2>7 DEF Sync, Unlock, TypeOK
<1>7. CASE SaveHistory(s)
  BY <1>0, <1>7 DEF SaveHistory, Goto, PcState, TypeOK
<1> QED BY <1>1, <1>2, <1>3, <1>4, <1>5, <1>6, <1>7 DEF Progress

LEMMA StepType ==
  ASSUME TypeOK, ConfirmHolds, AllWaiting, [Next]_vars
  PROVE  TypeOK'
<1> USE DEF archive, ids
<1>1. ASSUME NEW s \in Sessions, NEW q \in Params, FillSlots(s, q) PROVE TypeOK'
  BY <1>1, FilledType
<1>2. ASSUME NEW s \in Sessions, RefreshConstraints(s) PROVE TypeOK'
  <2>1. PICK ph \in Phases : draft' = [draft EXCEPT ![s] = [draft[s] EXCEPT !.phase = ph]]
    BY <1>2 DEF RefreshConstraints, TypeOK
  <2> QED BY <1>2, <2>1, PhaseType, DraftType DEF RefreshConstraints, TypeOK
<1>3. ASSUME NEW s \in Sessions, Reset(s) PROVE TypeOK'
  BY <1>3, Constants DEF Reset, TypeOK
<1>4. ASSUME NEW s \in Sessions, Confirm(s) PROVE TypeOK'
  <2>1. CASE UNCHANGED draft
    BY <1>4, <2>1 DEF Confirm, Goto, PcState, Work, Draft, TypeOK
  <2>2. CASE ~UNCHANGED draft
    <3>1. PICK ph \in Phases : draft' = [draft EXCEPT ![s] = [draft[s] EXCEPT !.phase = ph]]
      BY <1>4, <2>2 DEF Confirm, Phases, TypeOK
    <3> QED BY <1>4, <2>2, <3>1, PhaseType, DraftType DEF Confirm, TypeOK
  <2> QED BY <2>1, <2>2
<1>5. ASSUME NEW s \in Sessions, Recover(s) PROVE TypeOK'
  <2>1. draft[s].intent \in Seqs /\ draft[s] \in Draft
    BY <1>5, Constants DEF Recover, AllWaiting, Waiting, Draft, TypeOK
  <2>2. synced' \subseteq Seqs /\ faults' \in 0..MaxFaults
    BY <1>5, <2>1, FaultsType DEF Recover, TypeOK
  <2>3. [draft[s] EXCEPT !.phase = "done", !.pending = NoFile] \in Draft
    BY <2>1, Constants DEF Draft, Phases
  <2>4. \/ UNCHANGED draft
        \/ draft' = [draft EXCEPT ![s] = [draft[s] EXCEPT !.phase = "done", !.pending = NoFile]]
    BY <1>5 DEF Recover, Complete, TypeOK
  <2>5. draft' \in [Sessions -> Draft] BY <2>3, <2>4, DraftType DEF TypeOK
  <2>6. pc' \in [Sessions -> PcState] BY <1>5 DEF Recover, Goto, PcState, TypeOK
  <2> QED BY <1>5, <2>2, <2>5, <2>6 DEF Recover, TypeOK
<1>6. ASSUME NEW s \in Sessions, AnswerPending(s) PROVE TypeOK'
  <2>1. \/ UNCHANGED draft
        \/ \E ph \in Phases : draft' = [draft EXCEPT ![s] = [draft[s] EXCEPT !.phase = ph]]
    BY <1>6 DEF AnswerPending, TypeOK
  <2>2. draft' \in [Sessions -> Draft] BY <2>1, PhaseType, DraftType DEF TypeOK
  <2> QED BY <1>6, <2>2 DEF AnswerPending, Goto, PcState, TypeOK
<1>7. ASSUME NEW s \in Sessions, Progress(s) PROVE TypeOK'
  BY <1>7, ConfirmedType
<1>8. ASSUME NEW t \in Sessions, NEW h \in saved, NEW s \in Sessions, OpenHistory(t, h, s)
      PROVE  TypeOK'
  BY <1>8, OpenedType
<1>9. ASSUME NEW p \in Procs, Crash(p) PROVE TypeOK'
  <2>1. Gone({p}) BY <1>9 DEF Crash
  <2> QED BY <1>9, <2>1, GoneType DEF Crash, TypeOK
<1>10. CASE SetStatus
  BY <1>10, PublicationAssumption DEF SetStatus, TypeOK
<1>11. CASE PowerLoss
  <2>1. Gone(Procs) BY <1>11 DEF PowerLoss
  <2>2. files' \in [Seqs -> Artifact] BY <1>11, Constants DEF PowerLoss, TypeOK
  <2>3. synced' \subseteq Seqs /\ staged' \subseteq Seqs BY <1>11 DEF PowerLoss, TypeOK
  <2> QED BY <1>11, <2>1, <2>2, <2>3, GoneType DEF PowerLoss, TypeOK
<1>12. CASE LoseCounters
  BY <1>12, Constants, PublicationAssumption DEF LoseCounters, TypeOK
<1>13. CASE UNCHANGED vars
  BY <1>13 DEF vars, TypeOK
<1> QED
  BY <1>1, <1>2, <1>3, <1>4, <1>5, <1>6, <1>7, <1>8, <1>9, <1>10, <1>11, <1>12, <1>13 DEF Next

-----------------------------------------------------------------------------
(* What a step does to a draft, and to the request its session serves.       *)

Stands(s) ==
  /\ draft'[s] = draft[s] /\ work'[s].prev = work[s].prev
  /\ pc[s] = "sync" => work'[s] = work[s]
  /\ \/ pc'[s] = pc[s]
     \/ {pc[s], pc'[s]} = {"idle", "save"}
     \/ pc[s] \in Numbered /\ pc'[s] \in Numbered
Drops(s)   == draft'[s] = Fresh /\ pc'[s] = "idle"
Accepts(s) ==
  /\ pc[s] = "idle" /\ pc'[s] = "reserve" /\ draft'[s] = draft[s]
  /\ draft[s].phase = "confirming" /\ draft[s].pending = NoFile /\ draft[s].intent # 0
  /\ work'[s].prev = draft[s].task
Numbers(s) ==
  /\ pc[s] = "reserve" /\ pc'[s] = "recheck" /\ work'[s] = work[s]
  /\ \A t \in Sessions \ {s} : pc'[t] = pc[t]
  /\ \E n \in Seqs : /\ draft'[s] = [draft[s] EXCEPT !.task = n]
                      /\ IsNext(n, Host[s], "TASK") /\ Reserve(Host[s], "TASK", n, "ok")
GivesUp(s) ==
  /\ pc[s] \in Publishing \ {"sync"} /\ pc'[s] = "idle"
  /\ \E ph \in {"confirming", "blocked"} :
       draft'[s] = [draft[s] EXCEPT !.phase = ph, !.task = work[s].prev]
Links(s) ==
  /\ pc[s] = "link" /\ pc'[s] = "sync" /\ draft'[s] = draft[s] /\ work'[s] = work[s]
  /\ ~Exists(draft[s].intent)
  /\ files' = [files EXCEPT ![draft[s].intent] = ArtifactOf(s)] /\ synced' = synced
Settles(s) ==
  /\ pc[s] = "sync" /\ pc'[s] = "save" /\ files' = files
  /\ synced \subseteq synced' /\ synced' \subseteq synced \cup {draft[s].intent}
  /\ \/ /\ draft[s].intent \in synced'
        /\ draft'[s] = [draft[s] EXCEPT !.phase = "done", !.pending = NoFile]
     \/ draft'[s] = [draft[s] EXCEPT !.pending = ArtifactOf(s)]
Recovers(s) ==
  /\ pc[s] = "idle" /\ pc'[s] = "save" /\ files' = files
  /\ draft[s].phase = "confirming" /\ draft[s].pending # NoFile /\ Same(s)
  /\ draft[s].task = draft[s].pending.task /\ draft[s].par = draft[s].pending.par
  /\ synced \subseteq synced' /\ synced' \subseteq synced \cup {draft[s].intent}
  /\ \/ /\ draft[s].intent \in synced'
        /\ draft'[s] = [draft[s] EXCEPT !.phase = "done", !.pending = NoFile]
     \/ draft'[s] = draft[s]

\* A turn, telemetry or an answer: the phase moves, or an open draft is edited.
Moves(s) ==
  /\ pc[s] = "idle" /\ pc'[s] \in {"idle", "save"}
  /\ draft'[s].task = draft[s].task /\ draft'[s].pending = draft[s].pending
  /\ draft'[s].phase # "done"
  /\ \/ draft[s].pending = NoFile
     \/ draft'[s].intent = draft[s].intent /\ draft'[s].par = draft[s].par

\* A snapshot becomes the draft, unless it was done and its file is not there.
Opens(s) ==
  /\ pc[s] = "idle" /\ pc'[s] = "idle" /\ draft[s] = Fresh
  /\ \E h \in saved :
       \/ draft'[s] = h
       \/ /\ draft'[s].phase # "done" /\ draft'[s].task = h.task
          /\ draft'[s].pending = h.pending
          /\ h.intent = 0 \/ h.phase = "done"

DraftStep == \A s \in Sessions :
  \/ Stands(s) \/ Drops(s) \/ Accepts(s) \/ Numbers(s) \/ GivesUp(s) \/ Links(s)
  \/ Settles(s) \/ Recovers(s) \/ Moves(s) \/ Opens(s)

LEMMA ConfirmationDraft ==
  ASSUME TypeOK, ConfirmHolds, NEW s \in Sessions, Progress(s)
  PROVE  DraftStep
<1>0. draft[s] \in Draft /\ work[s] \in Work BY DEF TypeOK
<1>1. ASSUME NEW ph \in {"confirming", "blocked"}, RolledBack(s, ph),
             pc[s] \in Publishing \ {"sync"}
      PROVE  DraftStep
  <2>1. GivesUp(s) BY <1>1 DEF RolledBack, Goto, GivesUp, TypeOK
  <2>2. \A t \in Sessions \ {s} : Stands(t) BY <1>1 DEF RolledBack, Goto, Stands, TypeOK
  <2> QED BY <2>1, <2>2 DEF DraftStep
<1>2. CASE ReserveTask(s)
  <2>1. CASE Rollback(s)
    BY <1>1, <1>2, <2>1 DEF ReserveTask, Rollback, Publishing, Numbered
  <2>2. ASSUME NEW n \in Seqs, IsNext(n, Host[s], "TASK"), Reserve(Host[s], "TASK", n, "ok"),
               draft' = [draft EXCEPT ![s].task = n], Goto(s, "recheck"), UNCHANGED work
        PROVE  DraftStep
    <3>1. Numbers(s) BY <1>2, <2>2 DEF ReserveTask, Goto, Numbers, TypeOK
    <3>2. \A t \in Sessions \ {s} : Stands(t) BY <2>2 DEF Goto, Stands, TypeOK
    <3> QED BY <3>1, <3>2 DEF DraftStep
  <2> QED BY <1>2, <2>1, <2>2 DEF ReserveTask
<1>3. CASE Recheck(s)
  <2>1. CASE Rollback(s) \/ RolledBack(s, "blocked")
    BY <1>1, <1>3, <2>1 DEF Recheck, Rollback, Publishing, Numbered
  <2>2. CASE Goto(s, "stage") /\ UNCHANGED draft
             /\ (UNCHANGED work \/ work' = [work EXCEPT ![s].ver = version])
    BY <1>3, <2>2 DEF Recheck, Goto, DraftStep, Stands, Numbered, TypeOK, Work
  <2> QED BY <1>3, <2>1, <2>2 DEF Recheck
<1>4. CASE CreateStaging(s)
  <2>1. CASE Rollback(s)
    BY <1>1, <1>4, <2>1 DEF CreateStaging, Rollback, Publishing, Numbered
  <2>2. CASE Goto(s, "guard") /\ UNCHANGED <<draft, work>>
    BY <1>4, <2>2 DEF CreateStaging, Goto, DraftStep, Stands, Numbered, TypeOK
  <2> QED BY <1>4, <2>1, <2>2 DEF CreateStaging
<1>5. CASE GuardVersion(s)
  <2>1. CASE Rollback(s)
    BY <1>1, <1>5, <2>1 DEF GuardVersion, Rollback, Publishing, Numbered
  <2>2. CASE Goto(s, "link") /\ UNCHANGED <<draft, work>>
    BY <1>5, <2>2 DEF GuardVersion, Goto, DraftStep, Stands, Numbered, TypeOK
  <2> QED BY <1>5, <2>1, <2>2 DEF GuardVersion
<1>6. CASE Link(s)
  <2>1. CASE Rollback(s)
    BY <1>1, <1>6, <2>1 DEF Link, Rollback, Publishing, Numbered
  <2>2. CASE /\ CanLink(s) /\ files' = [files EXCEPT ![draft[s].intent] = ArtifactOf(s)]
             /\ Goto(s, "sync") /\ UNCHANGED <<draft, work>>
    <3>1. Links(s) BY <1>6, <2>2 DEF Link, CanLink, Goto, Links, TypeOK
    <3>2. \A t \in Sessions \ {s} : Stands(t) BY <2>2 DEF Goto, Stands, TypeOK
    <3> QED BY <3>1, <3>2 DEF DraftStep
  <2> QED BY <1>6, <2>1, <2>2 DEF Link
<1>7. CASE Sync(s)
  <2>1. Settles(s)
    BY <1>0, <1>7 DEF Sync, Complete, Uncertain, Goto, Settles, TypeOK, WriteOutcomes
  <2>2. \A t \in Sessions \ {s} : Stands(t)
    BY <1>7 DEF Sync, Complete, Uncertain, Goto, Stands, TypeOK
  <2> QED BY <2>1, <2>2 DEF DraftStep
<1>8. CASE SaveHistory(s)
  BY <1>8 DEF SaveHistory, Goto, DraftStep, Stands, TypeOK
<1> QED BY <1>2, <1>3, <1>4, <1>5, <1>6, <1>7, <1>8 DEF Progress

LEMMA StepDraft ==
  ASSUME TypeOK, ConfirmHolds, [Next]_vars
  PROVE  DraftStep
<1>0. \A s \in Sessions : draft[s] \in Draft BY DEF TypeOK
<1>1. ASSUME NEW s \in Sessions, NEW q \in Params, FillSlots(s, q) PROVE DraftStep
  <2>1. PICK ph \in Phases \ {"done"} :
          \/ draft' = draft
          \/ \E n \in Seqs : draft' = [draft EXCEPT ![s] =
                               [draft[s] EXCEPT !.phase = ph, !.par = q, !.intent = n]]
          \/ draft' = [draft EXCEPT ![s] = [draft[s] EXCEPT !.phase = ph, !.par = q]]
    BY <1>1 DEF FillSlots
  <2>2. pc[s] = "idle" /\ pc' = pc /\ work' = work /\ draft[s].pending = NoFile
    BY <1>1 DEF FillSlots, Changeable
  <2>3. \A t \in Sessions \ {s} : Stands(t) BY <2>1, <2>2 DEF Stands, TypeOK
  <2>4. CASE draft' = draft BY <2>2, <2>4 DEF DraftStep, Stands
  <2>5. CASE draft' # draft
    <3>1. /\ draft'[s].task = draft[s].task /\ draft'[s].pending = draft[s].pending
          /\ draft'[s].phase = ph
      <4>1. \/ \E n \in Seqs :
                 draft'[s] = [draft[s] EXCEPT !.phase = ph, !.par = q, !.intent = n]
            \/ draft'[s] = [draft[s] EXCEPT !.phase = ph, !.par = q]
        BY <2>1, <2>5 DEF TypeOK
      <4> QED BY <1>0, <4>1 DEF Draft
    <3>2. Moves(s) BY <2>2, <3>1 DEF Moves
    <3> QED BY <2>3, <3>2 DEF DraftStep
  <2> QED BY <2>4, <2>5
<1>2. ASSUME NEW s \in Sessions, RefreshConstraints(s) PROVE DraftStep
  BY <1>0, <1>2 DEF RefreshConstraints, DraftStep, Moves, Stands, TypeOK, Draft
<1>3. ASSUME NEW s \in Sessions, Reset(s) PROVE DraftStep
  BY <1>3 DEF Reset, DraftStep, Drops, Stands, TypeOK
<1>4. ASSUME NEW s \in Sessions, Confirm(s) PROVE DraftStep
  <2>2. ASSUME NEW ph \in {"collecting", "blocked"}, draft' = [draft EXCEPT ![s].phase = ph],
               UNCHANGED <<pc, work>>
        PROVE  DraftStep
    <3>1. Moves(s) BY <1>0, <1>4, <2>2 DEF Confirm, Moves, Draft, TypeOK
    <3>2. \A t \in Sessions \ {s} : Stands(t) BY <2>2 DEF Stands, TypeOK
    <3> QED BY <3>1, <3>2 DEF DraftStep
  <2>3. CASE draft[s].intent # 0 /\ UNCHANGED draft /\ Goto(s, "reserve")
             /\ work' = [work EXCEPT ![s] = [ver |-> version, prev |-> draft[s].task]]
    <3>1. Accepts(s) BY <1>4, <2>3 DEF Confirm, Accepts, Goto, TypeOK
    <3>2. \A t \in Sessions \ {s} : Stands(t) BY <2>3 DEF Goto, Stands, TypeOK
    <3> QED BY <3>1, <3>2 DEF DraftStep
  <2> QED BY <1>4, <2>2, <2>3 DEF Confirm
<1>5. ASSUME NEW s \in Sessions, Recover(s) PROVE DraftStep
  <2>1. \A t \in Sessions \ {s} : Stands(t)
    BY <1>5 DEF Recover, Complete, Goto, Stands, TypeOK
  <2>2. CASE ~Same(s) /\ UNCHANGED draft
    BY <1>5, <2>1, <2>2 DEF Recover, Goto, DraftStep, Stands, TypeOK
  <2>3. CASE ~(~Same(s) /\ UNCHANGED draft)
    <3>1. Recovers(s)
      BY <1>5, <2>3 DEF Recover, Complete, Goto, Recovers, TypeOK, WriteOutcomes
    <3> QED BY <2>1, <3>1 DEF DraftStep
  <2> QED BY <2>2, <2>3
<1>6. ASSUME NEW s \in Sessions, AnswerPending(s) PROVE DraftStep
  <2>1. \/ UNCHANGED draft
        \/ \E ph \in Phases \ {"done"} : draft' = [draft EXCEPT ![s].phase = ph]
    BY <1>6 DEF AnswerPending
  <2> QED BY <1>0, <1>6, <2>1 DEF AnswerPending, Goto, DraftStep, Moves, Stands, TypeOK, Draft
<1>7. ASSUME NEW s \in Sessions, Progress(s) PROVE DraftStep
  BY <1>7, ConfirmationDraft
<1>8. ASSUME NEW t \in Sessions, NEW h \in saved, NEW s \in Sessions, OpenHistory(t, h, s)
      PROVE  DraftStep
  <2>1. \A x \in Sessions \ {t} : Stands(x)
    BY <1>8 DEF OpenHistory, Stands, TypeOK
  <2>2. h \in Draft BY DEF TypeOK
  <2>3. CASE draft' = draft
    BY <1>8, <2>1, <2>3 DEF OpenHistory, DraftStep, Stands, TypeOK
  <2>4. CASE draft' # draft
    <3> DEFINE stale == h.phase = "done" /\ ~Confirmed(h)
               base == IF stale THEN [h EXCEPT !.phase = "collecting"] ELSE h
    <3>0. \/ ~stale /\ h.intent # 0 /\ draft' = [draft EXCEPT ![t] = base]
          \/ /\ stale \/ h.intent = 0
             /\ \E n \in Seqs : draft' = [draft EXCEPT ![t] = [base EXCEPT !.intent = n]]
      BY <1>8, <2>4 DEF OpenHistory
    <3>1. CASE ~stale /\ h.intent # 0
      BY <1>8, <2>1, <3>0, <3>1 DEF OpenHistory, DraftStep, Opens, TypeOK
    <3>2. CASE stale
      <4>1. PICK n \in Seqs : draft'[t] = [h EXCEPT !.phase = "collecting", !.intent = n]
        BY <2>2, <3>0, <3>2 DEF TypeOK, Draft
      <4>2. Opens(t) BY <1>8, <2>2, <3>2, <4>1 DEF OpenHistory, Opens, Draft
      <4> QED BY <2>1, <4>2 DEF DraftStep
    <3>3. CASE ~stale /\ h.intent = 0
      <4>1. PICK n \in Seqs : draft'[t] = [h EXCEPT !.intent = n]
        BY <2>2, <3>0, <3>3 DEF TypeOK, Draft
      <4>2. h.phase # "done" BY <3>3 DEF Confirmed
      <4>3. Opens(t) BY <1>8, <2>2, <3>3, <4>1, <4>2 DEF OpenHistory, Opens, Draft
      <4> QED BY <2>1, <4>3 DEF DraftStep
    <3> QED BY <3>1, <3>2, <3>3
  <2> QED BY <2>3, <2>4
<1>9. ASSUME NEW dead, Gone(dead) PROVE DraftStep
  BY <1>9 DEF Gone, DraftStep, Drops, Stands
<1>10. CASE SetStatus \/ LoseCounters \/ UNCHANGED vars
  BY <1>10 DEF SetStatus, LoseCounters, vars, DraftStep, Stands
<1> QED
  BY <1>1, <1>2, <1>3, <1>4, <1>5, <1>6, <1>7, <1>8, <1>9, <1>10 DEF Next, Crash, PowerLoss

-----------------------------------------------------------------------------
(* What a step does to the shared files, the history and the lock.           *)

FileStep ==
  \/ files' = files /\ synced' = synced
  \/ \E s \in Sessions : Links(s) \/ Settles(s) \/ Recovers(s)
  \/ /\ PowerFails /\ \A s \in Sessions : Drops(s)
     /\ \E gone \in SUBSET {i \in Seqs \ synced : Exists(i)} :
          /\ files' = [i \in Seqs |-> IF i \in gone THEN NoFile ELSE files[i]]
          /\ synced' = {i \in Seqs \ gone : Exists(i)}

LEMMA StepFile ==
  ASSUME TypeOK, ConfirmHolds, [Next]_vars
  PROVE  FileStep
<1> USE DEF archive
<1>1. ASSUME NEW s \in Sessions, Link(s) PROVE FileStep
  <2>1. CASE UNCHANGED files BY <1>1, <2>1 DEF Link, FileStep
  <2>2. CASE ~UNCHANGED files
    <3>1. Links(s) BY <1>1, <2>2 DEF Link, CanLink, Goto, Links, TypeOK
    <3> QED BY <3>1 DEF FileStep
  <2> QED BY <2>1, <2>2
<1>2. ASSUME NEW s \in Sessions, Sync(s) PROVE FileStep
  <2>1. draft[s] \in Draft BY DEF TypeOK
  <2>2. Settles(s)
    BY <1>2, <2>1 DEF Sync, Complete, Uncertain, Goto, Settles, TypeOK, WriteOutcomes
  <2> QED BY <2>2 DEF FileStep
<1>3. ASSUME NEW s \in Sessions, Recover(s) PROVE FileStep
  <2>1. CASE ~Same(s) /\ UNCHANGED synced BY <1>3, <2>1 DEF Recover, FileStep
  <2>2. CASE ~(~Same(s) /\ UNCHANGED synced)
    <3>1. Recovers(s)
      BY <1>3, <2>2 DEF Recover, Complete, Goto, Recovers, TypeOK, WriteOutcomes
    <3> QED BY <3>1 DEF FileStep
  <2> QED BY <2>1, <2>2
<1>4. ASSUME NEW s \in Sessions, Progress(s) PROVE FileStep
  <2>1. CASE ReserveTask(s) \/ Recheck(s) \/ CreateStaging(s) \/ GuardVersion(s) \/ SaveHistory(s)
    BY <2>1 DEF ReserveTask, Recheck, CreateStaging, GuardVersion, SaveHistory, FileStep
  <2> QED BY <1>1, <1>2, <1>4, <2>1 DEF Progress
<1>5. CASE PowerLoss
  <2>1. \A s \in Sessions : Drops(s)
    BY <1>5, PublicationAssumption DEF PowerLoss, Gone, Drops
  <2> QED BY <1>5, <2>1 DEF PowerLoss, FileStep
<1>6. ASSUME NEW s \in Sessions, NEW q \in Params, FillSlots(s, q) PROVE FileStep
  BY <1>6 DEF FillSlots, FileStep
<1>7. ASSUME NEW s \in Sessions,
             RefreshConstraints(s) \/ Reset(s) \/ Confirm(s) \/ AnswerPending(s)
      PROVE  FileStep
  BY <1>7 DEF RefreshConstraints, Reset, Confirm, AnswerPending, FileStep
<1>8. ASSUME NEW t \in Sessions, NEW h \in saved, NEW s \in Sessions, OpenHistory(t, h, s)
      PROVE  FileStep
  BY <1>8 DEF OpenHistory, FileStep
<1>9. ASSUME NEW p \in Procs, Crash(p) PROVE FileStep
  BY <1>9 DEF Crash, FileStep
<1>10. CASE SetStatus \/ LoseCounters \/ UNCHANGED vars
  BY <1>10 DEF SetStatus, LoseCounters, vars, FileStep
<1> QED BY <1>3, <1>4, <1>5, <1>6, <1>7, <1>8, <1>9, <1>10 DEF Next

\* Only a draft that is at rest goes into the history.
LEMMA StepSaved ==
  ASSUME TypeOK, [Next]_vars
  PROVE  \A h \in saved' :
           h \in saved \/ \E s \in Sessions : h = draft[s] /\ pc[s] \in {"idle", "save"}
<1> DEFINE Grown == \A h \in saved' :
             h \in saved \/ \E s \in Sessions : h = draft[s] /\ pc[s] \in {"idle", "save"}
<1>1. ASSUME NEW s \in Sessions, NEW q \in Params, FillSlots(s, q) PROVE Grown
  BY <1>1 DEF FillSlots
<1>2. ASSUME NEW s \in Sessions, \/ RefreshConstraints(s) \/ Reset(s) \/ Confirm(s) \/ Recover(s)
                                 \/ AnswerPending(s) PROVE Grown
  BY <1>2 DEF RefreshConstraints, Reset, Confirm, Recover, AnswerPending
<1>3. ASSUME NEW s \in Sessions, Progress(s) PROVE Grown
  <2>1. CASE SaveHistory(s) BY <2>1 DEF SaveHistory
  <2> QED BY <1>3, <2>1 DEF Progress, ReserveTask, Recheck, CreateStaging, GuardVersion, Link, Sync
<1>4. ASSUME NEW t \in Sessions, NEW h \in saved, NEW s \in Sessions, OpenHistory(t, h, s)
      PROVE  Grown
  <2>1. UNCHANGED saved \/ saved' \subseteq saved \cup {draft[s]}
    BY <1>4 DEF OpenHistory
  <2> QED BY <1>4, <2>1 DEF OpenHistory
<1>5. ASSUME NEW p \in Procs, Crash(p) PROVE Grown
  BY <1>5 DEF Crash
<1>6. CASE SetStatus \/ PowerLoss \/ LoseCounters \/ UNCHANGED vars
  BY <1>6 DEF SetStatus, PowerLoss, LoseCounters, vars
<1> QED BY <1>1, <1>2, <1>3, <1>4, <1>5, <1>6 DEF Next

LEMMA StepLock ==
  ASSUME TypeOK, LockHeld, [Next]_vars
  PROVE  LockHeld'
<1>0. NoOne \notin Sessions BY PublicationAssumption
<1>1. ASSUME NEW s \in Sessions, NEW q \in Params, FillSlots(s, q) PROVE LockHeld'
  BY <1>1 DEF FillSlots, LockHeld
<1>2. ASSUME NEW s \in Sessions, \/ RefreshConstraints(s) \/ Reset(s) \/ Confirm(s) \/ Recover(s)
                                 \/ AnswerPending(s) PROVE LockHeld'
  BY <1>2 DEF RefreshConstraints, Reset, Confirm, Recover, AnswerPending, Goto, LockHeld, TypeOK
<1>3. ASSUME NEW s \in Sessions, Progress(s) PROVE LockHeld'
  <2>1. ASSUME NEW ph, RolledBack(s, ph), pc[s] # "sync", UNCHANGED pubLock PROVE LockHeld'
    BY <2>1 DEF RolledBack, Goto, LockHeld, TypeOK
  <2>2. ASSUME NEW l, l # "sync", Goto(s, l), pc[s] # "sync", UNCHANGED pubLock PROVE LockHeld'
    BY <2>2 DEF Goto, LockHeld, TypeOK
  <2>3. CASE ReserveTask(s) BY <2>1, <2>2, <2>3 DEF ReserveTask, Rollback
  <2>4. CASE Recheck(s) BY <2>1, <2>2, <2>4 DEF Recheck, Rollback
  <2>5. CASE CreateStaging(s) BY <2>1, <2>2, <2>5 DEF CreateStaging, Rollback
  <2>6. CASE GuardVersion(s) BY <2>1, <2>2, <2>6 DEF GuardVersion, Rollback
  <2>7. CASE SaveHistory(s) BY <2>2, <2>7 DEF SaveHistory
  <2>8. CASE Link(s)
    <3>1. CASE UNCHANGED pubLock /\ Rollback(s) BY <2>1, <2>8, <3>1 DEF Link, Rollback
    <3>2. CASE pubLock' = s /\ Goto(s, "sync")
      BY <1>0, <2>8, <3>2 DEF Link, Goto, LockHeld, TypeOK
    <3> QED BY <2>8, <3>1, <3>2 DEF Link
  <2>9. CASE Sync(s) BY <1>0, <2>9 DEF Sync, Unlock, Goto, LockHeld, TypeOK
  <2> QED BY <1>3, <2>3, <2>4, <2>5, <2>6, <2>7, <2>8, <2>9 DEF Progress
<1>4. ASSUME NEW t \in Sessions, NEW h \in saved, NEW s \in Sessions, OpenHistory(t, h, s)
      PROVE  LockHeld'
  BY <1>4 DEF OpenHistory, LockHeld
<1>5. ASSUME NEW dead, Gone(dead) PROVE LockHeld'
  BY <1>0, <1>5 DEF Gone, LockHeld, TypeOK
<1>6. CASE SetStatus \/ LoseCounters \/ UNCHANGED vars
  BY <1>6 DEF SetStatus, LoseCounters, vars, LockHeld
<1> QED BY <1>1, <1>2, <1>3, <1>4, <1>5, <1>6 DEF Next, Crash, PowerLoss

-----------------------------------------------------------------------------
(* What the files promise                                                    *)

LEMMA FilesStay ==
  ASSUME TypeOK, FileStep
  PROVE  \/ PowerFails /\ \A s \in Sessions : Drops(s)
         \/ \A i \in Seqs : Exists(i) => files'[i] = files[i]
<1>1. ASSUME NEW s \in Sessions, Links(s) PROVE \A i \in Seqs : Exists(i) => files'[i] = files[i]
  BY <1>1 DEF Links, Exists, TypeOK
<1>2. ASSUME NEW s \in Sessions, Settles(s) \/ Recovers(s) PROVE files' = files
  BY <1>2 DEF Settles, Recovers
<1> QED BY <1>1, <1>2 DEF FileStep

LEMMA SyncedStays ==
  ASSUME TypeOK, ConfirmHolds, AllDurable, AllWaiting, FileStep
  PROVE  /\ \A i \in synced : i \in synced' /\ files'[i] = files[i]
         /\ synced' \subseteq {i \in Seqs : Exists(i)'}
<1> USE DEF Exists
<1> DEFINE Goal == /\ \A i \in synced : i \in synced' /\ files'[i] = files[i]
                   /\ synced' \subseteq {i \in Seqs : Exists(i)'}
<1>1. synced \subseteq {i \in Seqs : Exists(i)} BY DEF AllDurable
<1>2. ASSUME NEW s \in Sessions, Links(s) PROVE Goal
  <2>1. \A i \in Seqs : Exists(i) => files'[i] = files[i] BY <1>2 DEF Links, TypeOK
  <2> QED BY <1>1, <1>2, <2>1 DEF Links
<1>3. ASSUME NEW s \in Sessions, Settles(s) PROVE Goal
  <2>1. draft[s].intent \in Seqs /\ draft[s].task # 0 /\ files[draft[s].intent] = ArtifactOf(s)
    BY <1>3, Constants DEF Settles, ConfirmHolds, Publishing, Numbered, TypeOK, Draft
  <2>2. Exists(draft[s].intent) BY <2>1 DEF ArtifactOf
  <2> QED BY <1>1, <1>3, <2>1, <2>2 DEF Settles
<1>4. ASSUME NEW s \in Sessions, Recovers(s) PROVE Goal
  <2>1. draft[s].intent \in Seqs
    BY <1>4, Constants DEF Recovers, AllWaiting, Waiting, TypeOK, Draft
  <2>2. Exists(draft[s].intent) BY <1>4 DEF Recovers, Same
  <2> QED BY <1>1, <1>4, <2>1, <2>2 DEF Recovers
<1>5. ASSUME NEW gone \in SUBSET {i \in Seqs \ synced : Exists(i)},
             files' = [i \in Seqs |-> IF i \in gone THEN NoFile ELSE files[i]],
             synced' = {i \in Seqs \ gone : Exists(i)}
      PROVE  Goal
  BY <1>1, <1>5
<1> QED BY <1>1, <1>2, <1>3, <1>4, <1>5 DEF FileStep

LEMMA StepConfirm ==
  ASSUME TypeOK, ConfirmHolds, FileStep, DraftStep
  PROVE  ConfirmHolds'
<1> SUFFICES ASSUME NEW s \in Sessions
             PROVE  /\ pc'[s] \in Publishing =>
                         /\ draft'[s].phase = "confirming" /\ draft'[s].pending = NoFile
                         /\ draft'[s].intent # 0
                    /\ pc'[s] \in Numbered \cup {"sync"} => draft'[s].task # 0
                    /\ pc'[s] = "sync" => files'[draft'[s].intent] = ArtifactOf(s)'
  BY DEF ConfirmHolds
<1> USE DEF Publishing, Numbered
<1>0. draft[s] \in Draft BY DEF TypeOK
<1>1. CASE Stands(s)
  <2>1. ASSUME pc'[s] = "sync" PROVE files'[draft'[s].intent] = ArtifactOf(s)'
    <3>1. pc[s] = "sync" /\ draft'[s] = draft[s] /\ work'[s] = work[s]
      BY <1>1, <2>1 DEF Stands
    <3>2. draft[s].intent \in Seqs /\ files[draft[s].intent] = ArtifactOf(s) /\ draft[s].task # 0
      BY <1>0, <3>1, Constants DEF ConfirmHolds, Draft
    <3>3. Exists(draft[s].intent) BY <3>2 DEF Exists, ArtifactOf
    <3>4. ~Drops(s) BY <2>1 DEF Drops
    <3>5. files'[draft[s].intent] = files[draft[s].intent] BY <3>2, <3>3, <3>4, FilesStay
    <3> QED BY <3>1, <3>2, <3>5 DEF ArtifactOf
  <2> QED BY <1>1, <2>1 DEF Stands, ConfirmHolds
<1>2. CASE Drops(s) \/ GivesUp(s) \/ Settles(s) \/ Recovers(s) \/ Moves(s) \/ Opens(s)
  BY <1>2 DEF Drops, GivesUp, Settles, Recovers, Moves, Opens
<1>3. CASE Accepts(s)
  BY <1>3 DEF Accepts
<1>4. CASE Numbers(s)
  <2>1. PICK n \in Seqs : draft'[s] = [draft[s] EXCEPT !.task = n] BY <1>4 DEF Numbers
  <2>2. n # 0 BY Constants
  <2> QED BY <1>0, <1>4, <2>1, <2>2 DEF Numbers, ConfirmHolds, Draft
<1>5. CASE Links(s)
  <2>1. draft[s].intent \in Seqs BY <1>0, <1>5, Constants DEF Links, ConfirmHolds, Draft
  <2>2. files'[draft[s].intent] = ArtifactOf(s) BY <1>5, <2>1 DEF Links, TypeOK
  <2> QED BY <1>5, <2>2 DEF Links, ConfirmHolds, ArtifactOf
<1> QED BY <1>1, <1>2, <1>3, <1>4, <1>5 DEF DraftStep

\* What holds of a draft goes on holding of it in the history.
LEMMA DurableStays ==
  ASSUME TypeOK, ConfirmHolds, AllDurable, AllWaiting, FileStep, NEW d, Durable(d)
  PROVE  Durable(d)'
BY SyncedStays DEF Durable

LEMMA StepDurable ==
  ASSUME TypeOK, ConfirmHolds, AllDurable, AllWaiting, FileStep, DraftStep,
         \A h \in saved' : h \in saved \/ \E s \in Sessions : h = draft[s]
  PROVE  AllDurable'
<1>0. \A s \in Sessions : draft[s] \in Draft BY DEF TypeOK
<1>1. synced' \subseteq {i \in Seqs : Exists(i)'} BY SyncedStays
<1>2. ASSUME NEW h \in saved' PROVE Durable(h)'
  <2>1. Durable(h) BY <1>2 DEF AllDurable
  <2> QED BY <2>1, DurableStays
<1>3. ASSUME NEW s \in Sessions PROVE Durable(draft[s])'
  <2>1. CASE draft'[s] = draft[s]
    <3>1. Durable(draft[s]) BY DEF AllDurable
    <3> QED BY <2>1, <3>1, DurableStays
  <2>2. CASE Settles(s) /\ draft'[s] # draft[s]
    <3>1. CASE draft'[s] = [draft[s] EXCEPT !.pending = ArtifactOf(s)]
      BY <1>0, <2>2, <3>1 DEF Settles, ConfirmHolds, Publishing, Durable, Draft
    <3>2. CASE /\ draft[s].intent \in synced'
               /\ draft'[s] = [draft[s] EXCEPT !.phase = "done", !.pending = NoFile]
      <4>1. files'[draft[s].intent] = ArtifactOf(s) BY <2>2 DEF Settles, ConfirmHolds
      <4> QED BY <1>0, <3>2, <4>1 DEF Durable, ArtifactOf, Draft
    <3> QED BY <2>2, <3>1, <3>2 DEF Settles
  <2>3. CASE Recovers(s) /\ draft'[s] # draft[s]
    BY <1>0, <2>3 DEF Recovers, Same, Durable, Draft
  <2>4. CASE Opens(s)
    <3>1. PICK h \in saved : draft'[s] = h \/ draft'[s].phase # "done" BY <2>4 DEF Opens
    <3>2. Durable(h) BY DEF AllDurable
    <3> QED BY <3>1, <3>2, DurableStays DEF Durable
  <2>5. CASE Drops(s) \/ Numbers(s) \/ GivesUp(s) \/ Moves(s)
    <3>1. CASE Drops(s) BY <3>1 DEF Drops, Fresh, Durable
    <3>2. CASE Numbers(s)
      BY <1>0, <3>2 DEF Numbers, ConfirmHolds, Publishing, Durable, Draft
    <3>3. CASE GivesUp(s) BY <1>0, <3>3 DEF GivesUp, Durable, Draft
    <3>4. CASE Moves(s) BY <3>4 DEF Moves, Durable
    <3> QED BY <2>5, <3>1, <3>2, <3>3, <3>4
  <2>6. CASE Stands(s) \/ Accepts(s) \/ Links(s)
    BY <2>1, <2>6 DEF Stands, Accepts, Links
  <2> QED BY <2>1, <2>2, <2>3, <2>4, <2>5, <2>6 DEF DraftStep
<1> QED BY <1>1, <1>2, <1>3 DEF AllDurable

LEMMA WaitingStays ==
  ASSUME TypeOK, FileStep, NEW d \in Draft, Waiting(d)
  PROVE  Waiting(d)'
<1>1. CASE d.pending = NoFile BY <1>1 DEF Waiting
<1>2. CASE PowerFails BY <1>2 DEF Waiting
<1>3. CASE d.pending # NoFile /\ ~PowerFails
  <2>1. d.intent \in Seqs /\ files[d.intent] = d.pending /\ d.pending.task # 0
    BY <1>3, Constants DEF Waiting, Draft
  <2>2. files'[d.intent] = files[d.intent] BY <1>3, <2>1, FilesStay DEF Exists
  <2> QED BY <1>3, <2>1, <2>2 DEF Waiting
<1> QED BY <1>1, <1>2, <1>3

LEMMA StepWaiting ==
  ASSUME TypeOK, ConfirmHolds, AllDurable, AllWaiting, FileStep, DraftStep,
         \A h \in saved' : h \in saved \/ \E s \in Sessions : h = draft[s]
  PROVE  AllWaiting'
<1>0. (\A s \in Sessions : draft[s] \in Draft) /\ saved \subseteq Draft BY DEF TypeOK
<1>1. ASSUME NEW h \in saved' PROVE Waiting(h)'
  <2>1. Waiting(h) /\ h \in Draft BY <1>0, <1>1 DEF AllWaiting
  <2> QED BY <2>1, WaitingStays
<1>2. ASSUME NEW s \in Sessions PROVE Waiting(draft[s])'
  <2>1. CASE draft'[s] = draft[s]
    <3>1. Waiting(draft[s]) BY DEF AllWaiting
    <3> QED BY <1>0, <2>1, <3>1, WaitingStays
  <2>2. CASE Settles(s) /\ draft'[s] = [draft[s] EXCEPT !.pending = ArtifactOf(s)]
    BY <1>0, <2>2 DEF Settles, ConfirmHolds, Publishing, Numbered, Waiting, ArtifactOf, Draft
  <2>3. CASE draft'[s] = [draft[s] EXCEPT !.phase = "done", !.pending = NoFile]
    BY <1>0, <2>3 DEF Waiting, Draft
  <2>4. CASE Opens(s)
    <3>1. PICK h \in saved : \/ draft'[s] = h
                             \/ /\ draft'[s].pending = h.pending
                                /\ h.intent = 0 \/ h.phase = "done"
      BY <2>4 DEF Opens
    <3>2. Waiting(h) /\ Durable(h) /\ h \in Draft BY <1>0 DEF AllWaiting, AllDurable
    <3>3. Waiting(h)' BY <3>2, WaitingStays
    <3> QED BY <3>1, <3>2, <3>3 DEF Waiting, Durable
  <2>5. CASE Moves(s)
    <3>2. Waiting(draft[s]) BY DEF AllWaiting
    <3>3. CASE draft[s].pending = NoFile BY <2>5, <3>3 DEF Moves, Waiting
    <3>4. CASE draft[s].pending # NoFile
      <4>1. draft[s].intent \in Seqs /\ (~PowerFails => files[draft[s].intent] = draft[s].pending)
        BY <1>0, <3>2, <3>4, Constants DEF Waiting, Draft
      <4>2. ~PowerFails => files'[draft[s].intent] = files[draft[s].intent]
        BY <3>2, <3>4, <4>1, FilesStay DEF Waiting, Exists
      <4> QED BY <2>5, <3>2, <3>4, <4>1, <4>2 DEF Moves, Waiting
    <3> QED BY <3>3, <3>4
  <2>6. CASE Drops(s) BY <2>6 DEF Drops, Fresh, Waiting
  <2>7. CASE Numbers(s)
    BY <1>0, <2>7 DEF Numbers, ConfirmHolds, Publishing, Waiting, Draft
  <2>8. CASE GivesUp(s)
    BY <1>0, <2>8 DEF GivesUp, ConfirmHolds, Waiting, Draft
  <2> QED BY <2>1, <2>2, <2>3, <2>4, <2>5, <2>6, <2>7, <2>8
          DEF DraftStep, Stands, Accepts, Links, Settles, Recovers
<1> QED BY <1>1, <1>2 DEF AllWaiting

LEMMA FiledStays ==
  ASSUME TypeOK, ConfirmHolds, AllDurable, AllWaiting, FileStep, NEW n, Filed(n)
  PROVE  Filed(n)'
BY SyncedStays DEF Filed

LEMMA StepFiled ==
  ASSUME TypeOK, ConfirmHolds, AllDurable, AllWaiting, AllFiled, FileStep, DraftStep,
         \A h \in saved' :
           h \in saved \/ \E s \in Sessions : h = draft[s] /\ pc[s] \in {"idle", "save"}
  PROVE  AllFiled'
<1> USE DEF Publishing, Numbered
<1>0. \A s \in Sessions : draft[s] \in Draft BY DEF TypeOK
<1>1. ASSUME NEW h \in saved', h.pending = NoFile PROVE Filed(h.task)'
  <2>1. Filed(h.task) BY <1>1 DEF AllFiled
  <2> QED BY <2>1, FiledStays
<1>2. ASSUME NEW s \in Sessions, draft'[s].pending = NoFile,
             pc'[s] \notin Numbered \cup {"sync"}
      PROVE  Filed(draft[s].task)'
  <2>1. CASE Stands(s) \/ Accepts(s) \/ Moves(s)
    <3>1. draft'[s].task = draft[s].task /\ Filed(draft[s].task)
      BY <1>2, <2>1 DEF Stands, Accepts, Moves, AllFiled
    <3> QED BY <3>1, FiledStays
  <2>2. CASE Drops(s) BY <2>2 DEF Drops, Fresh, Filed
  <2>3. CASE Numbers(s) \/ Links(s) BY <1>2, <2>3 DEF Numbers, Links
  <2>4. CASE GivesUp(s)
    <3>1. draft'[s].task = work[s].prev /\ Filed(work[s].prev)
      BY <1>0, <2>4 DEF GivesUp, AllFiled, Draft
    <3> QED BY <3>1, FiledStays
  <2>5. CASE Settles(s)
    <3>1. files'[draft[s].intent] = ArtifactOf(s) /\ draft[s].task # 0
      BY <2>5 DEF Settles, ConfirmHolds
    <3>2. ArtifactOf(s) # NoFile BY <3>1 DEF ArtifactOf, NoFile
    <3>3. draft'[s] # [draft[s] EXCEPT !.pending = ArtifactOf(s)] BY <1>0, <1>2, <3>2 DEF Draft
    <3>4. draft[s].intent \in synced' /\ draft'[s].task = draft[s].task
      BY <1>0, <2>5, <3>3 DEF Settles, Draft
    <3> QED BY <3>1, <3>4 DEF Filed, ArtifactOf
  <2>6. CASE Recovers(s)
    <3>1. /\ draft[s].intent \in synced' /\ draft'[s].task = draft[s].task
          /\ files'[draft[s].intent].task = draft[s].task
      BY <1>0, <1>2, <2>6 DEF Recovers, Same, Draft
    <3> QED BY <3>1 DEF Filed
  <2>7. CASE Opens(s)
    <3>1. PICK h \in saved : draft'[s].pending = h.pending /\ draft'[s].task = h.task
      BY <2>7 DEF Opens
    <3>2. Filed(h.task) BY <1>2, <3>1 DEF AllFiled
    <3> QED BY <3>1, <3>2, FiledStays
  <2> QED BY <2>1, <2>2, <2>3, <2>4, <2>5, <2>6, <2>7 DEF DraftStep
<1>3. ASSUME NEW s \in Sessions, pc'[s] \in Publishing PROVE Filed(work[s].prev)'
  <2>1. CASE Accepts(s)
    <3>1. work'[s].prev = draft[s].task /\ Filed(draft[s].task)
      BY <2>1 DEF Accepts, AllFiled
    <3> QED BY <3>1, FiledStays
  <2>2. CASE ~Accepts(s)
    <3>1. pc[s] \in Publishing /\ work'[s].prev = work[s].prev
      BY <1>3, <2>2 DEF DraftStep, Stands, Drops, Numbers, GivesUp, Links, Settles, Recovers,
                        Moves, Opens
    <3>2. Filed(work[s].prev) BY <3>1 DEF AllFiled
    <3> QED BY <3>1, <3>2, FiledStays
  <2> QED BY <2>1, <2>2
<1> QED BY <1>1, <1>2, <1>3 DEF AllFiled

-----------------------------------------------------------------------------
(* The theorems                                                              *)

LEMMA InitInv == Init => IInv
<1> SUFFICES ASSUME Init PROVE IInv OBVIOUS
<1>1. TypeOK BY InitType
<1>2. LockHeld BY PublicationAssumption DEF Init, LockHeld
<1>3. ConfirmHolds BY DEF Init, ConfirmHolds, Publishing, Numbered
<1>4. AllDurable BY DEF Init, AllDurable, Durable, Fresh
<1>5. AllWaiting BY DEF Init, AllWaiting, Waiting, Fresh
<1>6. AllFiled BY DEF Init, AllFiled, Filed, Fresh, Publishing, Numbered
<1> QED BY <1>1, <1>2, <1>3, <1>4, <1>5, <1>6 DEF IInv

LEMMA StepInv ==
  ASSUME IInv, [Next]_vars
  PROVE  IInv' /\ DraftStep /\ FileStep
<1> USE DEF IInv
<1>1. TypeOK' BY StepType
<1>2. LockHeld' BY StepLock
<1>3. DraftStep /\ FileStep BY StepDraft, StepFile
<1>4. \A h \in saved' :
        h \in saved \/ \E s \in Sessions : h = draft[s] /\ pc[s] \in {"idle", "save"}
  BY StepSaved
<1>5. ConfirmHolds' BY <1>3, StepConfirm
<1>6. AllDurable' BY <1>3, <1>4, StepDurable
<1>7. AllWaiting' BY <1>3, <1>4, StepWaiting
<1>8. AllFiled' BY <1>3, <1>4, StepFiled
<1> QED BY <1>1, <1>2, <1>3, <1>5, <1>6, <1>7, <1>8

LEMMA Invariance == Spec => []IInv
<1>1. IInv /\ [Next]_vars => IInv' BY StepInv
<1> QED BY <1>1, InitInv, PTL DEF Spec

\* TypeOK: every variable of TaskPublication stays in its domain.  A staging or a
\* synced file is named by an intent only because a confirmation under way has one.
THEOREM TypeCorrect == Spec => []TypeOK
<1>1. IInv => TypeOK BY DEF IInv
<1> QED BY <1>1, Invariance, PTL

\* DoneIsDurable: a task shown as done has its file on stable storage, with the
\* content shown, after any crash, power loss and opening of a snapshot.
THEOREM DoneMeansDurable == Spec => []DoneIsDurable
<1>1. IInv => DoneIsDurable BY DEF IInv, AllDurable, Durable, DoneIsDurable
<1> QED BY <1>1, Invariance, PTL

\* FailureLeavesNoId: the rollbacks of a failed confirmation leave no reserved
\* task id in the draft.
THEOREM RollbackIsComplete == Spec => []FailureLeavesNoId
<1>1. ASSUME IInv PROVE FailureLeavesNoId
  <2>1. SUFFICES ASSUME NEW s \in Sessions, pc[s] = "idle", draft[s].task # 0,
                        draft[s].pending = NoFile
                 PROVE  \E i \in Seqs : files[i].task = draft[s].task
    BY DEF FailureLeavesNoId
  <2>2. Filed(draft[s].task) BY <1>1, <2>1 DEF IInv, AllFiled, Numbered
  <2> QED BY <1>1, <2>1, <2>2 DEF IInv, TypeOK, Filed
<1> QED BY <1>1, Invariance, PTL

\* PendingIsThere: where the power does not fail, the pending artifact of a
\* session is the official file of its intent.
THEOREM PendingIsFiled ==
  ASSUME ~PowerFails
  PROVE  Spec => []PendingIsThere
<1>1. IInv => PendingIsThere BY DEF IInv, AllWaiting, Waiting, PendingIsThere
<1> QED BY <1>1, Invariance, PTL

\* FilesArePermanent: no step replaces an official file, and none removes one that
\* is on stable storage.
THEOREM NoOverwrite == Spec => FilesArePermanent
<1> DEFINE Kept == \A i \in Seqs : Exists(i) =>
                     /\ files'[i] \in {files[i], NoFile}
                     /\ i \in synced => files'[i] = files[i]
<1>1. ASSUME IInv, [Next]_vars PROVE Kept
  <2> USE <1>1 DEF IInv
  <2>1. FileStep BY StepInv
  <2>2. \A i \in synced : files'[i] = files[i] BY <2>1, SyncedStays
  <2>3. ASSUME NEW i \in Seqs, Exists(i) PROVE files'[i] \in {files[i], NoFile}
    <3>1. CASE files' = files BY <3>1
    <3>2. ASSUME NEW s \in Sessions, Links(s) PROVE files'[i] = files[i]
      BY <2>3, <3>2 DEF Links, TypeOK
    <3> QED BY <2>1, <3>1, <3>2 DEF FileStep, Settles, Recovers
  <2> QED BY <2>2, <2>3
<1>2. IInv /\ [Next]_vars => [Kept]_vars BY <1>1
<1> QED BY <1>2, Invariance, PTL DEF Spec, FilesArePermanent

\* PendingIsFrozen: a draft that waits with an artifact keeps its ids and content
\* until it is done or dropped.
THEOREM WaitingIsFrozen == Spec => PendingIsFrozen
<1> DEFINE Frozen == \A s \in Sessions : LET d == draft[s] e == draft'[s] IN
       d.pending # NoFile =>
         \/ e = Fresh
         \/ /\ e.intent = d.intent /\ e.task = d.task /\ e.par = d.par
            /\ \/ e.pending = d.pending /\ e.phase # "done"
               \/ e.pending = NoFile /\ e.phase = "done"
<1>1. ASSUME IInv, [Next]_vars PROVE Frozen
  <2> USE <1>1 DEF IInv
  <2>1. SUFFICES ASSUME NEW s \in Sessions, draft[s].pending # NoFile
                 PROVE  \/ draft'[s] = Fresh
                        \/ /\ draft'[s].intent = draft[s].intent
                           /\ draft'[s].task = draft[s].task /\ draft'[s].par = draft[s].par
                           /\ \/ draft'[s].pending = draft[s].pending /\ draft'[s].phase # "done"
                              \/ draft'[s].pending = NoFile /\ draft'[s].phase = "done"
    OBVIOUS
  <2>2. DraftStep BY StepInv
  <2>3. draft[s].phase # "done" BY <2>1 DEF AllDurable, Durable
  <2>4. pc[s] \notin Publishing BY <2>1 DEF ConfirmHolds
  <2>5. draft[s] \in Draft BY DEF TypeOK
  <2>6. CASE Stands(s) BY <2>3, <2>6 DEF Stands
  <2>7. CASE Drops(s) BY <2>7 DEF Drops
  <2>8. CASE Recovers(s) BY <2>3, <2>5, <2>8 DEF Recovers, Draft
  <2>9. CASE Moves(s) BY <2>1, <2>9 DEF Moves
  <2>10. CASE Opens(s) BY <2>1, <2>10 DEF Opens, Fresh
  <2>11. ~(Accepts(s) \/ Numbers(s) \/ GivesUp(s) \/ Links(s) \/ Settles(s))
    BY <2>1, <2>4 DEF Accepts, Numbers, GivesUp, Links, Settles, Publishing, Numbered
  <2> QED BY <2>2, <2>6, <2>7, <2>8, <2>9, <2>10, <2>11 DEF DraftStep
<1>2. IInv /\ [Next]_vars => [Frozen]_vars BY <1>1
<1> QED BY <1>2, Invariance, PTL DEF Spec, PendingIsFrozen

-----------------------------------------------------------------------------
(* Ids.  A process remembers what it handed out and the file remembers what   *)
(* every process did; an id that was used can only be found in the files.  A  *)
(* confirmation under way has used its id nowhere yet, so one of the first    *)
(* two must survive it: the counter file, or a memory that all sessions share.*)

OneSource == ~Losable \/ \A s, t \in Sessions : Host[s] = Host[t]

Counted == ~Losable => \A k \in Kinds, n \in Seqs : issued[k][n] # 0 =>
  n <= counter[k] /\ issued[k][n] = 1

Reserved == \A s \in Sessions : pc[s] \in Numbered =>
  /\ draft[s].task <= memory[Host[s]]["TASK"]
  /\ ~Losable => draft[s].task <= counter["TASK"]
  /\ \A i \in Seqs : files[i].task # draft[s].task
  /\ \A t \in Sessions \ {s} : pc[t] \in Numbered => draft[t].task # draft[s].task

IdStep ==
  \/ counter' = counter /\ issued' = issued /\ memory' = memory
  \/ \E s \in Sessions, k \in Kinds, n \in Seqs, w \in WriteOutcomes :
       IsNext(n, Host[s], k) /\ Reserve(Host[s], k, n, w)
  \/ /\ counter' = counter /\ issued' = issued
     /\ \A s \in Sessions : memory'[Host[s]] = memory[Host[s]] \/ Drops(s)
  \/ Losable /\ issued' = issued /\ memory' = memory

LEMMA StepId ==
  ASSUME TypeOK, [Next]_vars
  PROVE  IdStep
<1> USE DEF ids
<1>0. "TI" \in Kinds /\ "TASK" \in Kinds BY DEF Kinds
<1>1. ASSUME NEW s \in Sessions, NEW q \in Params, FillSlots(s, q) PROVE IdStep
  BY <1>0, <1>1 DEF FillSlots, IdStep
<1>2. ASSUME NEW s \in Sessions, \/ RefreshConstraints(s) \/ Reset(s) \/ Confirm(s) \/ Recover(s)
                                 \/ AnswerPending(s) PROVE IdStep
  BY <1>2 DEF RefreshConstraints, Reset, Confirm, Recover, AnswerPending, IdStep
<1>3. ASSUME NEW s \in Sessions, Progress(s) PROVE IdStep
  <2>1. CASE ReserveTask(s) BY <1>0, <2>1 DEF ReserveTask, IdStep
  <2> QED BY <1>3, <2>1 DEF Progress, Recheck, CreateStaging, GuardVersion, Link, Sync,
                            SaveHistory, IdStep
<1>4. ASSUME NEW t \in Sessions, NEW h \in saved, NEW s \in Sessions, OpenHistory(t, h, s)
      PROVE  IdStep
  BY <1>0, <1>4 DEF OpenHistory, IdStep
<1>5. ASSUME NEW dead, Gone(dead), UNCHANGED <<counter, issued>> PROVE IdStep
  BY <1>5, PublicationAssumption DEF Gone, Drops, IdStep
<1>6. CASE SetStatus \/ LoseCounters \/ UNCHANGED vars
  BY <1>6 DEF SetStatus, LoseCounters, vars, IdStep
<1> QED BY <1>1, <1>2, <1>3, <1>4, <1>5, <1>6 DEF Next, Crash, PowerLoss

\* What the next id exceeds: all that is seen of the earlier ones.
LEMMA NextId ==
  ASSUME TypeOK, NEW s \in Sessions, NEW k \in Kinds, NEW n \in Seqs, IsNext(n, Host[s], k)
  PROVE  /\ n > counter[k] /\ n > memory[Host[s]][k] /\ n \in Nat
         /\ counter[k] \in Nat /\ memory[Host[s]][k] \in Nat
         /\ k = "TASK" => \A i \in Seqs : files[i].task < n
         /\ k = "TI" => n \notin staged /\ ~Exists(n)
<1>1. Host[s] \in Procs BY PublicationAssumption
<1>2. n \in Nat /\ counter[k] \in Nat /\ memory[Host[s]][k] \in Nat
  BY <1>1, PublicationAssumption, Constants DEF TypeOK, Seq0
<1>3. \A m \in OnDisk(k) \cup {0, counter[k], memory[Host[s]][k]} : m < n BY DEF IsNext
<1>4. k = "TASK" => \A i \in Seqs : files[i].task < n BY <1>3 DEF OnDisk
<1>5. k = "TI" => n \notin staged /\ ~Exists(n)
  <2>1. CASE k = "TI" /\ n \in staged \cup {i \in Seqs : Exists(i)}
    <3>1. n < n BY <1>3, <2>1 DEF OnDisk
    <3> QED BY <1>2, <3>1
  <2> QED BY <2>1
<1> QED BY <1>2, <1>3, <1>4, <1>5

LEMMA CountersGrow ==
  ASSUME TypeOK, IdStep, NEW k \in Kinds
  PROVE  /\ ~Losable => counter'[k] >= counter[k]
         /\ \A s \in Sessions : Drops(s) \/ memory'[Host[s]][k] >= memory[Host[s]][k]
<1>0. \A s \in Sessions : Host[s] \in Procs BY PublicationAssumption
<1>1. counter[k] \in Nat /\ \A s \in Sessions : memory[Host[s]][k] \in Nat
  BY <1>0, PublicationAssumption DEF TypeOK, Seq0
<1>2. ASSUME NEW s \in Sessions, NEW kk \in Kinds, NEW n \in Seqs, NEW w,
             IsNext(n, Host[s], kk), Reserve(Host[s], kk, n, w)
      PROVE  /\ counter'[k] >= counter[k]
             /\ \A x \in Sessions : memory'[Host[x]][k] >= memory[Host[x]][k]
  <2>1. n > counter[kk] /\ n > memory[Host[s]][kk] /\ n \in Nat BY <1>2, NextId
  <2>2. counter'[k] >= counter[k] BY <1>1, <1>2, <2>1 DEF Reserve, TypeOK
  <2>3. ASSUME NEW x \in Sessions PROVE memory'[Host[x]][k] >= memory[Host[x]][k]
    <3>1. memory'[Host[x]][k] = memory[Host[x]][k]
             \/ (Host[x] = Host[s] /\ k = kk /\ memory'[Host[x]][k] = n)
      BY <1>0, <1>2 DEF Reserve, TypeOK
    <3> QED BY <1>1, <2>1, <3>1
  <2> QED BY <2>2, <2>3
<1>3. CASE counter' = counter /\ \A s \in Sessions : memory'[Host[s]] = memory[Host[s]] \/ Drops(s)
  BY <1>1, <1>3
<1>4. CASE Losable /\ memory' = memory
  BY <1>1, <1>4
<1> QED BY <1>2, <1>3, <1>4 DEF IdStep

LEMMA StepReserved ==
  ASSUME OneSource, IInv, Reserved, DraftStep, FileStep, IdStep, TypeOK'
  PROVE  Reserved'
<1> USE DEF IInv
<1>0. "TASK" \in Kinds /\ \A s \in Sessions : draft[s] \in Draft /\ Host[s] \in Procs
  BY PublicationAssumption DEF Kinds, TypeOK
<1>1. ASSUME NEW s \in Sessions, pc'[s] \in Numbered
      PROVE  Numbers(s) \/ (Stands(s) /\ pc[s] \in Numbered)
  BY <1>1 DEF DraftStep, Stands, Drops, Accepts, GivesUp, Links, Settles, Recovers, Moves, Opens,
              Numbered
\* What is kept, for a draft that had its number already.
<1>2. ASSUME NEW s \in Sessions, Stands(s), pc[s] \in Numbered, pc'[s] \in Numbered
      PROVE  /\ draft'[s].task = draft[s].task
             /\ draft[s].task <= memory'[Host[s]]["TASK"]
             /\ ~Losable => draft[s].task <= counter'["TASK"]
             /\ \A i \in Seqs : files'[i].task # draft[s].task
  <2>1. draft'[s].task = draft[s].task /\ ~Drops(s) BY <1>2 DEF Stands, Drops, Numbered
  <2>2. draft[s].task \in Nat BY <1>0, PublicationAssumption DEF Draft, Seq0
  <2>3. /\ memory[Host[s]]["TASK"] \in Nat /\ memory'[Host[s]]["TASK"] \in Nat
        /\ counter["TASK"] \in Nat /\ counter'["TASK"] \in Nat
    BY <1>0, PublicationAssumption DEF TypeOK, Seq0
  <2>4. draft[s].task <= memory'[Host[s]]["TASK"]
    BY <1>0, <1>2, <2>1, <2>2, <2>3, CountersGrow DEF Reserved
  <2>5. ~Losable => draft[s].task <= counter'["TASK"]
    BY <1>0, <1>2, <2>2, <2>3, CountersGrow DEF Reserved
  <2>6. ASSUME NEW i \in Seqs PROVE files'[i].task # draft[s].task
    <3>1. CASE files' = files BY <1>2, <3>1 DEF Reserved
    <3>2. ASSUME NEW t \in Sessions, Links(t) PROVE files'[i].task # draft[s].task
      <4>1. t # s BY <1>2, <3>2 DEF Links, Numbered
      <4>2. draft[t].task # draft[s].task BY <1>2, <3>2, <4>1 DEF Reserved, Links, Numbered
      <4>3. files'[i] = files[i] \/ files'[i] = ArtifactOf(t) BY <3>2 DEF Links, TypeOK
      <4> QED BY <1>2, <4>2, <4>3 DEF Reserved, ArtifactOf
    <3> QED BY <2>1, <3>1, <3>2 DEF FileStep, Settles, Recovers
  <2> QED BY <2>1, <2>4, <2>5, <2>6
\* What is reserved now is greater than all of it.
<1>3. ASSUME NEW s \in Sessions, Numbers(s)
      PROVE  /\ draft'[s].task <= memory'[Host[s]]["TASK"]
             /\ ~Losable => draft'[s].task <= counter'["TASK"]
             /\ \A i \in Seqs : files'[i].task # draft'[s].task
             /\ \A t \in Sessions \ {s} : pc'[t] \in Numbered => draft'[t].task # draft'[s].task
  <2>1. PICK n \in Seqs : /\ draft'[s] = [draft[s] EXCEPT !.task = n]
                          /\ IsNext(n, Host[s], "TASK") /\ Reserve(Host[s], "TASK", n, "ok")
    BY <1>3 DEF Numbers
  <2>2. draft'[s].task = n BY <1>0, <2>1 DEF Draft
  <2>3. /\ n > counter["TASK"] /\ n > memory[Host[s]]["TASK"] /\ n \in Nat
        /\ counter["TASK"] \in Nat /\ memory[Host[s]]["TASK"] \in Nat
        /\ \A i \in Seqs : files[i].task < n
    BY <1>0, <2>1, NextId
  <2>4. memory'[Host[s]]["TASK"] = n /\ counter'["TASK"] = n
    BY <1>0, <2>1 DEF Reserve, TypeOK
  <2>5. files' = files
    <3>1. ~Drops(s) BY <1>3 DEF Numbers, Drops
    <3>2. ASSUME NEW t \in Sessions, Links(t) PROVE FALSE
      BY <1>3, <3>2 DEF Numbers, Links
    <3> QED BY <3>1, <3>2 DEF FileStep, Settles, Recovers
  <2>6. \A i \in Seqs : files'[i].task # n
    <3>1. \A i \in Seqs : files[i].task \in Nat BY PublicationAssumption DEF TypeOK, Artifact, Seq0
    <3> QED BY <2>3, <2>5, <3>1
  <2>7. ASSUME NEW t \in Sessions \ {s}, pc'[t] \in Numbered PROVE draft'[t].task # n
    <3>1. pc[t] \in Numbered /\ Stands(t) BY <1>1, <1>3, <2>7 DEF Numbers, Numbered
    <3>2. draft'[t].task = draft[t].task /\ draft[t].task \in Nat
      BY <1>0, <3>1, PublicationAssumption DEF Stands, Draft, Seq0
    <3>3. draft[t].task < n
      <4>1. CASE ~Losable BY <2>3, <3>1, <3>2, <4>1 DEF Reserved
      <4>2. CASE Losable
        <5>1. Host[t] = Host[s] BY <4>2 DEF OneSource
        <5> QED BY <2>3, <3>1, <3>2, <5>1 DEF Reserved
      <4> QED BY <4>1, <4>2
    <3> QED BY <2>3, <3>2, <3>3
  <2> QED BY <2>2, <2>3, <2>4, <2>6, <2>7
<1>4. ASSUME NEW s \in Sessions, Stands(s), pc[s] \in Numbered, pc'[s] \in Numbered,
             NEW t \in Sessions \ {s}, pc'[t] \in Numbered
      PROVE  draft'[t].task # draft'[s].task
  <2>1. CASE Numbers(t) BY <1>3, <1>4, <2>1
  <2>2. CASE Stands(t) /\ pc[t] \in Numbered BY <1>2, <1>4, <2>2 DEF Reserved
  <2> QED BY <1>1, <1>4, <2>1, <2>2
<1> QED BY <1>1, <1>2, <1>3, <1>4 DEF Reserved

LEMMA StepUnique ==
  ASSUME IInv, Reserved, TaskIdsUnique, DraftStep, FileStep
  PROVE  TaskIdsUnique'
<1> USE DEF IInv, Exists
<1>1. CASE files' = files BY <1>1 DEF TaskIdsUnique
<1>2. ASSUME NEW s \in Sessions, Links(s) PROVE TaskIdsUnique'
  <2>1. draft[s].task # 0 /\ \A i \in Seqs : files[i].task # draft[s].task
    BY <1>2 DEF Links, ConfirmHolds, Reserved, Numbered
  <2>2. \A i \in Seqs : files'[i] = IF i = draft[s].intent THEN ArtifactOf(s) ELSE files[i]
    BY <1>2 DEF Links, TypeOK
  <2> QED BY <2>1, <2>2 DEF TaskIdsUnique, ArtifactOf
<1>3. CASE \E gone \in SUBSET {i \in Seqs \ synced : Exists(i)} :
             files' = [i \in Seqs |-> IF i \in gone THEN NoFile ELSE files[i]]
  BY <1>3 DEF TaskIdsUnique, NoFile
<1> QED BY <1>1, <1>2, <1>3 DEF FileStep, Settles, Recovers

\* TaskIdsUnique: no two official files carry the same task id, if the counter
\* file survives or all sessions live in one process; with neither, a process that
\* has reserved an id and not linked its file is invisible to the others.
THEOREM TaskFilesAreUnique ==
  ASSUME OneSource
  PROVE  Spec => []TaskIdsUnique
<1>1. Init => IInv /\ Reserved /\ TaskIdsUnique
  BY InitInv DEF Init, Reserved, TaskIdsUnique, Numbered, Exists, NoFile
<1>2. ASSUME IInv, Reserved, TaskIdsUnique, [Next]_vars
      PROVE  IInv' /\ Reserved' /\ TaskIdsUnique'
  <2>1. IInv' /\ DraftStep /\ FileStep BY <1>2, StepInv
  <2>2. IdStep BY <1>2, StepId DEF IInv
  <2> QED BY <1>2, <2>1, <2>2, StepReserved, StepUnique DEF IInv
<1> QED BY <1>1, <1>2, PTL DEF Spec

\* IssuedOnce: without a deletion of the counter file an id is handed out once, by
\* whatever process, over all crashes and failed writes.
THEOREM NumbersIssuedOnce ==
  ASSUME ~Losable
  PROVE  Spec => []IssuedOnce
<1>1. Init => IInv /\ Counted
  BY InitInv DEF Init, Counted
<1>2. ASSUME IInv, Counted, [Next]_vars PROVE IInv' /\ Counted'
  <2>1. IInv' /\ IdStep BY <1>2, StepInv, StepId DEF IInv
  <2>2. ASSUME NEW s \in Sessions, NEW kk \in Kinds, NEW m \in Seqs, NEW w \in WriteOutcomes,
               IsNext(m, Host[s], kk), Reserve(Host[s], kk, m, w),
               NEW k \in Kinds, NEW n \in Seqs, issued'[k][n] # 0
        PROVE  n <= counter'[k] /\ issued'[k][n] = 1
    <3>1. m > counter[kk] /\ m \in Nat /\ counter[kk] \in Nat BY <1>2, <2>2, NextId DEF IInv
    <3>2. issued[kk] \in [Seqs -> Nat] /\ issued[k] \in [Seqs -> Nat] /\ n \in Nat
      BY <1>2, Constants DEF IInv, TypeOK
    <3>3. issued[kk][m] = 0
      <4>1. issued[kk][m] # 0 => m <= counter[kk] BY <1>2 DEF Counted
      <4> QED BY <3>1, <4>1
    <3>4. counter'[k] >= counter[k] /\ counter[k] \in Nat
      BY <1>2, <2>1, CountersGrow, PublicationAssumption DEF IInv, TypeOK, Seq0
    <3>5. CASE issued'[k][n] = issued[k][n]
      <4>1. n <= counter[k] /\ issued[k][n] = 1 BY <1>2, <2>2, <3>5 DEF Counted
      <4>2. counter'[k] \in Nat BY <2>1, PublicationAssumption DEF IInv, TypeOK, Seq0
      <4> QED BY <3>2, <3>4, <3>5, <4>1, <4>2
    <3>6. CASE issued'[k][n] # issued[k][n]
      <4>1. w = "ok" /\ k = kk /\ n = m /\ issued'[k][n] = issued[k][n] + 1
        BY <1>2, <2>2, <3>2, <3>6 DEF Reserve, IInv, TypeOK
      <4>2. counter'[k] = m BY <1>2, <2>2, <4>1 DEF Reserve, IInv, TypeOK
      <4> QED BY <3>1, <3>3, <4>1, <4>2
    <3> QED BY <3>5, <3>6
  <2>3. CASE issued' = issued /\ counter' = counter BY <1>2, <2>1, <2>3 DEF Counted
  <2> QED BY <2>1, <2>2, <2>3 DEF IdStep, Counted
<1>3. Counted => IssuedOnce
  <2> SUFFICES ASSUME Counted, NEW k \in Kinds, NEW n \in Seqs PROVE issued[k][n] <= 1
    BY DEF IssuedOnce
  <2> QED BY DEF Counted
<1> QED BY <1>1, <1>2, <1>3, PTL DEF Spec

\* NothingIsReissued: the scan of the directories keeps a new intent id from naming
\* a file, and a new task id from being in one, also when the counters are lost.
THEOREM ScanPreventsReuse == Spec => NothingIsReissued
<1> DEFINE Fine == \A n \in Seqs :
       /\ issued'["TI"][n] > issued["TI"][n] => ~Exists(n) /\ n \notin staged
       /\ issued'["TASK"][n] > issued["TASK"][n] => \A i \in Seqs : files[i].task # n
<1>1. ASSUME TypeOK, [Next]_vars PROVE Fine
  <2>0. "TI" \in Kinds /\ "TASK" \in Kinds BY DEF Kinds
  <2>1. IdStep BY <1>1, StepId
  <2>2. SUFFICES ASSUME NEW n \in Seqs, NEW k \in Kinds, issued'[k][n] > issued[k][n]
                 PROVE  /\ k = "TI" => ~Exists(n) /\ n \notin staged
                        /\ k = "TASK" => \A i \in Seqs : files[i].task # n
    BY <2>0
  <2>3. issued[k][n] \in Nat /\ \A i \in Seqs : files[i].task \in Nat
    BY <1>1, PublicationAssumption DEF TypeOK, Artifact, Seq0
  <2>4. issued' # issued BY <2>2, <2>3
  <2>5. PICK s \in Sessions, kk \in Kinds, m \in Seqs, w \in WriteOutcomes :
          IsNext(m, Host[s], kk) /\ Reserve(Host[s], kk, m, w)
    BY <2>1, <2>4 DEF IdStep
  <2>6. kk = k /\ m = n
    <3>1. kk # k \/ m # n => issued'[k][n] = issued[k][n]
      BY <1>1, <2>5 DEF Reserve, TypeOK
    <3> QED BY <2>2, <2>3, <3>1
  <2>7. /\ k = "TASK" => \A i \in Seqs : files[i].task < n
        /\ k = "TI" => n \notin staged /\ ~Exists(n)
        /\ n \in Nat
    BY <1>1, <2>5, <2>6, NextId
  <2> QED BY <2>3, <2>7
<1>2. TypeOK /\ [Next]_vars => [Fine]_vars BY <1>1
<1> QED BY <1>2, TypeCorrect, PTL DEF Spec, NothingIsReissued

=============================================================================
