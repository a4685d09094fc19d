--------------------------- MODULE TaskPublication ---------------------------
(***************************************************************************)
(* From a complete draft to an official task file.  Sessions live in server *)
(* processes that share a result directory: the id counters, the published  *)
(* task files and the history.  A draft gets an intent id when its slots are *)
(* complete; the final confirmation validates it against the robot state,    *)
(* reserves a task id, stages the artifact and links it to its official name *)
(* without replacing a file.  A link whose durability could not be confirmed *)
(* leaves the session with a pending artifact, which only a further          *)
(* confirmation may resolve, by checking the same file again.                *)
(*                                                                           *)
(*   src/src/dispatch/storage/id_sequence.py    reservation of ids           *)
(*   src/src/dispatch/task_intent_builder.py    staging, link, recovery      *)
(*   src/src/handlers/task_commit.py            the confirmation             *)
(*   src/src/handlers/slot_filling.py           the intent id of a draft     *)
(*   src/src/session/dialogue_snapshot.py       opening a history entry      *)
(***************************************************************************)
EXTENDS Naturals, FiniteSets

CONSTANTS Sessions, Procs,
          NoOne,       \* holder of a free lock
          Host,        \* [Sessions -> Procs]: the process a session lives in
          Params,      \* contents a user may give a task
          NoParam,     \* the content of an empty draft
          Losable,     \* the counter file may be deleted
          PowerFails,  \* the host may lose power
          Telemetry,   \* telemetry may move sessions between the phases
          MaxSeq,      \* bound on the ids of one day
          MaxVer,      \* bound on the state versions of the robot
          MaxSaved,    \* bound on the entries of the history
          MaxFaults    \* bound on failed writes, crashes and deletions

ASSUME PublicationAssumption ==
         /\ NoOne \notin Sessions
         /\ NoParam \notin Params
         /\ Host \in [Sessions -> Procs]
         /\ Losable \in BOOLEAN /\ PowerFails \in BOOLEAN /\ Telemetry \in BOOLEAN
         /\ MaxSeq \in Nat /\ MaxVer \in Nat /\ MaxSaved \in Nat /\ MaxFaults \in Nat

VARIABLES
  counter,  \* counter[k]: the last id in .id_sequences.json
  memory,   \* memory[p][k]: the last id process p reserved (_COUNTERS)
  issued,   \* issued[k][n]: times id n was handed out (history variable)
  staged,   \* intents named by staging files
  files,    \* files[i]: task_intent_<i>.json, or NoFile
  synced,   \* intents whose file is known to be on stable storage
  pubLock,  \* the session holding TaskPublishLock
  version,  \* state version of the robot the drafts are about
  saved,    \* the snapshots history files have held (entries are also copied
            \* under other names, so an older state may always be opened)
  draft,    \* draft[s]: the manager's task
  pc,       \* pc[s]: where the request session s is serving stands
  work,     \* work[s]: locals of the confirmation under way
  faults    \* faults so far

vars == <<counter, memory, issued, staged, files, synced, pubLock, version,
          saved, draft, pc, work, faults>>

ids     == <<counter, memory, issued>>
archive == <<files, synced>>

-----------------------------------------------------------------------------
(* Types *)

Kinds == {"TI", "TASK"}
Seq0  == 0..MaxSeq
Seqs  == 1..MaxSeq

Artifact == [task: Seq0, par: Params \cup {NoParam}, ver: 0..MaxVer]
NoFile   == [task |-> 0, par |-> NoParam, ver |-> 0]

Phases == {"collecting", "confirming", "blocked", "done"}  \* blocked_soft, blocked_hard
Draft  == [phase: Phases, intent: Seq0, task: Seq0,
           par: Params \cup {NoParam}, pending: Artifact]
Fresh  == [phase |-> "collecting", intent |-> 0, task |-> 0,
           par |-> NoParam, pending |-> NoFile]

Work   == [ver: 0..MaxVer, prev: Seq0]
NoWork == [ver |-> 0, prev |-> 0]

PcState == {"idle", "reserve", "recheck", "stage", "guard", "link", "sync", "save"}

\* Every variable is in its domain: the snapshots of the history have the shape
\* of the drafts they restore, whatever step of a publication they were taken at.
TypeOK ==
  /\ counter \in [Kinds -> Seq0]
  /\ memory \in [Procs -> [Kinds -> Seq0]]
  /\ issued \in [Kinds -> [Seqs -> Nat]]
  /\ staged \subseteq Seqs
  /\ files \in [Seqs -> Artifact]
  /\ synced \subseteq Seqs
  /\ pubLock \in Sessions \cup {NoOne}
  /\ version \in 0..MaxVer
  /\ saved \subseteq Draft
  /\ draft \in [Sessions -> Draft]
  /\ pc \in [Sessions -> PcState]
  /\ work \in [Sessions -> Work]
  /\ faults \in 0..MaxFaults

-----------------------------------------------------------------------------
(* Ids.  One reservation runs under the process lock and the file lock.  The *)
(* counter file is replaced before the id is returned; the call may raise    *)
(* with the old file in place ("lost") or the new one ("kept").              *)

WriteOutcomes == {"ok", "lost", "kept"}

Costs(w) == /\ faults' = IF w = "ok" THEN faults ELSE faults + 1
            /\ faults' <= MaxFaults

Exists(i) == files[i].task # 0

\* The ids found in the names of task and staging files, and in the JSON of the
\* task files and of the history.
OnDisk(k) == IF k = "TI" THEN staged \cup {i \in Seqs : Exists(i)}
             ELSE {files[i].task : i \in Seqs} \cup {h.task : h \in saved}

\* n follows the greatest id seen in the counter file, in memory and on disk.
InMemory(n, p, k) == n = memory[p][k] + 1  \* mutant: the file is read once
UnlessOnDisk(n, p, k) ==  \* mutant: file names and contents are not scanned
  n = 1 + IF counter[k] > memory[p][k] THEN counter[k] ELSE memory[p][k]
IsNext(n, p, k) ==
  LET seen == OnDisk(k) \cup {0, counter[k], memory[p][k]} IN
  n - 1 \in seen /\ \A m \in seen : m < n

RememberOnly(p, k, n, w) ==  \* mutant: the counter file is not replaced
  /\ Costs(w)
  /\ memory' = IF w = "ok" THEN [memory EXCEPT ![p][k] = n] ELSE memory
  /\ issued' = IF w = "ok" THEN [issued EXCEPT ![k][n] = @ + 1] ELSE issued
  /\ UNCHANGED counter

Reserve(p, k, n, w) ==
  /\ Costs(w)
  /\ counter' = IF w = "lost" THEN counter ELSE [counter EXCEPT ![k] = n]
  /\ memory' = IF w = "ok" THEN [memory EXCEPT ![p][k] = n] ELSE memory
  /\ issued' = IF w = "ok" THEN [issued EXCEPT ![k][n] = @ + 1] ELSE issued

Goto(s, l) == pc' = [pc EXCEPT ![s] = l]

-----------------------------------------------------------------------------
(* Drafts *)

\* A pending artifact refuses every change of the draft.
Open(d) == TRUE  \* mutant
Changeable(d) == d.pending = NoFile

\* A slot-filling turn.  A complete draft, and any draft that follows a finished
\* task, gets an intent id; when the reservation raises, nothing changes.
FillSlots(s, q) ==
  LET d == draft[s]
      filled(ph) == [d EXCEPT !.phase = ph, !.par = q]
  IN
  /\ pc[s] = "idle" /\ Changeable(d)
  /\ \E ph \in Phases \ {"done"} :
       IF d.phase = "done" \/ (ph # "collecting" /\ d.intent = 0)
       THEN /\ d.phase = "done" => ph \in {"collecting", "confirming"}
            /\ \E n \in Seqs, w \in WriteOutcomes :
                 /\ IsNext(n, Host[s], "TI") /\ Reserve(Host[s], "TI", n, w)
                 /\ draft' = IF w = "ok"
                             THEN [draft EXCEPT ![s] = [filled(ph) EXCEPT !.intent = n]]
                             ELSE draft
       ELSE /\ draft' = [draft EXCEPT ![s] = filled(ph)]
            /\ UNCHANGED <<ids, faults>>
  /\ UNCHANGED <<staged, archive, pubLock, version, saved, pc, work>>

\* Telemetry, a state poll and a hot reload validate every unfinished task again
\* and move it between the phases, whether or not an artifact is pending.
RefreshConstraints(s) ==
  /\ Telemetry /\ pc[s] = "idle" /\ draft[s].phase # "done" /\ draft[s].par # NoParam
  /\ \E ph \in Phases \ {"done", draft[s].phase} :
       draft' = [draft EXCEPT ![s].phase = ph]
  /\ UNCHANGED <<ids, staged, archive, pubLock, version, saved, pc, work, faults>>

\* POST /api/reset: the session is dropped, with a pending artifact if any.
Reset(s) ==
  /\ pc[s] = "idle" /\ draft[s] # Fresh
  /\ draft' = [draft EXCEPT ![s] = Fresh]
  /\ UNCHANGED <<ids, staged, archive, pubLock, version, saved, pc, work, faults>>

\* The snapshot of a finished task is restored as finished only if the official
\* file carries the same ids.
Confirmed(h) == h.intent # 0 /\ Exists(h.intent) /\ files[h.intent].task = h.task

\* A snapshot with a pending artifact is refused in any other phase.
Restorable(h) == h.pending = NoFile \/ h.phase = "confirming"

\* POST /api/history/load: entry h is opened in a new session t; the draft the
\* user leaves behind, in session s, is saved first and stays alive.
OpenHistory(t, h, s) ==
  LET stale == h.phase = "done" /\ ~Confirmed(h)
      base == IF stale THEN [h EXCEPT !.phase = "collecting"] ELSE h
      backup == saved \cup (IF draft[s].phase = "done" THEN {} ELSE {draft[s]} \ {Fresh})
      opened(d) == /\ saved' = backup /\ Cardinality(backup) <= MaxSaved
                   /\ draft' = [draft EXCEPT ![t] = d]
  IN
  /\ pc[t] = "idle" /\ draft[t] = Fresh
  /\ pc[s] = "idle" /\ Host[s] = Host[t]
  /\ Restorable(h)
  /\ h.phase = "done" => pubLock = NoOne
  /\ IF stale \/ h.intent = 0
     THEN \E n \in Seqs, w \in WriteOutcomes :
            /\ IsNext(n, Host[t], "TI") /\ Reserve(Host[t], "TI", n, w)
            /\ IF w = "ok" THEN opened([base EXCEPT !.intent = n])
               ELSE UNCHANGED <<saved, draft>>
     ELSE opened(base) /\ UNCHANGED <<ids, faults>>
  /\ UNCHANGED <<staged, archive, pubLock, version, pc, work>>

-----------------------------------------------------------------------------
(* The final confirmation *)

\* Validation against the current robot state: refused, or the work begins.
Confirm(s) ==
  LET d == draft[s] IN
  /\ pc[s] = "idle" /\ d.phase = "confirming" /\ d.pending = NoFile
  /\ \/ /\ \E ph \in {"collecting", "blocked"} :
             draft' = [draft EXCEPT ![s].phase = ph]
        /\ UNCHANGED <<pc, work>>
     \/ /\ d.intent # 0
        /\ work' = [work EXCEPT ![s] = [ver |-> version, prev |-> d.task]]
        /\ Goto(s, "reserve")
        /\ UNCHANGED draft
  /\ UNCHANGED <<ids, staged, archive, pubLock, version, saved, faults>>

\* An exception before the link: the slots are restored, and the request fails
\* without saving anything.
KeepsNumber(s, ph) ==  \* mutant: the reserved id stays in the draft
  /\ draft' = [draft EXCEPT ![s].phase = ph]
  /\ work' = [work EXCEPT ![s] = NoWork]
  /\ Goto(s, "idle")

RolledBack(s, ph) ==
  /\ draft' = [draft EXCEPT ![s].phase = ph, ![s].task = work[s].prev]
  /\ work' = [work EXCEPT ![s] = NoWork]
  /\ Goto(s, "idle")

Rollback(s) == RolledBack(s, "confirming")

ReserveTask(s) ==
  /\ pc[s] = "reserve"
  /\ \/ \E n \in Seqs, w \in WriteOutcomes :
          /\ IsNext(n, Host[s], "TASK") /\ Reserve(Host[s], "TASK", n, w)
          /\ IF w = "ok"
             THEN /\ draft' = [draft EXCEPT ![s].task = n]
                  /\ Goto(s, "recheck") /\ UNCHANGED work
             ELSE Rollback(s)
     \/ /\ \A n \in Seqs : ~IsNext(n, Host[s], "TASK")  \* the bound MaxSeq
        /\ Rollback(s) /\ UNCHANGED <<ids, faults>>
  /\ UNCHANGED <<staged, archive, pubLock, version, saved>>

\* A task that starts now is validated again if the robot state has moved on.
Recheck(s) ==
  /\ pc[s] = "recheck"
  /\ \/ Goto(s, "stage") /\ UNCHANGED <<work, draft>>
     \/ /\ work[s].ver # version
        /\ \/ /\ work' = [work EXCEPT ![s].ver = version]
              /\ Goto(s, "stage") /\ UNCHANGED draft
           \/ RolledBack(s, "blocked")
           \/ Rollback(s)
  /\ UNCHANGED <<ids, staged, archive, pubLock, version, saved, faults>>

CreateStaging(s) ==
  /\ pc[s] = "stage" /\ pubLock = NoOne
  /\ \E w \in WriteOutcomes :
       /\ Costs(w)
       /\ staged' = IF w = "lost" THEN staged ELSE staged \cup {draft[s].intent}
       /\ IF w = "ok" THEN Goto(s, "guard") /\ UNCHANGED <<draft, work>>
          ELSE Rollback(s)
  /\ UNCHANGED <<ids, archive, pubLock, version, saved>>

\* guard_unit_state_version compares the version once, on entry.
GuardVersion(s) ==
  /\ pc[s] = "guard"
  /\ IF work[s].ver = version THEN Goto(s, "link") /\ UNCHANGED <<draft, work>>
     ELSE Rollback(s)
  /\ UNCHANGED <<ids, staged, archive, pubLock, version, saved, faults>>

ArtifactOf(s) == [task |-> draft[s].task, par |-> draft[s].par, ver |-> work[s].ver]

Overwrites(s) == TRUE  \* mutant: an existing file is replaced
CanLink(s) == ~Exists(draft[s].intent)

\* Under the publish lock: an existing official file is never replaced.
Link(s) ==
  LET i == draft[s].intent IN
  /\ pc[s] = "link" /\ pubLock = NoOne
  /\ \/ ~CanLink(s) /\ UNCHANGED <<faults, files, pubLock>> /\ Rollback(s)
     \/ CanLink(s) /\ Costs("lost") /\ UNCHANGED <<files, pubLock>> /\ Rollback(s)
     \/ /\ CanLink(s)
        /\ files' = [files EXCEPT ![i] = ArtifactOf(s)]
        /\ pubLock' = s
        /\ Goto(s, "sync") /\ UNCHANGED <<draft, work, faults>>
  /\ UNCHANGED <<ids, staged, synced, version, saved>>

Complete(s) == draft' = [draft EXCEPT ![s].phase = "done", ![s].pending = NoFile]

\* File and directory fsync, still under the lock.  A failure after the link is
\* not rolled back: the session keeps its ids and waits with the artifact.
DoneAnyway(s) == Complete(s)  \* mutant: a failing fsync is ignored
Uncertain(s) == draft' = [draft EXCEPT ![s].pending = ArtifactOf(s)]

HoldOn == UNCHANGED pubLock  \* mutant: the lock stays behind
Unlock == pubLock' = NoOne

Sync(s) ==
  LET i == draft[s].intent IN
  /\ pc[s] = "sync"
  /\ \E w \in WriteOutcomes :
       /\ Costs(w)
       /\ synced' = IF w = "lost" THEN synced ELSE synced \cup {i}
       /\ IF w = "ok" THEN Complete(s) ELSE Uncertain(s)
  /\ Unlock
  /\ work' = [work EXCEPT ![s] = NoWork]
  /\ Goto(s, "save")
  /\ UNCHANGED <<ids, staged, files, version, saved>>

Same(s) == /\ Exists(draft[s].intent)
           /\ files[draft[s].intent] = draft[s].pending

\* A further confirmation of a pending artifact: the draft must still describe
\* it, the official file must equal it, and its durability is confirmed again.
Recover(s) ==
  LET d == draft[s] IN
  /\ pc[s] = "idle" /\ d.phase = "confirming" /\ d.pending # NoFile
  /\ pubLock = NoOne
  /\ \/ /\ Same(s) /\ d.task = d.pending.task /\ d.par = d.pending.par
        /\ \E w \in WriteOutcomes :
             /\ Costs(w)
             /\ synced' = IF w = "lost" THEN synced ELSE synced \cup {d.intent}
             /\ IF w = "ok" THEN Complete(s) ELSE UNCHANGED draft
     \/ ~Same(s) /\ UNCHANGED <<synced, draft, faults>>
  /\ Goto(s, "save")
  /\ UNCHANGED <<ids, staged, files, pubLock, version, saved, work>>

\* Any other message to a session with a pending artifact: the draft stays, and
\* a blocked or collecting session that confirms may only change its phase.
AnswerPending(s) ==
  LET d == draft[s] IN
  /\ pc[s] = "idle" /\ d.pending # NoFile
  /\ \/ UNCHANGED draft
     \/ /\ d.phase \in {"blocked", "collecting"}
        /\ \E ph \in Phases \ {"done"} : draft' = [draft EXCEPT ![s].phase = ph]
  /\ Goto(s, "save")
  /\ UNCHANGED <<ids, staged, archive, pubLock, version, saved, work, faults>>

\* The route saves a finished or a pending task before it does anything else
\* with it; a save that fails is reported and nothing more.
SaveHistory(s) ==
  /\ pc[s] = "save"
  /\ \/ /\ Cardinality(saved \cup {draft[s]}) <= MaxSaved
        /\ saved' = saved \cup {draft[s]}
     \/ UNCHANGED saved
  /\ Goto(s, "idle")
  /\ UNCHANGED <<ids, staged, archive, pubLock, version, draft, work, faults>>

-----------------------------------------------------------------------------
(* Environment *)

\* Telemetry updates the state of the robot at any time.
SetStatus ==
  /\ version < MaxVer /\ version' = version + 1
  /\ UNCHANGED <<ids, staged, archive, pubLock, saved, draft, pc, work, faults>>

Gone(dead) ==
  /\ memory' = [p \in Procs |-> IF p \in dead THEN [k \in Kinds |-> 0] ELSE memory[p]]
  /\ draft' = [s \in Sessions |-> IF Host[s] \in dead THEN Fresh ELSE draft[s]]
  /\ pc' = [s \in Sessions |-> IF Host[s] \in dead THEN "idle" ELSE pc[s]]
  /\ work' = [s \in Sessions |-> IF Host[s] \in dead THEN NoWork ELSE work[s]]
  /\ pubLock' = IF \E s \in Sessions : pubLock = s /\ Host[s] \in dead THEN NoOne
                ELSE pubLock
  /\ faults < MaxFaults /\ faults' = faults + 1

Crash(p) ==
  /\ Gone({p})
  /\ UNCHANGED <<counter, issued, staged, archive, version, saved>>

\* Files linked but not yet on stable storage may be gone after a power loss.
PowerLoss ==
  /\ PowerFails
  /\ Gone(Procs)
  /\ \E gone \in SUBSET {i \in Seqs \ synced : Exists(i)} :
       /\ files' = [i \in Seqs |-> IF i \in gone THEN NoFile ELSE files[i]]
       /\ synced' = {i \in Seqs \ gone : Exists(i)}
  /\ staged' \in SUBSET staged
  /\ UNCHANGED <<counter, issued, version, saved>>

\* The counter file is deleted; ids are found again by scanning the files.
LoseCounters ==
  /\ Losable /\ faults < MaxFaults /\ faults' = faults + 1
  /\ counter' = [k \in Kinds |-> 0]
  /\ UNCHANGED <<memory, issued, staged, archive, pubLock, version, saved, draft, pc, work>>

-----------------------------------------------------------------------------
(* Specification *)

Init ==
  /\ counter = [k \in Kinds |-> 0]
  /\ memory = [p \in Procs |-> [k \in Kinds |-> 0]]
  /\ issued = [k \in Kinds |-> [n \in Seqs |-> 0]]
  /\ staged = {}
  /\ files = [i \in Seqs |-> NoFile]
  /\ synced = {}
  /\ pubLock = NoOne
  /\ version = 0
  /\ saved = {Fresh}  \* some entry of an earlier day, which can be opened
  /\ draft = [s \in Sessions |-> Fresh]
  /\ pc = [s \in Sessions |-> "idle"]
  /\ work = [s \in Sessions |-> NoWork]
  /\ faults = 0

\* The steps a confirmation takes once it has been accepted.
Progress(s) == \/ ReserveTask(s) \/ Recheck(s) \/ CreateStaging(s) \/ GuardVersion(s)
               \/ Link(s) \/ Sync(s) \/ SaveHistory(s)

Next ==
  \/ \E s \in Sessions :
       \/ \E q \in Params : FillSlots(s, q)
       \/ RefreshConstraints(s) \/ Reset(s)
       \/ Confirm(s) \/ Recover(s) \/ AnswerPending(s) \/ Progress(s)
       \/ \E h \in saved, t \in Sessions : OpenHistory(s, h, t)
  \/ \E p \in Procs : Crash(p)
  \/ SetStatus \/ PowerLoss \/ LoseCounters

Spec == Init /\ [][Next]_vars

\* A thread serving a request keeps running.
FairSpec == Spec /\ \A s \in Sessions : WF_vars(Progress(s))

-----------------------------------------------------------------------------
(* Properties *)

\* publish_staging is a "no-overwrite" commit, and recover_committed confirms
\* "without replacing or deleting any file": an official file is never replaced,
\* by two sessions holding copies of one draft, by a retry or by a recovery, and
\* a file on stable storage never disappears.
FilesArePermanent ==
  [][\A i \in Seqs : Exists(i) =>
       /\ files'[i] \in {files[i], NoFile}
       /\ i \in synced => files'[i] = files[i]]_vars

\* A session shows a task as done only if the official file is on stable storage
\* with the ids and the content the session shows: only then is it dispatched.
\* This must hold for copies of the draft opened from the history, after a
\* crash, and after a power loss undid an unconfirmed publication.
DoneIsDurable == \A s \in Sessions : LET d == draft[s] IN
  d.phase = "done" =>
    /\ d.intent \in synced /\ d.pending = NoFile
    /\ files[d.intent].task = d.task /\ files[d.intent].par = d.par

\* reserve_task_id and next_daily_id: an id is handed out once, whatever write of
\* the counter file fails and whichever process asks, also after a restart.
IssuedOnce == \A k \in Kinds, n \in Seqs : issued[k][n] <= 1

\* No two official files carry the same task id.
TaskIdsUnique == \A i, j \in Seqs :
  Exists(i) /\ files[i].task = files[j].task => i = j

\* With the counter file deleted and the process restarted, the scan of the
\* directories still keeps a new id from naming what exists: no official or
\* staging file has the new intent id, no official file the new task id.
NothingIsReissued ==
  [][\A n \in Seqs :
       /\ issued'["TI"][n] > issued["TI"][n] => ~Exists(n) /\ n \notin staged
       /\ issued'["TASK"][n] > issued["TASK"][n] => \A i \in Seqs : files[i].task # n]_vars

\* execution_dispatch_contract.md: a further confirmation of a pending task
\* "只核对同一份文件并重做持久化确认，不重占编号、不覆盖文件": until it is done or
\* dropped, the draft keeps its ids and its content, whatever the phase it is
\* moved to.
PendingIsFrozen ==
  [][\A s \in Sessions : LET d == draft[s] e == draft'[s] IN
       d.pending # NoFile =>
         \/ e = Fresh
         \/ /\ e.intent = d.intent /\ e.task = d.task /\ e.par = d.par
            /\ \/ e.pending = d.pending /\ e.phase # "done"
               \/ e.pending = NoFile /\ e.phase = "done"]_vars

\* execution_dispatch_contract.md: "待核对记录也写入历史，恢复历史后可继续": what the
\* history holds of a pending task can be opened again.
PendingIsRestorable == \A h \in saved : Restorable(h)

\* Without a power loss a pending artifact is the official file of its intent.
PendingIsThere == \A s \in Sessions :
  draft[s].pending # NoFile => files[draft[s].intent] = draft[s].pending

\* A confirmation that failed leaves no reserved number behind in the draft: the
\* task id of an idle draft is that of an official file, unless the session still
\* has to find out whether its file survived.
FailureLeavesNoId == \A s \in Sessions :
  pc[s] = "idle" /\ draft[s].task # 0 /\ draft[s].pending = NoFile =>
    \E i \in Seqs : files[i].task = draft[s].task

\* guard_unit_state_version: "在上下文退出前持续持有共享锁"; the robot state the
\* artifact was validated against is the current one when the file appears.
PublishedVersionIsCurrent ==
  [][\A i \in Seqs : ~Exists(i) /\ files'[i] # NoFile => files'[i].ver = version]_vars

\* The publish lock is released, whatever step of the publication fails.
LockReleased == pubLock # NoOne ~> pubLock = NoOne
=============================================================================
