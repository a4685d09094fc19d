--------------------------- MODULE RobotStateProofs ---------------------------
(* That the state file is a versioned register for its readers, for any fleet, *)
(* clients and requests.  An update works on a copy of the file that nobody    *)
(* else can change, because it holds the lock from reading it to answering;    *)
(* while it may still be put back, readers wait.                               *)
EXTENDS RobotState, TLAPS

\* The lock is held by the client whose update is under way, and by no other.
OneUpdate == \A c \in Clients : pc[c] # "idle" <=> lock = c

Late == {"replace", "verify", "restore"}

\* The file is what the update under way has read, or what it has written.
Copied == \A c \in Clients :
  /\ pc[c] \in Late =>
       /\ job[c].p \in Params /\ job[c].old \in Store
       /\ \E r \in Robots : /\ job[c].robot = {r}
                            /\ job[c].new = Updated(job[c].old, r, job[c].p)
  /\ pc[c] = "replace" => file = job[c].old
  /\ pc[c] \in {"verify", "restore"} => file = job[c].new

\* Everything told is the reader's view, or an older version of it.
ToldIsPast == \A a \in told :
  /\ a.robot \in Robots
  /\ a.ver <= Visible.robots[a.robot].ver
  /\ a.ver = Visible.robots[a.robot].ver => a.st = Visible.robots[a.robot].st

IInv == TypeOK /\ OneUpdate /\ Copied /\ ToldIsPast /\ VersionNamesState

-------------------------------------------------------------------------------
(* The types.                                                                  *)
LEMMA StoreType == Empty \in Store /\ Blank \in Entry
  BY DEF Empty, Store, Entry, Blank, NoContent, Contents, Statuses, Flags

LEMMA UpdatedType ==
  ASSUME NEW s \in Store, NEW r \in Robots, NEW p \in Params
  PROVE  /\ Updated(s, r, p) \in Store
         /\ Updated(s, r, p).robots =
              [s.robots EXCEPT ![r] = [ver |-> s.robots[r].ver + 1,
                                       st |-> Merged(s.robots[r].st, p)]]
         /\ Merged(s.robots[r].st, p) \in Contents
<1>1. s.robots[r] \in Entry /\ s.robots[r].st \in Contents /\ s.robots[r].ver \in Nat
  BY DEF Store, Entry
<1>2. p \in Contents
  BY DEF Params
<1>3. Merged(s.robots[r].st, p) \in Contents
  BY <1>1, <1>2 DEF Merged, Contents, Statuses, Flags
<1>4. [ver |-> s.robots[r].ver + 1, st |-> Merged(s.robots[r].st, p)] \in Entry
  BY <1>1, <1>3 DEF Entry
<1> QED
  BY <1>3, <1>4 DEF Updated, Store

LEMMA NoJobType == NoJob \in Job
<1>1. (CHOOSE s \in Selectors : TRUE) \in Selectors /\ (CHOOSE p \in Requests : TRUE) \in Requests
  BY RobotStateAssumption
<1>2. AnyVersion \in Nat
  BY RobotStateAssumption DEF AnyVersion
<1> QED
  BY <1>1, <1>2, StoreType DEF NoJob, Job

LEMMA ResolvedType == ASSUME NEW sel PROVE Resolved(sel) \subseteq Robots
  BY DEF Resolved, Matching

\* Only the file, the state of the lock and what was told change; every client
\* keeps its types.
LEMMA InitType ==
  ASSUME Init
  PROVE  TypeOK
  BY StoreType, NoJobType, RobotStateAssumption DEF Init, TypeOK, PcState

LEMMA AnswerType ==
  ASSUME TypeOK, NEW c \in Clients, Answer(c)
  PROVE  /\ pc' \in [Clients -> PcState] /\ job' \in [Clients -> Job]
         /\ pc' = [pc EXCEPT ![c] = "idle"]
  BY NoJobType DEF TypeOK, Answer, Goto, PcState

LEMMA TellType ==
  ASSUME TypeOK, NEW c \in Clients, NEW r \in Robots, NEW e \in Entry, Tell(c, r, e)
  PROVE  /\ seen' \in [Clients -> [Robots -> Entry]]
         /\ told' \subseteq [robot: Robots, ver: Nat, st: Contents]
  BY DEF TypeOK, Tell, Entry

LEMMA StepType ==
  ASSUME IInv, [Next]_vars
  PROVE  TypeOK'
<1> USE DEF IInv
<1>1. ASSUME NEW c \in Clients, NEW sel \in Selectors, NEW p \in Requests, Begin(c, sel, p)
      PROVE  TypeOK'
  <2>1. PICK exp \in {AnyVersion} \cup {seen[c][r].ver : r \in Robots} :
          job' = [job EXCEPT ![c] = [NoJob EXCEPT !.sel = sel, !.p = p, !.exp = exp]]
    BY <1>1 DEF Begin
  <2>2. exp \in Nat
    <3>1. AnyVersion \in Nat
      BY RobotStateAssumption DEF AnyVersion
    <3>2. \A r \in Robots : seen[c][r].ver \in Nat
      BY DEF TypeOK, Entry
    <3> QED
      BY <3>1, <3>2
  <2>3. [NoJob EXCEPT !.sel = sel, !.p = p, !.exp = exp] \in Job
    BY <2>2, NoJobType DEF Job
  <2>4. job' \in [Clients -> Job]
    BY <2>1, <2>3 DEF TypeOK
  <2> QED
    BY <1>1, <2>4 DEF Begin, Goto, TypeOK, PcState
<1>2. ASSUME NEW c \in Clients, Refuse(c) PROVE TypeOK'
  BY <1>2, AnswerType DEF Refuse, Release, TypeOK
<1>3. ASSUME NEW c \in Clients, Prepare(c) PROVE TypeOK'
  <2>1. PICK r \in Resolved(job[c].sel) :
          \/ /\ job' = [job EXCEPT ![c].robot = {r}, ![c].old = file,
                                   ![c].new = Updated(file, r, job[c].p)]
             /\ Goto(c, "replace") /\ UNCHANGED <<lock, faults>>
          \/ Fails /\ Release /\ Answer(c)
    BY <1>3 DEF Prepare
  <2>2. CASE /\ job' = [job EXCEPT ![c].robot = {r}, ![c].old = file,
                                   ![c].new = Updated(file, r, job[c].p)]
            /\ Goto(c, "replace") /\ UNCHANGED <<lock, faults>>
    <3>1. job[c] \in Job /\ r \in Robots /\ job[c].p \in Params /\ file \in Store
      BY ResolvedType, RobotStateAssumption DEF TypeOK, Job
    <3>2. [job[c] EXCEPT !.robot = {r}, !.old = file, !.new = Updated(file, r, job[c].p)] \in Job
      BY <3>1, UpdatedType DEF Job
    <3>3. job' \in [Clients -> Job]
      BY <2>2, <3>2 DEF TypeOK
    <3> QED
      BY <1>3, <2>2, <3>3 DEF Prepare, Goto, TypeOK, PcState
  <2>3. CASE Fails /\ Release /\ Answer(c)
    BY <1>3, <2>3, AnswerType DEF Prepare, Fails, Release, TypeOK
  <2> QED
    BY <2>1, <2>2, <2>3
<1>4. ASSUME NEW c \in Clients, Replace(c) PROVE TypeOK'
  <2>1. job[c].new \in Store
    BY DEF TypeOK, Job
  <2>2. CASE file' = job[c].new /\ Goto(c, "verify") /\ UNCHANGED <<lock, job, faults>>
    BY <1>4, <2>1, <2>2 DEF Replace, Goto, TypeOK, PcState
  <2>3. CASE Fails /\ Release /\ Answer(c) /\ UNCHANGED file
    BY <1>4, <2>3, AnswerType DEF Replace, Fails, Release, TypeOK
  <2> QED
    BY <1>4, <2>2, <2>3 DEF Replace
<1>5. ASSUME NEW c \in Clients, Verify(c) PROVE TypeOK'
  <2>1. CASE /\ \E r \in job[c].robot : Tell(c, r, job[c].new.robots[r])
            /\ Release /\ Answer(c) /\ UNCHANGED faults
    <3>1. PICK r \in job[c].robot : Tell(c, r, job[c].new.robots[r])
      BY <2>1
    <3>2. r \in Robots /\ job[c].new.robots[r] \in Entry
      BY DEF TypeOK, Job, Store
    <3> QED
      BY <1>5, <2>1, <3>1, <3>2, TellType, AnswerType DEF Verify, Release, TypeOK
  <2>2. CASE Fails /\ Goto(c, "restore") /\ UNCHANGED <<lock, job, seen, told>>
    BY <1>5, <2>2 DEF Verify, Goto, Fails, TypeOK, PcState
  <2> QED
    BY <1>5, <2>1, <2>2 DEF Verify
<1>6. ASSUME NEW c \in Clients, Restore(c) PROVE TypeOK'
  <2>1. file' \in Store /\ faults' \in Nat
    BY <1>6 DEF Restore, Previous, Fails, TypeOK, Job
  <2> QED
    BY <1>6, <2>1, AnswerType DEF Restore, Release, TypeOK
<1>7. ASSUME NEW c \in Clients, Crash(c) PROVE TypeOK'
  BY <1>7, AnswerType DEF Crash, Fails, TypeOK
<1>8. ASSUME NEW c \in Clients, NEW r \in Robots, Read(c, r) PROVE TypeOK'
  <2>1. file.robots[r] \in Entry
    BY DEF TypeOK, Store
  <2> QED
    BY <1>8, <2>1, TellType DEF Read, TypeOK
<1>9. CASE UNCHANGED vars
  BY <1>9 DEF vars, TypeOK
<1> QED
  BY <1>1, <1>2, <1>3, <1>4, <1>5, <1>6, <1>7, <1>8, <1>9 DEF Next, Critical


-------------------------------------------------------------------------------
(* The reader's view.                                                          *)
LEMMA VisibleFile ==
  ASSUME \A c \in Clients : pc[c] \notin {"verify", "restore"}
  PROVE  Visible = file
  BY DEF Visible

LEMMA VisibleOld ==
  ASSUME OneUpdate, NEW c \in Clients, pc[c] \in {"verify", "restore"}
  PROVE  Visible = job[c].old
<1>1. \A d \in Clients : pc[d] \in {"verify", "restore"} => d = c
  BY DEF OneUpdate
<1>2. (CHOOSE d \in Clients : pc[d] \in {"verify", "restore"}) = c
  BY <1>1
<1> QED
  BY <1>2 DEF Visible

\* A step of client c leaves the others where they are.
LEMMA Others ==
  ASSUME TypeOK, OneUpdate, NEW c \in Clients, NEW l, pc' = [pc EXCEPT ![c] = l]
  PROVE  /\ pc'[c] = l /\ \A d \in Clients \ {c} : pc'[d] = pc[d]
         /\ pc[c] # "idle" => lock = c /\ \A d \in Clients \ {c} : pc[d] = "idle"
  BY DEF TypeOK, OneUpdate

LEMMA VisibleStore == ASSUME IInv PROVE Visible \in Store
<1>1. CASE \E c \in Clients : pc[c] \in {"verify", "restore"}
  BY <1>1, VisibleOld DEF IInv, Copied, Late
<1>2. CASE \A c \in Clients : pc[c] \notin {"verify", "restore"}
  BY <1>2, VisibleFile DEF IInv, TypeOK
<1> QED
  BY <1>1, <1>2

\* What a step of the store does to the view: nothing, or one write.
Wrote == \E r \in Robots, v \in Contents :
  Visible'.robots = [Visible.robots EXCEPT ![r] = [ver |-> @.ver + 1, st |-> v]]

\* An update that is answered, put back, or dies while readers wait for it: the
\* view becomes the file as it then is.
LEMMA LateEnd ==
  ASSUME IInv, NEW c \in Clients, pc[c] \in {"verify", "restore"}, pc' = [pc EXCEPT ![c] = "idle"],
         file' \in {job[c].old, job[c].new}
  PROVE  /\ Visible = job[c].old /\ Visible' = file'
         /\ Wrote \/ Visible' = Visible
<1>1. Visible = job[c].old
  BY VisibleOld DEF IInv
<1>2. \A d \in Clients : pc'[d] = "idle"
  BY Others DEF IInv
<1>3. Visible' = file'
  BY <1>2 DEF Visible
<1>4. PICK r \in Robots : job[c].new = Updated(job[c].old, r, job[c].p)
  BY DEF IInv, Copied, Late
<1>5. job[c].old \in Store /\ job[c].p \in Params
  BY DEF IInv, Copied, Late
<1>6. CASE file' = job[c].new
  <2>1. file'.robots = [job[c].old.robots EXCEPT
                          ![r] = [ver |-> @.ver + 1, st |-> Merged(@.st, job[c].p)]]
    BY <1>4, <1>6 DEF Updated
  <2>2. Merged(job[c].old.robots[r].st, job[c].p) \in Contents
    BY <1>5, UpdatedType
  <2> QED
    BY <1>1, <1>3, <2>1, <2>2 DEF Wrote
<1> QED
  BY <1>1, <1>3, <1>6

\* Each step: the lock is kept, the copies stay true, and the view moves only by
\* one write.
Kept == OneUpdate' /\ Copied' /\ (Wrote \/ Visible' = Visible)

\* Any way back to idle, with the file left as it was.
LEMMA GivenUp ==
  ASSUME IInv, NEW c \in Clients, pc[c] # "idle", Answer(c), Release, file' = file
  PROVE  Kept
<1>1. pc' = [pc EXCEPT ![c] = "idle"]
  BY DEF Answer, Goto
<1>2. \A d \in Clients : pc'[d] = "idle"
  BY <1>1, Others DEF IInv
<1>3. OneUpdate' /\ Copied'
  BY <1>2, RobotStateAssumption DEF OneUpdate, Copied, Late, Release
<1>4. CASE pc[c] \in {"verify", "restore"}
  <2>1. file' = job[c].new
    BY <1>4 DEF IInv, Copied
  <2> QED
    BY <1>1, <1>3, <1>4, <2>1, LateEnd DEF Kept
<1>5. CASE pc[c] \notin {"verify", "restore"}
  <2>1. \A d \in Clients : pc[d] \notin {"verify", "restore"}
    BY <1>1, <1>5, Others DEF IInv
  <2>2. Visible = file
    BY <2>1, VisibleFile
  <2>3. Visible' = file'
    BY <1>2 DEF Visible
  <2> QED
    BY <1>3, <2>2, <2>3 DEF Kept
<1> QED
  BY <1>4, <1>5

\* A step that keeps the lock and changes nothing readers may see.
LEMMA Onward ==
  ASSUME IInv, NEW c \in Clients, NEW l \in PcState \ {"idle"}, pc' = [pc EXCEPT ![c] = l],
         lock' = c, pc[c] = "idle" => lock = NoOne
  PROVE  /\ OneUpdate'
         /\ \A d \in Clients \ {c} : pc[d] = "idle" /\ pc'[d] = "idle"
         /\ pc'[c] = l
<1>1. pc'[c] = l /\ \A d \in Clients \ {c} : pc'[d] = pc[d]
  BY Others DEF IInv
<1>2. \A d \in Clients \ {c} : pc[d] = "idle"
  BY RobotStateAssumption DEF IInv, OneUpdate
<1> QED
  BY <1>1, <1>2 DEF OneUpdate


\* The same of the state a step leads to.
LEMMA VisibleOldNext ==
  ASSUME OneUpdate', NEW c \in Clients, pc'[c] \in {"verify", "restore"}
  PROVE  Visible' = job'[c].old
<1>1. \A d \in Clients : pc'[d] \in {"verify", "restore"} => d = c
  BY DEF OneUpdate
<1>2. (CHOOSE d \in Clients : pc'[d] \in {"verify", "restore"}) = c
  BY <1>1
<1> QED
  BY <1>2 DEF Visible

LEMMA BeginKeeps ==
  ASSUME IInv, NEW c \in Clients, NEW sel \in Selectors, NEW p \in Requests, Begin(c, sel, p)
  PROVE  Kept
<1>1. /\ pc' = [pc EXCEPT ![c] = "load"] /\ lock' = c /\ lock = NoOne /\ file' = file
  BY DEF Begin, Goto, Free
<1>2. OneUpdate' /\ \A d \in Clients : pc'[d] \in {"idle", "load"}
  BY <1>1, Onward DEF PcState
<1>3. \A d \in Clients : pc[d] = "idle"
  BY <1>1, RobotStateAssumption DEF IInv, OneUpdate
<1>4. Visible = file /\ Visible' = file'
  BY <1>2, <1>3 DEF Visible
<1>5. Copied'
  BY <1>2 DEF Copied, Late
<1> QED
  BY <1>1, <1>2, <1>4, <1>5 DEF Kept

LEMMA PrepareKeeps ==
  ASSUME IInv, NEW c \in Clients, Prepare(c)
  PROVE  Kept
<1>1. PICK r \in Resolved(job[c].sel) :
        \/ /\ job' = [job EXCEPT ![c].robot = {r}, ![c].old = file,
                                 ![c].new = Updated(file, r, job[c].p)]
           /\ Goto(c, "replace") /\ UNCHANGED <<lock, faults>>
        \/ Fails /\ Release /\ Answer(c)
  BY DEF Prepare
<1>2. pc[c] = "load" /\ file' = file /\ lock = c
  BY DEF Prepare, IInv, OneUpdate
<1>3. CASE Fails /\ Release /\ Answer(c)
  BY <1>2, <1>3, GivenUp
<1>4. CASE /\ job' = [job EXCEPT ![c].robot = {r}, ![c].old = file,
                                 ![c].new = Updated(file, r, job[c].p)]
          /\ Goto(c, "replace") /\ UNCHANGED <<lock, faults>>
  <2>1. pc' = [pc EXCEPT ![c] = "replace"] /\ lock' = c
    BY <1>2, <1>4 DEF Goto
  <2>2. /\ OneUpdate' /\ pc'[c] = "replace"
        /\ \A d \in Clients \ {c} : pc[d] = "idle" /\ pc'[d] = "idle"
    BY <1>2, <2>1, Onward DEF PcState
  <2>3. Visible = file /\ Visible' = file'
    BY <1>2, <2>2 DEF Visible
  <2>4. r \in Robots /\ job[c] \in Job /\ file \in Store
    BY ResolvedType DEF IInv, TypeOK
  <2>5. /\ job'[c].p = job[c].p /\ job'[c].old = file /\ job'[c].robot = {r}
        /\ job'[c].new = Updated(file, r, job[c].p)
    BY <1>4, <2>4 DEF IInv, TypeOK, Job
  <2>6. job[c].p \in Params
    BY <2>4, RobotStateAssumption DEF Job
  <2>7. Copied'
    BY <1>2, <2>2, <2>4, <2>5, <2>6 DEF Copied, Late
  <2> QED
    BY <1>2, <2>2, <2>3, <2>7 DEF Kept
<1> QED
  BY <1>1, <1>3, <1>4

LEMMA ReplaceKeeps ==
  ASSUME IInv, NEW c \in Clients, Replace(c)
  PROVE  Kept
<1>1. pc[c] = "replace" /\ lock = c
  BY DEF Replace, IInv, OneUpdate
<1>2. CASE Fails /\ Release /\ Answer(c) /\ UNCHANGED file
  BY <1>1, <1>2, GivenUp
<1>3. CASE file' = job[c].new /\ Goto(c, "verify") /\ UNCHANGED <<lock, job, faults>>
  <2>1. pc' = [pc EXCEPT ![c] = "verify"] /\ lock' = c /\ job' = job
    BY <1>1, <1>3 DEF Goto
  <2>2. /\ OneUpdate' /\ pc'[c] = "verify"
        /\ \A d \in Clients \ {c} : pc[d] = "idle" /\ pc'[d] = "idle"
    BY <1>1, <2>1, Onward DEF PcState
  <2>3. file = job[c].old /\ Visible = file
    BY <1>1, <2>2 DEF IInv, Copied, Visible
  <2>4. Visible' = job[c].old
    BY <2>1, <2>2, VisibleOldNext
  <2>5. Copied'
    BY <1>1, <1>3, <2>1, <2>2 DEF IInv, Copied, Late
  <2> QED
    BY <2>2, <2>3, <2>4, <2>5 DEF Kept
<1> QED
  BY <1>2, <1>3 DEF Replace

LEMMA VerifyKeeps ==
  ASSUME IInv, NEW c \in Clients, Verify(c)
  PROVE  Kept
<1>1. pc[c] = "verify" /\ lock = c /\ file' = file
  BY DEF Verify, IInv, OneUpdate
<1>2. CASE Release /\ Answer(c)
  BY <1>1, <1>2, GivenUp
<1>3. CASE Goto(c, "restore") /\ UNCHANGED <<lock, job>>
  <2>1. pc' = [pc EXCEPT ![c] = "restore"] /\ lock' = c /\ job' = job
    BY <1>1, <1>3 DEF Goto
  <2>2. /\ OneUpdate' /\ pc'[c] = "restore"
        /\ \A d \in Clients \ {c} : pc[d] = "idle" /\ pc'[d] = "idle"
    BY <1>1, <2>1, Onward DEF PcState
  <2>3. Visible = job[c].old /\ Visible' = job[c].old
    BY <1>1, <2>1, <2>2, VisibleOld, VisibleOldNext DEF IInv
  <2>4. Copied'
    BY <1>1, <2>1, <2>2 DEF IInv, Copied, Late
  <2> QED
    BY <2>2, <2>3, <2>4 DEF Kept
<1> QED
  BY <1>2, <1>3 DEF Verify

LEMMA RestoreKeeps ==
  ASSUME IInv, NEW c \in Clients, Restore(c)
  PROVE  Kept
<1>1. pc[c] = "restore" /\ lock = c /\ pc' = [pc EXCEPT ![c] = "idle"] /\ lock' = NoOne
  BY DEF Restore, Answer, Goto, Release, IInv, OneUpdate
<1>2. file' \in {job[c].old, job[c].new}
  BY <1>1 DEF Restore, Previous, IInv, Copied
<1>3. \A d \in Clients : pc'[d] = "idle"
  BY <1>1, Others DEF IInv
<1>4. OneUpdate' /\ Copied'
  BY <1>1, <1>3, RobotStateAssumption DEF OneUpdate, Copied, Late
<1> QED
  BY <1>1, <1>2, <1>4, LateEnd DEF Kept

LEMMA CrashKeeps ==
  ASSUME IInv, NEW c \in Clients, Crash(c)
  PROVE  Kept
<1>1. pc[c] # "idle" /\ Answer(c) /\ lock' = NoOne /\ file' = file
  BY DEF Crash, IInv, OneUpdate
<1> QED
  BY <1>1, GivenUp DEF Release

\* A step that moves the view by at most one write keeps what was told behind it.
LEMMA PastStaysPast ==
  ASSUME IInv, Wrote \/ Visible' = Visible, NEW a \in told
  PROVE  /\ a.robot \in Robots /\ a.ver <= Visible'.robots[a.robot].ver
         /\ a.ver = Visible'.robots[a.robot].ver => a.st = Visible'.robots[a.robot].st
<1>1. /\ a.robot \in Robots /\ a.ver \in Nat /\ a.ver <= Visible.robots[a.robot].ver
      /\ a.ver = Visible.robots[a.robot].ver => a.st = Visible.robots[a.robot].st
  BY DEF IInv, ToldIsPast, TypeOK
<1>2. CASE Visible' = Visible
  BY <1>1, <1>2
<1>3. CASE Wrote
  <2>1. PICK r \in Robots, v \in Contents :
          Visible'.robots = [Visible.robots EXCEPT ![r] = [ver |-> @.ver + 1, st |-> v]]
    BY <1>3 DEF Wrote
  <2>2. Visible.robots \in [Robots -> Entry] /\ Visible.robots[a.robot].ver \in Nat
    BY <1>1, VisibleStore DEF Store, Entry
  <2>3. CASE a.robot = r
    <3>1. Visible'.robots[a.robot].ver = Visible.robots[a.robot].ver + 1
      BY <2>1, <2>2, <2>3
    <3> QED
      BY <1>1, <2>2, <3>1
  <2>4. CASE a.robot # r
    <3>1. Visible'.robots[a.robot] = Visible.robots[a.robot]
      BY <1>1, <2>1, <2>2, <2>4
    <3> QED
      BY <1>1, <3>1
  <2> QED
    BY <2>3, <2>4
<1> QED
  BY <1>2, <1>3


\* What a client is told is the view its step leads to.
LEMMA ToldIsView ==
  ASSUME IInv, [Next]_vars, OneUpdate'
  PROVE  told' = told \/ \E r \in Robots :
           told' = told \cup {[robot |-> r, ver |-> Visible'.robots[r].ver,
                              st |-> Visible'.robots[r].st]}
<1>1. ASSUME NEW c \in Clients, Verify(c), told' # told
      PROVE  \E r \in Robots : told' = told \cup
               {[robot |-> r, ver |-> Visible'.robots[r].ver, st |-> Visible'.robots[r].st]}
  <2>1. PICK r \in job[c].robot : Tell(c, r, job[c].new.robots[r])
    BY <1>1 DEF Verify
  <2>2. r \in Robots /\ pc[c] = "verify" /\ file' = job[c].new /\ pc' = [pc EXCEPT ![c] = "idle"]
    BY <1>1 DEF Verify, Answer, Goto, IInv, TypeOK, Job, Copied
  <2>3. Visible' = job[c].new
    BY <2>2, LateEnd
  <2> QED
    BY <2>1, <2>2, <2>3 DEF Tell
<1>2. ASSUME NEW c \in Clients, NEW r \in Robots, Read(c, r)
      PROVE  told' = told \cup {[robot |-> r, ver |-> Visible'.robots[r].ver,
                                st |-> Visible'.robots[r].st]}
  <2>1. \A d \in Clients : pc'[d] = "idle"
    BY <1>2, RobotStateAssumption DEF Read, Readable, IInv, OneUpdate
  <2>2. Visible' = file /\ Tell(c, r, file.robots[r])
    BY <1>2, <2>1 DEF Read, Visible
  <2> QED
    BY <2>2 DEF Tell
<1>3. ASSUME NEW c \in Clients, \/ \E sel \in Selectors, p \in Requests : Begin(c, sel, p)
                               \/ Refuse(c) \/ Prepare(c) \/ Replace(c) \/ Restore(c) \/ Crash(c)
      PROVE  told' = told
  BY <1>3 DEF Begin, Refuse, Prepare, Replace, Restore, Crash
<1>4. CASE UNCHANGED vars
  BY <1>4 DEF vars
<1> QED
  BY <1>1, <1>2, <1>3, <1>4 DEF Next, Critical

LEMMA StepKept ==
  ASSUME IInv, [Next]_vars
  PROVE  Kept
<1>1. ASSUME NEW c \in Clients, NEW r \in Robots, Read(c, r) PROVE Kept
  BY <1>1 DEF Read, IInv, Kept, OneUpdate, Copied, Visible
<1>2. ASSUME NEW c \in Clients, Refuse(c) PROVE Kept
  BY <1>2, GivenUp DEF Refuse
<1>3. CASE UNCHANGED vars
  BY <1>3 DEF vars, IInv, Kept, OneUpdate, Copied, Visible
<1> QED
  BY <1>1, <1>2, <1>3, BeginKeeps, PrepareKeeps, ReplaceKeeps, VerifyKeeps, RestoreKeeps, CrashKeeps
     DEF Next, Critical

LEMMA StepPast ==
  ASSUME IInv, [Next]_vars
  PROVE  ToldIsPast' /\ VersionNamesState'
<1>1. OneUpdate' /\ (Wrote \/ Visible' = Visible)
  BY StepKept DEF Kept
<1>2. \A a \in told :
        /\ a.robot \in Robots /\ a.ver <= Visible'.robots[a.robot].ver
        /\ a.ver = Visible'.robots[a.robot].ver => a.st = Visible'.robots[a.robot].st
  BY <1>1, PastStaysPast
<1>3. CASE told' = told
  BY <1>2, <1>3 DEF IInv, ToldIsPast, VersionNamesState
<1>4. ASSUME NEW r \in Robots, told' = told \cup
               {[robot |-> r, ver |-> Visible'.robots[r].ver, st |-> Visible'.robots[r].st]}
      PROVE  ToldIsPast' /\ VersionNamesState'
  <2> DEFINE n == [robot |-> r, ver |-> Visible'.robots[r].ver, st |-> Visible'.robots[r].st]
  <2>1. n.robot = r /\ n.ver = Visible'.robots[r].ver /\ n.st = Visible'.robots[r].st
    OBVIOUS
  <2>2. n.ver \in Nat
    <3>1. n \in told'
      BY <1>4
    <3>2. told' \subseteq [robot: Robots, ver: Nat, st: Contents]
      BY StepType DEF TypeOK
    <3> QED
      BY <3>1, <3>2
  <2>3. ToldIsPast'
    BY <1>2, <1>4, <2>1, <2>2 DEF ToldIsPast
  <2>4. \A a \in told : a.robot = n.robot /\ a.ver = n.ver => a.st = n.st
    BY <1>2, <2>1
  <2> HIDE DEF n
  <2>5. told' = told \cup {n}
    BY <1>4 DEF n
  <2> QED
    BY <2>3, <2>4, <2>5 DEF IInv, VersionNamesState
<1> QED
  BY <1>1, <1>3, <1>4, ToldIsView

\* The invariant of the store.
THEOREM InvariantHolds == Spec => []IInv
<1>1. ASSUME Init PROVE IInv
  BY <1>1, InitType, RobotStateAssumption
     DEF Init, IInv, OneUpdate, Copied, Late, ToldIsPast, VersionNamesState
<1>2. ASSUME IInv, [Next]_vars PROVE IInv'
  BY <1>2, StepType, StepKept, StepPast DEF IInv, Kept
<1> QED
  BY <1>1, <1>2, PTL DEF Spec

-------------------------------------------------------------------------------
\* Nothing a client was told is lost, whatever file operation fails and whatever
\* process dies.
THEOREM ToldIsKept == Spec => []NothingLost
<1>1. ASSUME IInv PROVE NothingLost
  <2>1. SUFFICES ASSUME NEW a \in told
                 PROVE  /\ a.ver <= file.robots[a.robot].ver
                        /\ a.ver = file.robots[a.robot].ver => a.st = file.robots[a.robot].st
    BY DEF NothingLost
  <2>2. /\ a.robot \in Robots /\ a.ver \in Nat /\ a.ver <= Visible.robots[a.robot].ver
        /\ a.ver = Visible.robots[a.robot].ver => a.st = Visible.robots[a.robot].st
    BY <1>1 DEF IInv, ToldIsPast, TypeOK
  <2>3. CASE \A c \in Clients : pc[c] \notin {"verify", "restore"}
    BY <2>2, <2>3, VisibleFile
  <2>4. ASSUME NEW c \in Clients, pc[c] \in {"verify", "restore"}
        PROVE  /\ a.ver <= file.robots[a.robot].ver
               /\ a.ver = file.robots[a.robot].ver => a.st = file.robots[a.robot].st
    <3>1. Visible = job[c].old /\ file = job[c].new /\ job[c].old \in Store
      BY <1>1, <2>4, VisibleOld DEF IInv, Copied, Late
    <3>2. PICK r \in Robots : job[c].new = Updated(job[c].old, r, job[c].p)
      BY <1>1, <2>4 DEF IInv, Copied, Late
    <3>3. file.robots = [job[c].old.robots EXCEPT
                           ![r] = [ver |-> @.ver + 1, st |-> Merged(@.st, job[c].p)]]
      BY <3>1, <3>2 DEF Updated
    <3>4. job[c].old.robots \in [Robots -> Entry] /\ job[c].old.robots[a.robot].ver \in Nat
      BY <2>2, <3>1 DEF Store, Entry
    <3>5. CASE a.robot = r
      <4>1. file.robots[a.robot].ver = Visible.robots[a.robot].ver + 1
        BY <3>1, <3>3, <3>4, <3>5
      <4> QED
        BY <2>2, <3>1, <3>4, <4>1
    <3>6. CASE a.robot # r
      <4>1. file.robots[a.robot] = Visible.robots[a.robot]
        BY <2>2, <3>1, <3>3, <3>4, <3>6
      <4> QED
        BY <2>2, <4>1
    <3> QED
      BY <3>5, <3>6
  <2> QED
    BY <2>3, <2>4
<1> QED
  BY <1>1, InvariantHolds, PTL

\* A version names one state for whoever is told it: what the version check of a
\* publication and the expected version of an update rest on.
THEOREM VersionsNameStates == Spec => []VersionNamesState
<1>1. IInv => VersionNamesState
  BY DEF IInv
<1> QED
  BY <1>1, InvariantHolds, PTL

\* The store implements the versioned register: whatever fails, readers see one
\* write after another.
THEOREM StoreRefinesRegister == Spec => RefinesRegister
<1>1. Init => Register!Init
  <2>1. ASSUME Init PROVE Visible = Initial
    BY <2>1 DEF Init, Visible
  <2> QED
    BY <2>1, RobotStateAssumption DEF Store, Entry, Register!Init, Register!Entry
<1>2. ASSUME IInv, [Next]_vars PROVE [Register!Next]_(Visible.robots)
  <2>1. Wrote \/ Visible' = Visible
    BY <1>2, StepKept DEF Kept
  <2>2. ASSUME Wrote PROVE Register!Next
    BY <2>2 DEF Wrote, Register!Next, Register!Write
  <2> QED
    BY <2>1, <2>2
<1> QED
  BY <1>1, <1>2, InvariantHolds, PTL DEF Spec, RefinesRegister, Register!Spec
===============================================================================
