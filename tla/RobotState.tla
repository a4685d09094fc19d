------------------------------ MODULE RobotState ------------------------------
(***************************************************************************)
(* The robot state store: one YAML file shared by the threads of several    *)
(* server processes, changed by read-modify-write under an exclusive lock.  *)
(* An update names a robot by a selector, may name the version it expects,  *)
(* and is answered when the new file has been replaced and read back; when   *)
(* that fails the old bytes are put back.                                    *)
(*                                                                           *)
(*   src/src/state_info.py             locks, versions, persistence          *)
(*   src/src/state/fleet_selector.py   selectors                             *)
(*   src/src/web/routes/robot.py       the update request                    *)
(***************************************************************************)
EXTENDS Naturals, FiniteSets

CONSTANTS Clients,    \* request threads
          NoOne,      \* holder of a free lock
          Robots,     \* status_refs: of the fleet, and others the file may hold
          Selectors,  \* names a request may use
          NamesOf,    \* NamesOf[k][r]: the selectors of kind k that match r
          Initial,    \* what the file holds at the start
          Requests,   \* what the requests set: members of Params
          MaxVersion, \* bound on the store version
          MaxFaults   \* bound on failed file operations and crashes

SelectorKinds == <<"unit", "variant", "family", "ref">>

Statuses == {"none", "idle", "busy", "fault"}  \* "none": the key is missing
Flags    == {"none", "yes", "no"}
Contents == [overall: Statuses, busy: Flags]
NoContent == [overall |-> "none", busy |-> "none"]

\* The fields a request may set: overall_status, or is_busy, or both.
Params == Contents \ {NoContent}

Entry == [ver: Nat, st: Contents]
Store == [sv: Nat, robots: [Robots -> Entry]]

ASSUME RobotStateAssumption ==
         /\ NoOne \notin Clients
         /\ NamesOf \in [{"unit", "variant", "family", "ref"} -> [Robots -> SUBSET Selectors]]
         /\ Initial \in Store
         /\ Requests \subseteq Params /\ Requests # {} /\ Selectors # {}
         /\ MaxVersion \in Nat /\ MaxFaults \in Nat

VARIABLES
  file,    \* the parsed content of state.yaml
  lock,    \* the client holding .state.yaml.lock exclusively
  pc,      \* pc[c]: where client c's update stands
  job,     \* job[c]: the update, and the file contents it read and wrote
  seen,    \* seen[c]: the robot entries of the last answer or read of client c
  told,    \* every robot entry any client was ever told (history variable)
  faults   \* faults so far

vars == <<file, lock, pc, job, seen, told, faults>>

-----------------------------------------------------------------------------
(* Contents of the file *)

\* A robot the file does not list.
Blank == [ver |-> 0, st |-> NoContent]

\* A missing file is an empty store.
Empty == [sv |-> 0, robots |-> [r \in Robots |-> Blank]]

\* overall_status implies is_busy unless the request sets that as well.
Merged(old, p) ==
  [overall |-> IF p.overall = "none" THEN old.overall ELSE p.overall,
   busy |-> CASE p.busy # "none" -> p.busy
              [] p.busy = "none" /\ p.overall = "idle" -> "no"
              [] p.busy = "none" /\ p.overall = "busy" -> "yes"
              [] OTHER -> old.busy]

Updated(s, r, p) ==
  [sv |-> s.sv + 1,
   robots |-> [s.robots EXCEPT ![r] = [ver |-> @.ver + 1, st |-> Merged(@.st, p)]]]

\* The robot a selector names: the first kind of name that matches anything must
\* match one robot; an ambiguous name is not resolved by a later kind. The last
\* kind are the keys of the file, which may list robots the fleet no longer does.
Matching(k, sel) ==
  {r \in Robots : sel \in NamesOf[k][r] /\ (k = "ref" => file.robots[r].ver > 0)}
Resolved(sel) ==
  LET hits == {i \in 1..4 : Matching(SelectorKinds[i], sel) # {}} IN
  IF hits = {} THEN {}
  ELSE LET first == CHOOSE i \in hits : \A j \in hits : i <= j
           found == Matching(SelectorKinds[first], sel)
       IN IF Cardinality(found) = 1 THEN found ELSE {}

-----------------------------------------------------------------------------
(* An update *)

AnyVersion == MaxVersion + 1  \* no expected_version in the request

Job   == [sel: Selectors, p: Requests, exp: Nat, robot: SUBSET Robots,
          old: Store, new: Store]
NoJob == [sel |-> CHOOSE s \in Selectors : TRUE, p |-> CHOOSE p \in Requests : TRUE,
          exp |-> AnyVersion, robot |-> {}, old |-> Empty, new |-> Empty]

PcState == {"idle", "load", "replace", "verify", "restore"}

Goto(c, l) == pc' = [pc EXCEPT ![c] = l]
Answer(c)  == /\ Goto(c, "idle") /\ job' = [job EXCEPT ![c] = NoJob]
Release    == lock' = NoOne
Fails      == faults < MaxFaults /\ faults' = faults + 1

Tell(c, r, e) == /\ seen' = [seen EXCEPT ![c] = [@ EXCEPT ![r] = e]]
                 /\ told' = told \cup {[robot |-> r, ver |-> e.ver, st |-> e.st]}

Unlocked == TRUE  \* mutant: an update does not wait for the one before it
Free == lock = NoOne

\* POST /api/robot/set-state-info: the client may insist on the version it was
\* last told, or on none; the update begins when the lock is granted.
Begin(c, sel, p) ==
  /\ pc[c] = "idle" /\ Free /\ file.sv < MaxVersion
  /\ \E exp \in {AnyVersion} \cup {seen[c][r].ver : r \in Robots} :
       job' = [job EXCEPT ![c] = [NoJob EXCEPT !.sel = sel, !.p = p, !.exp = exp]]
  /\ lock' = c /\ Goto(c, "load")
  /\ UNCHANGED <<file, seen, told, faults>>

IgnoresVersion(c, r) == TRUE  \* mutant
Current(c, r) == job[c].exp \in {AnyVersion, file.robots[r].ver}

\* An unknown selector and a stale version are refused before anything is written.
Refuse(c) ==
  /\ pc[c] = "load"
  /\ \A r \in Resolved(job[c].sel) : ~Current(c, r)
  /\ Release /\ Answer(c)
  /\ UNCHANGED <<file, seen, told, faults>>

\* The next file is computed from the file as it is under the lock, written to a
\* temporary file and synced; a failure there leaves the store alone.
Prepare(c) ==
  /\ pc[c] = "load"
  /\ \E r \in Resolved(job[c].sel) :
       /\ Current(c, r)
       /\ \/ /\ job' = [job EXCEPT ![c].robot = {r}, ![c].old = file,
                                   ![c].new = Updated(file, r, job[c].p)]
             /\ Goto(c, "replace") /\ UNCHANGED <<lock, faults>>
          \/ Fails /\ Release /\ Answer(c)
  /\ UNCHANGED <<file, seen, told>>

Replace(c) ==
  /\ pc[c] = "replace"
  /\ \/ /\ file' = job[c].new
        /\ Goto(c, "verify") /\ UNCHANGED <<lock, job, faults>>
     \/ Fails /\ Release /\ Answer(c) /\ UNCHANGED file
  /\ UNCHANGED <<seen, told>>

\* The directory is synced and the file read back; then the update is answered
\* with the new version and state.
Verify(c) ==
  /\ pc[c] = "verify"
  /\ \/ /\ \E r \in job[c].robot : Tell(c, r, job[c].new.robots[r])
        /\ Release /\ Answer(c) /\ UNCHANGED faults
     \/ /\ Fails /\ Goto(c, "restore")
        /\ UNCHANGED <<lock, job, seen, told>>
  /\ UNCHANGED file

\* The previous bytes are put back, unless that fails too: then the new file
\* stays and the request fails.
Nothing(c) == Empty  \* mutant: the file is unlinked although it existed
Previous(c) == job[c].old

Restore(c) ==
  /\ pc[c] = "restore"
  /\ \/ file' = Previous(c) /\ UNCHANGED faults
     \/ Fails /\ UNCHANGED file
  /\ Release /\ Answer(c)
  /\ UNCHANGED <<seen, told>>

\* get_robot_state, get_unit_state_snapshot: one read under the shared lock.
Readable == lock = NoOne

Read(c, r) ==
  /\ pc[c] = "idle" /\ Readable
  /\ Tell(c, r, file.robots[r])
  /\ UNCHANGED <<file, lock, pc, job, faults>>

\* The process of client c dies; its lock goes with it, the file stays.
Crash(c) ==
  /\ pc[c] # "idle" /\ Fails
  /\ Answer(c)
  /\ lock' = IF lock = c THEN NoOne ELSE lock
  /\ UNCHANGED <<file, seen, told>>

-----------------------------------------------------------------------------
(* Specification *)

Init ==
  /\ file = Initial
  /\ lock = NoOne
  /\ pc = [c \in Clients |-> "idle"]
  /\ job = [c \in Clients |-> NoJob]
  /\ seen = [c \in Clients |-> [r \in Robots |-> Blank]]
  /\ told = {}
  /\ faults = 0

\* What the holder of the lock does.
Critical(c) == Refuse(c) \/ Prepare(c) \/ Replace(c) \/ Verify(c) \/ Restore(c)

Next == \E c \in Clients :
  \/ \E sel \in Selectors, p \in Requests : Begin(c, sel, p)
  \/ Critical(c) \/ Crash(c)
  \/ \E r \in Robots : Read(c, r)

Spec == Init /\ [][Next]_vars

-----------------------------------------------------------------------------
(* Properties *)

TypeOK ==
  /\ file \in Store
  /\ lock \in Clients \cup {NoOne}
  /\ pc \in [Clients -> PcState]
  /\ job \in [Clients -> Job]
  /\ seen \in [Clients -> [Robots -> Entry]]
  /\ told \subseteq [robot: Robots, ver: Nat, st: Contents]
  /\ faults \in Nat

\* A version names one state: whoever is told a version of a robot, by an answer
\* or a read, is told the same content. The version check of a publication and
\* the expected_version of an update rest on it; a write that was verified badly
\* and put back must not have been seen by anyone.
VersionNamesState == \A a, b \in told :
  a.robot = b.robot /\ a.ver = b.ver => a.st = b.st

\* Nothing anyone was told is lost: the file never falls behind it, whichever
\* file operation of a later update fails and whatever process dies.
NothingLost == \A a \in told : LET e == file.robots[a.robot] IN
  a.ver <= e.ver /\ (a.ver = e.ver => a.st = e.st)

\* What readers see: while an update may still be put back, the file before it.
Visible == IF \E c \in Clients : pc[c] \in {"verify", "restore"}
           THEN job[CHOOSE c \in Clients : pc[c] \in {"verify", "restore"}].old
           ELSE file

Register == INSTANCE VersionedRegister WITH reg <- Visible.robots, First <- Initial.robots

\* The store implements a versioned register: every change a reader can notice
\* adds one to the version of one robot and leaves the others alone.
RefinesRegister == Register!Spec
=============================================================================
