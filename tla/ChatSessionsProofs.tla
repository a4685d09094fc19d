-------------------------- MODULE ChatSessionsProofs --------------------------
(***************************************************************************)
(* The chat requests of a session, for any number of threads, requests,      *)
(* resets and reloads, and any size of the request cache.                    *)
(*                                                                           *)
(* What a turn has looked up stays true until it is processed because of one *)
(* fact about two locks: a thread past its check holds the session lock of   *)
(* the manager that is registered, and only such a thread removes or replaces*)
(* that manager.  A telemetry update is exempt, and changes nothing but the  *)
(* evidence of a manager it holds the lock of.                               *)
(***************************************************************************)
EXTENDS ChatSessions, FiniteSetTheorems, SequenceTheorems, TLAPS

\* A worker that has looked up a manager waits for it, or holds its lock.
Locked == \A w \in Workers :
  /\ pc[w] \in {"check", "work", "process"} => lock[mgr[w]] = w
  /\ pc[w] \in {"wait", "check", "work", "process"} => mgr[w] \in 1..made

\* Past the check the manager stays the registered one.
Current == \A w \in Workers :
  pc[w] \in {"work", "process"} /\ job[w].kind # "refresh" => registry = mgr[w]

Asked == \A w \in Workers :
  /\ pc[w] # "idle" /\ job[w].kind = "turn" => job[w].req \in Reqs /\ ask[job[w].req] # "none"
  /\ pc[w] = "process" => job[w].kind = "turn"

\* A confirmation that is about to be processed still sees what was shown.
Summary == \A w \in Workers :
  pc[w] = "process" /\ ask[job[w].req] = "confirm" => tok[job[w].req] = TokenOf(mgr[w])

\* A token is fixed once its request has been sent.
Unsent == \A r \in Reqs : ask[r] = "none" => published[r] = NoTok

Lineage ==
  /\ \A m \in 1..made : root[m] \in 1..made
  /\ \A m \in Mgrs : m > made => accepted[m] = {}

\* Managers are made for the first turn, and after a reset or by a reload.
Replacing == {w \in Workers : job[w].kind \in {"reset", "reload"}}
Counted   == made + Cardinality(Replacing) + (IF registry = 0 THEN 1 ELSE 0) <= ops + 1

\* While nothing expires, a cache holds the last turns of its session.
Window(c, t) == /\ Len(c) = IF Len(t) < MaxEntries THEN Len(t) ELSE MaxEntries
                /\ \A i \in 1..Len(c) : c[i] = t[Len(t) - Len(c) + i]

Replayable == prompt =>
  /\ \A m \in Mgrs : Window(cache[m], turns[m])
  /\ \A w \in Workers : pc[w] = "process" => ~Remembered(cache[mgr[w]], job[w].req)

Inv == /\ TypeOK /\ Locked /\ Current /\ Asked /\ Summary /\ Unsent /\ Lineage /\ Counted
       /\ Replayable /\ ConfirmedAsShown /\ AcceptedIsKept

-----------------------------------------------------------------------------
(* Managers                                                                  *)

LEMMA ReplacingFinite ==
  ASSUME TRUE
  PROVE  IsFiniteSet(Replacing) /\ Cardinality(Replacing) \in Nat
BY ChatAssumption, FS_Subset, FS_CardinalityType DEF Replacing

LEMMA JobReplaced ==
  ASSUME TypeOK, NEW w \in Workers, NEW j, job' = [job EXCEPT ![w] = j]
  PROVE  /\ Cardinality(Replacing') \in Nat
         /\ Cardinality(Replacing') <= Cardinality(Replacing) + 1
         /\ j.kind \notin {"reset", "reload"} => Cardinality(Replacing') <= Cardinality(Replacing)
         /\ j.kind \notin {"reset", "reload"} /\ w \in Replacing =>
              Cardinality(Replacing') + 1 <= Cardinality(Replacing)
<1>1. IsFiniteSet(Replacing) /\ Cardinality(Replacing) \in Nat BY ReplacingFinite
<1>2. Cardinality(Replacing \ {w}) \in Nat
      /\ Cardinality(Replacing \ {w}) = Cardinality(Replacing) - (IF w \in Replacing THEN 1 ELSE 0)
  BY <1>1, FS_RemoveElement, FS_CardinalityType
<1>3. CASE j.kind \notin {"reset", "reload"}
  <2>1. Replacing' = Replacing \ {w} BY <1>3 DEF Replacing, TypeOK
  <2> QED BY <1>1, <1>2, <1>3, <2>1
<1>4. CASE j.kind \in {"reset", "reload"}
  <2>1. Replacing' = Replacing \cup {w} BY <1>4 DEF Replacing, TypeOK
  <2>2. Cardinality(Replacing') = Cardinality(Replacing) + (IF w \in Replacing THEN 0 ELSE 1)
    BY <1>1, <2>1, FS_AddElement
  <2> QED BY <1>1, <1>4, <2>2
<1> QED BY <1>3, <1>4

\* There is room for the manager a turn or a reload is about to make.
LEMMA Room ==
  ASSUME TypeOK, Counted
  PROVE  /\ registry = 0 => made + 1 \in Mgrs
         /\ Replacing # {} => made + 1 \in Mgrs
<1>1. IsFiniteSet(Replacing) /\ Cardinality(Replacing) \in Nat BY ReplacingFinite
<1>2. made \in Nat /\ ops \in Nat /\ ops <= MaxOps /\ MaxOps \in Nat
  BY ChatAssumption DEF TypeOK
<1>3. CASE registry = 0 BY <1>1, <1>2, <1>3 DEF Counted, Mgrs
<1>4. CASE Replacing # {}
  <2>1. Cardinality(Replacing) # 0 BY <1>1, <1>4, FS_EmptySet
  <2> QED BY <1>1, <1>2, <2>1 DEF Counted, Mgrs
<1> QED BY <1>3, <1>4

-----------------------------------------------------------------------------
(* Request caches                                                            *)

LEMMA DroppedIs ==
  ASSUME NEW c \in Seq(Reqs), NEW k \in 0..Len(c)
  PROVE  /\ Dropped(c, k) \in Seq(Reqs) /\ Len(Dropped(c, k)) = Len(c) - k
         /\ \A i \in 1..(Len(c) - k) : Dropped(c, k)[i] = c[k + i]
BY DEF Dropped

LEMMA ExpiredIs ==
  ASSUME TypeOK, NEW c \in Seq(Reqs), NEW e \in Expired(c)
  PROVE  /\ e \in Seq(Reqs) /\ Len(e) <= Len(c)
         /\ prompt => Len(e) = Len(c) /\ \A i \in 1..Len(c) : e[i] = c[i]
<1>1. PICK k \in IF prompt THEN {0} ELSE 0..Len(c) : e = Dropped(c, k) BY DEF Expired
<1>2. k \in 0..Len(c) BY <1>1 DEF TypeOK
<1>3. prompt => k = 0 BY <1>1
<1>4. /\ e \in Seq(Reqs) /\ Len(e) = Len(c) - k
      /\ \A i \in 1..(Len(c) - k) : e[i] = c[k + i]
  BY <1>1, <1>2, DroppedIs
<1>5. Len(c) \in Nat BY LenProperties
<1>6. ASSUME prompt PROVE Len(e) = Len(c) /\ \A i \in 1..Len(c) : e[i] = c[i]
  BY <1>3, <1>4, <1>5, <1>6
<1> QED BY <1>2, <1>4, <1>5, <1>6

LEMMA RememberedIs ==
  ASSUME NEW e \in Seq(Reqs), Len(e) <= MaxEntries, NEW r \in Reqs
  PROVE  LET a == Append(Kept(e), r) IN
         /\ a \in Seq(Reqs)
         /\ Len(a) = IF Len(e) < MaxEntries THEN Len(e) + 1 ELSE MaxEntries
         /\ \A i \in 1..(Len(a) - 1) : a[i] = e[Len(e) + 1 - Len(a) + i]
         /\ a[Len(a)] = r
<1> DEFINE k == IF Len(e) < MaxEntries THEN 0 ELSE 1
           d == Kept(e)
           a == Append(d, r)
<1>1. MaxEntries \in Nat /\ MaxEntries > 0 /\ Len(e) \in Nat BY ChatAssumption, LenProperties
<1>2. /\ d \in Seq(Reqs) /\ Len(d) = Len(e) - k
      /\ \A i \in 1..(Len(e) - k) : d[i] = e[k + i]
  <2>1. CASE Len(e) < MaxEntries
    <3>1. d = e BY <2>1 DEF Kept
    <3> QED BY <1>1, <2>1, <3>1
  <2>2. CASE Len(e) = MaxEntries
    <3>1. d = Dropped(e, 1) BY <1>1, <2>2 DEF Kept
    <3>2. 1 \in 0..Len(e) BY <1>1, <2>2
    <3>3. /\ d \in Seq(Reqs) /\ Len(d) = Len(e) - 1
          /\ \A i \in 1..(Len(e) - 1) : d[i] = e[1 + i]
      BY <3>1, <3>2, DroppedIs
    <3>4. k = 1 BY <1>1, <2>2
    <3> HIDE DEF d, k
    <3> QED BY <3>3, <3>4
  <2> QED BY <1>1, <2>1, <2>2
<1>3. /\ a \in Seq(Reqs) /\ Len(a) = Len(d) + 1 /\ a[Len(d) + 1] = r
      /\ \A i \in 1..Len(d) : a[i] = d[i]
  BY <1>2
<1>4. Len(a) = Len(e) + 1 - k BY <1>1, <1>2, <1>3
<1>5. ASSUME NEW i \in 1..(Len(a) - 1) PROVE a[i] = e[Len(e) + 1 - Len(a) + i]
  <2>1. i \in 1..Len(d) /\ i \in 1..(Len(e) - k) BY <1>1, <1>2, <1>3
  <2>2. a[i] = e[k + i] BY <1>2, <1>3, <2>1
  <2>3. Len(e) + 1 - Len(a) + i = k + i BY <1>1, <1>4
  <2> QED BY <2>2, <2>3
<1>6. Len(a) = IF Len(e) < MaxEntries THEN Len(e) + 1 ELSE MaxEntries BY <1>1, <1>4
<1>7. a[Len(a)] = r BY <1>3
<1> HIDE DEF d, a, k
<1>8. /\ a \in Seq(Reqs)
      /\ Len(a) = IF Len(e) < MaxEntries THEN Len(e) + 1 ELSE MaxEntries
      /\ \A i \in 1..(Len(a) - 1) : a[i] = e[Len(e) + 1 - Len(a) + i]
      /\ a[Len(a)] = r
  BY <1>3, <1>5, <1>6, <1>7
<1> QED BY <1>8 DEF a, d

\* The cache that remembers the turn just made still holds the last turns.
LEMMA WindowGrows ==
  ASSUME TypeOK, prompt, NEW c \in Seq(Reqs), Len(c) <= MaxEntries, NEW t \in Seq(Reqs),
         Window(c, t), NEW e \in Expired(c), NEW r \in Reqs
  PROVE  Window(Append(Kept(e), r), Append(t, r))
<1> DEFINE a == Append(Kept(e), r)
           u == Append(t, r)
<1>0. MaxEntries \in Nat /\ MaxEntries > 0 BY ChatAssumption
<1>1. e \in Seq(Reqs) /\ Len(e) = Len(c) /\ \A i \in 1..Len(c) : e[i] = c[i] BY ExpiredIs
<1>2. /\ a \in Seq(Reqs) /\ Len(a) = IF Len(c) < MaxEntries THEN Len(c) + 1 ELSE MaxEntries
      /\ \A i \in 1..(Len(a) - 1) : a[i] = e[Len(c) + 1 - Len(a) + i]
      /\ a[Len(a)] = r
  BY <1>1, RememberedIs
<1>3. Len(u) = Len(t) + 1 /\ u[Len(t) + 1] = r /\ \A i \in 1..Len(t) : u[i] = t[i] OBVIOUS
<1> HIDE DEF a, u
<1>4. Len(c) \in Nat /\ Len(t) \in Nat /\ Len(a) \in Nat /\ Len(u) \in Nat
  BY <1>2, <1>3, LenProperties
<1>5. /\ Len(c) = IF Len(t) < MaxEntries THEN Len(t) ELSE MaxEntries
      /\ \A i \in 1..Len(c) : c[i] = t[Len(t) - Len(c) + i]
  BY DEF Window
<1>6. Len(a) = IF Len(u) < MaxEntries THEN Len(u) ELSE MaxEntries
  BY <1>0, <1>2, <1>3, <1>4, <1>5
<1>7. ASSUME NEW i \in 1..Len(a) PROVE a[i] = u[Len(u) - Len(a) + i]
  <2> DEFINE j == Len(c) + 1 - Len(a) + i
  <2>1. CASE i = Len(a)
    <3>1. Len(u) - Len(a) + i = Len(t) + 1 BY <1>3, <1>4, <2>1
    <3> QED BY <1>2, <1>3, <2>1, <3>1
  <2>2. CASE i < Len(a)
    <3>0. i \in Nat /\ i >= 1 /\ i + 1 <= Len(a) BY <1>4, <2>2
    <3>1. i \in 1..(Len(a) - 1) /\ j \in 1..Len(c)
      <4>1. i \in 1..(Len(a) - 1) BY <1>4, <3>0
      <4>2. CASE Len(c) < MaxEntries BY <1>0, <1>2, <1>4, <3>0, <4>2
      <4>3. CASE ~(Len(c) < MaxEntries)
        <5>1. Len(a) = MaxEntries /\ Len(c) = MaxEntries BY <1>0, <1>2, <1>4, <1>5, <4>3
        <5> QED BY <1>0, <1>4, <3>0, <5>1
      <4> QED BY <4>1, <4>2, <4>3
    <3>2. a[i] = e[j] /\ e[j] = c[j] BY <1>1, <1>2, <3>1
    <3>3. c[j] = t[Len(t) - Len(c) + j] BY <1>5, <3>1
    <3>4. Len(t) - Len(c) + j = Len(u) - Len(a) + i BY <1>3, <1>4
    <3>5. Len(u) - Len(a) + i \in 1..Len(t) BY <1>0, <1>3, <1>4, <1>5, <1>6, <2>2
    <3>6. u[Len(u) - Len(a) + i] = t[Len(u) - Len(a) + i] BY <1>3, <3>5
    <3> QED BY <3>2, <3>3, <3>4, <3>6
  <2> QED BY <1>4, <2>1, <2>2
<1>8. Window(a, u) BY <1>6, <1>7 DEF Window
<1> QED BY <1>8 DEF a, u

-----------------------------------------------------------------------------
(* Types                                                                     *)

LEMMA EditIs ==
  ASSUME TypeOK, NEW m \in Mgrs, NEW r \in Reqs,
         draft' = [draft EXCEPT ![m].applied[r] = @ + 1, ![m].done = FALSE]
  PROVE  /\ draft' \in [Mgrs -> Draft]
         /\ \A x \in Mgrs \ {m} : draft'[x] = draft[x]
         /\ draft'[m].applied = [draft[m].applied EXCEPT ![r] = @ + 1]
<1>1. draft[m] \in Draft BY DEF TypeOK
<1>2. draft[m].applied \in [Reqs -> Nat] BY <1>1 DEF Draft
<1>3. [draft[m].applied EXCEPT ![r] = @ + 1] \in [Reqs -> Nat] BY <1>2
<1> DEFINE d == [draft[m] EXCEPT !.applied[r] = @ + 1, !.done = FALSE]
<1>4. d.applied = [draft[m].applied EXCEPT ![r] = @ + 1] /\ d.done = FALSE
      /\ d.evidence = draft[m].evidence
  BY <1>1 DEF Draft
<1>5. d \in Draft
  <2>1. [draft[m] EXCEPT !.applied = [draft[m].applied EXCEPT ![r] = @ + 1], !.done = FALSE] \in Draft
    BY <1>1, <1>3 DEF Draft
  <2> QED BY <1>1, <2>1 DEF Draft
<1>6. draft' = [draft EXCEPT ![m] = d] BY DEF TypeOK
<1> HIDE DEF d
<1> QED BY <1>4, <1>5, <1>6 DEF TypeOK

LEMMA EvidenceType ==
  ASSUME NEW d \in Draft, NEW e \in {0, 1}
  PROVE  [d EXCEPT !.evidence = e] \in Draft
BY DEF Draft

LEMMA DoneType ==
  ASSUME NEW d \in Draft
  PROVE  [d EXCEPT !.done = TRUE] \in Draft
BY DEF Draft

LEMMA EmptyType == Empty \in Draft
BY DEF Empty, Draft

LEMMA TokenType ==
  ASSUME TypeOK, NEW m \in Mgrs
  PROVE  TokenOf(m) \in Token
BY DEF TypeOK, TokenOf, Token

LEMMA EndType ==
  ASSUME TypeOK, NEW w \in Workers, End(w)
  PROVE  /\ pc' \in [Workers -> PcState] /\ job' \in [Workers -> [kind: Jobs, req: 0..MaxReqs]]
         /\ mgr' \in [Workers -> 0..(MaxOps + 1)]
<1>1. NoJob \in [kind: Jobs, req: 0..MaxReqs] /\ 0 \in 0..(MaxOps + 1)
  BY ChatAssumption DEF NoJob, Jobs
<1> QED BY <1>1 DEF TypeOK, End, Goto, PcState

LEMMA BeginType ==
  ASSUME TypeOK, NEW w \in Workers, NEW kind \in Jobs, NEW r \in 0..MaxReqs,
         NEW l \in PcState, Begin(w, kind, r, l)
  PROVE  pc' \in [Workers -> PcState] /\ job' \in [Workers -> [kind: Jobs, req: 0..MaxReqs]]
BY DEF TypeOK, Begin, Goto

LEMMA ManagerIs ==
  ASSUME TypeOK, Locked, NEW w \in Workers, pc[w] \in {"wait", "check", "work", "process"}
  PROVE  mgr[w] \in 1..made /\ mgr[w] \in Mgrs
BY ChatAssumption DEF TypeOK, Locked, Mgrs

LEMMA LeaveType ==
  ASSUME TypeOK, NEW w \in Workers, Leave(w)
  PROVE  /\ pc' \in [Workers -> PcState] /\ job' \in [Workers -> [kind: Jobs, req: 0..MaxReqs]]
         /\ mgr' \in [Workers -> 0..(MaxOps + 1)] /\ lock' \in [Mgrs -> Workers \cup {NoOne}]
BY EndType DEF TypeOK, Leave

LEMMA InitType == Init => TypeOK
BY ChatAssumption, EmptyType DEF Init, TypeOK, Mgrs, Asks, Jobs, NoJob, PcState

LEMMA SendType ==
  ASSUME TypeOK, NEW w \in Workers, NEW r \in Reqs, Send(w, r) \/ Resend(w, r)
  PROVE  TypeOK'
<1>1. /\ pc' \in [Workers -> PcState] /\ job' \in [Workers -> [kind: Jobs, req: 0..MaxReqs]]
  BY ChatAssumption, BeginType DEF Send, Resend, Jobs, PcState, Reqs
<1>2. sends' \in 0..MaxSends BY ChatAssumption DEF TypeOK, Send, Resend
<1>3. ask' \in [Reqs -> Asks] BY DEF TypeOK, Send, Resend, Asks
<1>4. tok' \in [Reqs -> Token \cup {NoTok}]
  <2>1. CASE UNCHANGED tok BY <2>1 DEF TypeOK
  <2>2. CASE registry # 0 /\ tok' = [tok EXCEPT ![r] = TokenOf(registry)]
    <3>1. registry \in Mgrs BY <2>2, ChatAssumption DEF TypeOK, Mgrs
    <3> QED BY <2>2, <3>1, TokenType DEF TypeOK
  <2> QED BY <2>1, <2>2 DEF Send, Resend
<1> QED BY <1>1, <1>2, <1>3, <1>4 DEF TypeOK, Send, Resend, books

LEMMA StartType ==
  ASSUME TypeOK, NEW w \in Workers, NEW kind \in Jobs, Start(w, kind)
  PROVE  TypeOK'
<1>1. /\ pc' \in [Workers -> PcState] /\ job' \in [Workers -> [kind: Jobs, req: 0..MaxReqs]]
  BY ChatAssumption, BeginType DEF Start, PcState
<1>2. ops' \in 0..MaxOps BY ChatAssumption DEF TypeOK, Start
<1> QED BY <1>1, <1>2 DEF TypeOK, Start, books

LEMMA LookupType ==
  ASSUME TypeOK, Counted, NEW w \in Workers, Lookup(w)
  PROVE  TypeOK'
<1>1. pc' \in [Workers -> PcState] BY DEF TypeOK, Lookup, Goto, PcState
<1>2. CASE registry # 0
  <2>1. registry \in 0..(MaxOps + 1) BY ChatAssumption DEF TypeOK
  <2> QED BY <1>1, <1>2, <2>1 DEF TypeOK, Lookup
<1>3. CASE registry = 0
  <2>1. made + 1 \in Mgrs BY <1>3, Room
  <2>2. made + 1 \in 0..(MaxOps + 1) /\ registry' \in 0..made'
    BY <1>3, <2>1, ChatAssumption DEF TypeOK, Lookup, Mgrs
  <2> QED BY <1>1, <1>3, <2>2 DEF TypeOK, Lookup
<1> QED BY <1>2, <1>3

LEMMA WaitType ==
  ASSUME TypeOK, Locked, NEW w \in Workers, Find(w) \/ Enter(w) \/ Check(w)
  PROVE  TypeOK'
<1> USE DEF books
<1>1. CASE Find(w)
  <2>1. CASE registry = 0 BY <1>1, <2>1, EndType DEF TypeOK, Find
  <2>2. CASE registry # 0
    <3>1. registry \in 0..(MaxOps + 1) BY ChatAssumption DEF TypeOK
    <3> QED BY <1>1, <2>2, <3>1 DEF TypeOK, Find, AfterFind, Goto, PcState
  <2> QED BY <2>1, <2>2
<1>2. CASE Enter(w)
  <2>1. pc' \in [Workers -> PcState] BY <1>2 DEF TypeOK, Enter, Goto, PcState
  <2> QED BY <1>2, <2>1 DEF TypeOK, Enter
<1>3. CASE Check(w)
  <2>1. CASE Goto(w, "work") /\ Stay
    BY <1>3, <2>1 DEF TypeOK, Check, Stay, Goto, PcState
  <2>2. CASE Leave(w) BY <1>3, <2>2, LeaveType DEF TypeOK, Check
  <2> QED BY <1>3, <2>1, <2>2 DEF Check
<1> QED BY <1>1, <1>2, <1>3

LEMMA LookType ==
  ASSUME TypeOK, Locked, NEW w \in Workers, Look(w)
  PROVE  TypeOK'
<1>1. mgr[w] \in Mgrs BY ManagerIs DEF Look
<1>2. PICK c \in Expired(cache[mgr[w]]) : cache' = [cache EXCEPT ![mgr[w]] = c] BY DEF Look
<1>3. cache[mgr[w]] \in Seq(Reqs) /\ Len(cache[mgr[w]]) <= MaxEntries BY <1>1 DEF TypeOK
<1>4. c \in Seq(Reqs) /\ Len(c) <= Len(cache[mgr[w]]) BY <1>3, ExpiredIs
<1>5. Len(c) \in Nat /\ Len(cache[mgr[w]]) \in Nat /\ MaxEntries \in Nat
  BY <1>3, <1>4, LenProperties, ChatAssumption
<1>6. cache' \in [Mgrs -> Seq(Reqs)] /\ \A m \in Mgrs : Len(cache'[m]) <= MaxEntries
  <2>1. cache \in [Mgrs -> Seq(Reqs)] /\ Len(c) <= MaxEntries BY <1>3, <1>4, <1>5 DEF TypeOK
  <2>2. cache' \in [Mgrs -> Seq(Reqs)] BY <1>2, <1>4, <2>1
  <2>3. ASSUME NEW m \in Mgrs PROVE Len(cache'[m]) <= MaxEntries
    BY <1>2, <2>1 DEF TypeOK
  <2> QED BY <2>2, <2>3
<1>7. CASE Leave(w) BY <1>6, <1>7, LeaveType DEF TypeOK, Look, books
<1>8. CASE Goto(w, "process") /\ Stay BY <1>6, <1>8 DEF TypeOK, Look, books, Goto, Stay, PcState
<1> QED BY <1>7, <1>8 DEF Look

LEMMA ProcessType ==
  ASSUME TypeOK, Locked, Asked, NEW w \in Workers, Process(w)
  PROVE  TypeOK'
<1> DEFINE m == mgr[w]
           r == job[w].req
<1>1. m \in Mgrs /\ r \in Reqs BY ManagerIs DEF Process, Asked
<1>2. PICK c \in Expired(cache[m]) : cache' = [cache EXCEPT ![m] = Append(Kept(c), r)]
  BY DEF Process
<1>3. cache[m] \in Seq(Reqs) /\ Len(cache[m]) <= MaxEntries BY <1>1 DEF TypeOK
<1>4. c \in Seq(Reqs) /\ Len(c) <= Len(cache[m]) BY <1>3, ExpiredIs
<1>5. Len(c) \in Nat /\ Len(cache[m]) \in Nat /\ MaxEntries \in Nat /\ MaxEntries > 0
  BY <1>3, <1>4, LenProperties, ChatAssumption
<1>6. Append(Kept(c), r) \in Seq(Reqs) /\ Len(Append(Kept(c), r)) <= MaxEntries
  BY <1>1, <1>3, <1>4, <1>5, RememberedIs
<1>7. cache' \in [Mgrs -> Seq(Reqs)] /\ \A x \in Mgrs : Len(cache'[x]) <= MaxEntries
  BY <1>2, <1>6 DEF TypeOK
<1>8. turns' \in [Mgrs -> Seq(Reqs)]
  <2>1. Append(turns[m], r) \in Seq(Reqs) BY <1>1 DEF TypeOK
  <2> QED BY <2>1 DEF TypeOK, Process
<1>9. draft' \in [Mgrs -> Draft]
  <2>1. CASE draft' = [draft EXCEPT ![m].applied[r] = @ + 1, ![m].done = FALSE]
    BY <1>1, <2>1, EditIs
  <2>2. CASE draft' = [draft EXCEPT ![m].done = TRUE]
    <3>1. [draft[m] EXCEPT !.done = TRUE] \in Draft BY <1>1, DoneType DEF TypeOK
    <3> QED BY <2>2, <3>1 DEF TypeOK
  <2> QED BY <2>1, <2>2 DEF Process, TypeOK
<1>10. accepted' \in [Mgrs -> SUBSET Reqs] BY <1>1 DEF Process, TypeOK
<1>12. published' \in [Reqs -> Token \cup {NoTok}]
  <2>1. TokenOf(m) \in Token BY <1>1, TokenType
  <2>2. UNCHANGED published \/ published' = [published EXCEPT ![r] = TokenOf(m)] BY DEF Process
  <2> QED BY <2>1, <2>2 DEF TypeOK
<1>11. Leave(w) BY DEF Process
<1> QED BY <1>7, <1>8, <1>9, <1>10, <1>11, <1>12, LeaveType DEF Process, TypeOK

LEMMA OtherType ==
  ASSUME TypeOK, Locked, Counted, NEW w \in Workers, Reset(w) \/ Refresh(w) \/ Migrate(w)
  PROVE  TypeOK'
<1>1. mgr[w] \in Mgrs BY ManagerIs DEF Reset, Refresh, Migrate
<1>2. CASE Reset(w)
  <2>1. Leave(w) /\ registry' \in 0..made' BY <1>2, ChatAssumption DEF Reset, TypeOK
  <2> QED BY <1>2, <2>1, LeaveType, EmptyType DEF Reset, TypeOK, books
<1>3. CASE Refresh(w)
  <2>1. [draft[mgr[w]] EXCEPT !.evidence = 1 - draft[mgr[w]].evidence] \in Draft
    <3>1. draft[mgr[w]] \in Draft BY <1>1 DEF TypeOK
    <3>2. 1 - draft[mgr[w]].evidence \in {0, 1} BY <3>1 DEF Draft
    <3> QED BY <3>1, <3>2, EvidenceType
  <2>2. draft' = [draft EXCEPT ![mgr[w]] =
                    [draft[mgr[w]] EXCEPT !.evidence = 1 - draft[mgr[w]].evidence]]
    BY <1>3 DEF Refresh, TypeOK
  <2>3. Leave(w) BY <1>3 DEF Refresh
  <2> QED BY <1>1, <1>3, <2>1, <2>2, <2>3, LeaveType DEF Refresh, TypeOK, books
<1>4. CASE Migrate(w)
  <2>1. Leave(w) BY <1>4 DEF Migrate
  <2>2. w \in Replacing BY <1>4 DEF Migrate, Replacing
  <2>3. made + 1 \in Mgrs BY <2>2, Room
  <2>4. made + 1 \in 0..(MaxOps + 1) /\ made + 1 \in 0..(made + 1)
    BY <2>3, ChatAssumption DEF TypeOK, Mgrs
  <2>5. CASE UNCHANGED <<registry, made, draft, cache, root, turns>>
    BY <1>4, <2>1, <2>5, LeaveType DEF Migrate, TypeOK
  <2>6. CASE /\ registry' = made + 1 /\ made' = made + 1
             /\ \E e \in {0, 1} :
                  draft' = [draft EXCEPT ![made + 1] = [draft[mgr[w]] EXCEPT !.evidence = e]]
             /\ cache' = [cache EXCEPT ![made + 1] = cache[mgr[w]]]
             /\ root' = [root EXCEPT ![made + 1] = root[mgr[w]]]
             /\ turns' = [turns EXCEPT ![made + 1] = turns[mgr[w]]]
    <3>1. \A e \in {0, 1} : [draft[mgr[w]] EXCEPT !.evidence = e] \in Draft
      BY <1>1, EvidenceType DEF TypeOK
    <3>2. draft' \in [Mgrs -> Draft] BY <2>6, <3>1 DEF TypeOK
    <3>3. /\ cache' \in [Mgrs -> Seq(Reqs)] /\ \A m \in Mgrs : Len(cache'[m]) <= MaxEntries
          /\ turns' \in [Mgrs -> Seq(Reqs)] /\ root' \in [Mgrs -> 0..(MaxOps + 1)]
      BY <1>1, <2>6 DEF TypeOK
    <3> QED BY <1>4, <2>1, <2>4, <2>6, <3>2, <3>3, LeaveType DEF Migrate, TypeOK
  <2> QED BY <1>4, <2>5, <2>6 DEF Migrate, Inherited
<1> QED BY <1>2, <1>3, <1>4

LEMMA StepType ==
  ASSUME Inv, [Next]_vars
  PROVE  TypeOK'
<1>1. CASE UNCHANGED vars BY <1>1 DEF vars, TypeOK, Inv
<1>2. CASE Next
  BY <1>2, SendType, StartType, LookupType, WaitType, LookType, ProcessType, OtherType
     DEF Next, Step, Inv
<1> QED BY <1>1, <1>2

-----------------------------------------------------------------------------
(* The two locks                                                             *)

LEMMA StepCounted ==
  ASSUME TypeOK, Locked, Counted, [Next]_vars, TypeOK'
  PROVE  Counted'
<1> DEFINE n == Cardinality(Replacing)
<1>0. /\ made \in Nat /\ ops \in Nat /\ made' \in Nat /\ ops' \in Nat /\ n \in Nat
      /\ registry \in Nat /\ registry' \in Nat
  BY ReplacingFinite, ChatAssumption DEF TypeOK
<1>1. ASSUME NEW w \in Workers, NEW r \in Reqs, Send(w, r) \/ Resend(w, r) PROVE Counted'
  <2>1. /\ n' \in Nat /\ n' <= n
    <3>1. job' = [job EXCEPT ![w] = [kind |-> "turn", req |-> r]] BY <1>1 DEF Send, Resend, Begin
    <3>2. [kind |-> "turn", req |-> r].kind \notin {"reset", "reload"} OBVIOUS
    <3> QED BY <3>1, <3>2, JobReplaced
  <2> QED BY <1>0, <1>1, <2>1 DEF Send, Resend, Counted
<1>2. ASSUME NEW w \in Workers, NEW kind \in Jobs, Start(w, kind) PROVE Counted'
  <2>1. n' \in Nat /\ n' <= n + 1 BY <1>2, JobReplaced DEF Start, Begin
  <2> QED BY <1>0, <1>2, <2>1 DEF Start, Counted
<1>3. ASSUME NEW w \in Workers, End(w)
      PROVE  /\ n' \in Nat /\ n' <= n
             /\ job[w].kind \in {"reset", "reload"} => n' + 1 <= n
  <2>1. job' = [job EXCEPT ![w] = NoJob] BY <1>3 DEF End
  <2>2. NoJob.kind \notin {"reset", "reload"} BY DEF NoJob
  <2>3. job[w].kind \in {"reset", "reload"} => w \in Replacing BY DEF Replacing
  <2> QED BY <2>1, <2>2, <2>3, JobReplaced
<1>4. ASSUME NEW w \in Workers, Lookup(w) PROVE Counted'
  <2>1. n' = n BY <1>4 DEF Lookup, Replacing
  <2> QED BY <1>0, <1>4, <2>1 DEF Lookup, Counted
<1>5. ASSUME NEW w \in Workers, Find(w) \/ Check(w) \/ Look(w) PROVE Counted'
  <2>1. n' \in Nat /\ n' <= n
    <3>1. CASE End(w) BY <1>3, <3>1
    <3>2. CASE UNCHANGED job BY <1>0, <3>2 DEF Replacing
    <3> QED BY <1>5, <3>1, <3>2 DEF Find, Check, Look, Leave, Stay
  <2> QED BY <1>0, <1>5, <2>1 DEF Find, Check, Look, Counted
<1>6. ASSUME NEW w \in Workers, Enter(w) PROVE Counted'
  <2>1. n' = n BY <1>6 DEF Enter, Replacing
  <2> QED BY <1>0, <1>6, <2>1 DEF Enter, Counted
<1>7. ASSUME NEW w \in Workers, Process(w) \/ Refresh(w) PROVE Counted'
  <2>1. n' \in Nat /\ n' <= n BY <1>3, <1>7 DEF Process, Refresh, Leave
  <2> QED BY <1>0, <1>7, <2>1 DEF Process, Refresh, Counted
<1>8. ASSUME NEW w \in Workers, Reset(w) PROVE Counted'
  <2>1. n' \in Nat /\ n' + 1 <= n BY <1>3, <1>8 DEF Reset, Leave
  <2> QED BY <1>0, <1>8, <2>1 DEF Reset, Counted
<1>9. ASSUME NEW w \in Workers, Migrate(w) PROVE Counted'
  <2>1. n' \in Nat /\ n' + 1 <= n BY <1>3, <1>9 DEF Migrate, Leave
  <2>2. CASE UNCHANGED <<registry, made>> BY <1>0, <1>9, <2>1, <2>2 DEF Migrate, Counted
  <2>3. CASE registry' = made + 1 /\ made' = made + 1
    BY <1>0, <1>9, <2>1, <2>3 DEF Migrate, Counted
  <2> QED BY <1>9, <2>2, <2>3 DEF Migrate
<1>10. CASE UNCHANGED vars BY <1>10 DEF vars, Counted, Replacing
<1> QED BY <1>1, <1>2, <1>4, <1>5, <1>6, <1>7, <1>8, <1>9, <1>10 DEF Next, Step

\* While a worker holds the session lock, only its own steps touch its manager.
Undisturbed(v) ==
  /\ pc'[v] = pc[v] /\ job'[v] = job[v] /\ mgr'[v] = mgr[v] /\ lock'[mgr[v]] = lock[mgr[v]]
  /\ draft'[mgr[v]] = draft[mgr[v]] /\ cache'[mgr[v]] = cache[mgr[v]]
  /\ turns'[mgr[v]] = turns[mgr[v]]

Acts(v) == Check(v) \/ Look(v) \/ Process(v) \/ Reset(v) \/ Refresh(v) \/ Migrate(v)

LEMMA Exclusion ==
  ASSUME TypeOK, Locked, [Next]_vars, NEW v \in Workers, pc[v] \in {"check", "work", "process"}
  PROVE  Undisturbed(v) \/ Acts(v)
<1> USE DEF books
<1>0. mgr[v] \in 1..made /\ mgr[v] \in Mgrs /\ lock[mgr[v]] = v /\ made \in Nat /\ v # NoOne
  BY ManagerIs, ChatAssumption DEF Locked, TypeOK
<1>1. ASSUME NEW w \in Workers, pc[w] \in {"check", "work", "process"}, w # v
      PROVE  mgr[w] # mgr[v] /\ mgr[w] \in Mgrs
  BY <1>0, <1>1, ManagerIs DEF Locked
<1>2. ASSUME NEW w \in Workers, w # v, Leave(w), pc[w] \in {"check", "work", "process"}
      PROVE  /\ pc'[v] = pc[v] /\ job'[v] = job[v] /\ mgr'[v] = mgr[v]
             /\ lock'[mgr[v]] = lock[mgr[v]]
  BY <1>0, <1>1, <1>2 DEF Leave, End, Goto, TypeOK
<1>3. ASSUME NEW w \in Workers, NEW r \in Reqs, Send(w, r) \/ Resend(w, r) PROVE Undisturbed(v)
  BY <1>3 DEF Send, Resend, Begin, Goto, Undisturbed, TypeOK
<1>4. ASSUME NEW w \in Workers, NEW kind \in Jobs, Start(w, kind) PROVE Undisturbed(v)
  BY <1>4 DEF Start, Begin, Goto, Undisturbed, TypeOK
<1>5. ASSUME NEW w \in Workers, Lookup(w) \/ Find(w) PROVE Undisturbed(v)
  BY <1>5 DEF Lookup, Find, AfterFind, End, Goto, Undisturbed, TypeOK
<1>6. ASSUME NEW w \in Workers, Enter(w) PROVE Undisturbed(v)
  <2>1. w # v BY <1>6 DEF Enter
  <2>2. mgr[w] # mgr[v] BY <1>0, <1>6 DEF Enter
  <2> QED BY <1>6, <2>1, <2>2 DEF Enter, Goto, Undisturbed, TypeOK
<1>7. ASSUME NEW w \in Workers, Acts(w) PROVE Undisturbed(v) \/ Acts(v)
  <2>1. CASE w = v BY <1>7, <2>1
  <2>2. CASE w # v
    <3>0. pc[w] \in {"check", "work", "process"}
      BY <1>7 DEF Acts, Check, Look, Process, Reset, Refresh, Migrate
    <3>1. CASE Check(w)
      BY <1>2, <2>2, <3>0, <3>1 DEF Check, Goto, Stay, Undisturbed, TypeOK
    <3>2. CASE Look(w)
      <4>1. cache'[mgr[v]] = cache[mgr[v]] BY <1>0, <1>1, <2>2, <3>0, <3>2 DEF Look, TypeOK
      <4> QED BY <1>2, <2>2, <3>0, <3>2, <4>1 DEF Look, Goto, Stay, Undisturbed, TypeOK
    <3>3. CASE Process(w)
      <4>1. mgr[w] # mgr[v] BY <1>1, <2>2, <3>0
      <4>2. cache'[mgr[v]] = cache[mgr[v]] /\ turns'[mgr[v]] = turns[mgr[v]]
        BY <1>0, <3>3, <4>1 DEF Process, TypeOK
      <4>3. draft'[mgr[v]] = draft[mgr[v]]
        BY <1>0, <3>3, <4>1 DEF Process, TypeOK
      <4> QED BY <1>2, <2>2, <3>0, <3>3, <4>2, <4>3 DEF Process, Undisturbed
    <3>4. CASE Reset(w) \/ Refresh(w)
      <4>1. mgr[w] # mgr[v] BY <1>1, <2>2, <3>0
      <4>2. draft'[mgr[v]] = draft[mgr[v]]
        BY <1>0, <3>4, <4>1 DEF Reset, Refresh, TypeOK
      <4> QED BY <1>2, <2>2, <3>0, <3>4, <4>2 DEF Reset, Refresh, books, Undisturbed
    <3>5. CASE Migrate(w)
      <4>1. mgr[v] # made + 1 BY <1>0
      <4>2. /\ draft'[mgr[v]] = draft[mgr[v]] /\ cache'[mgr[v]] = cache[mgr[v]]
            /\ turns'[mgr[v]] = turns[mgr[v]]
        BY <1>0, <3>5, <4>1 DEF Migrate, TypeOK
      <4> QED BY <1>2, <2>2, <3>0, <3>5, <4>2 DEF Migrate, Undisturbed
    <3> QED BY <1>7, <3>1, <3>2, <3>3, <3>4, <3>5 DEF Acts
  <2> QED BY <2>1, <2>2
<1>8. CASE UNCHANGED vars BY <1>8 DEF vars, Undisturbed
<1> QED BY <1>3, <1>4, <1>5, <1>6, <1>7, <1>8 DEF Next, Step, Acts

LEMMA ManagersStay ==
  ASSUME TypeOK, [Next]_vars
  PROVE  made <= made' /\ made \in Nat
<1> USE DEF books
<1>0. made \in Nat BY ChatAssumption DEF TypeOK
<1>1. CASE UNCHANGED made BY <1>0, <1>1
<1>2. CASE made' = made + 1 BY <1>0, <1>2
<1>3. ASSUME NEW w \in Workers, Step(w) PROVE UNCHANGED made \/ made' = made + 1
  BY <1>3 DEF Step, Lookup, Find, Enter, Check, Look, Process, Reset, Refresh, Migrate
<1>4. ASSUME NEW w \in Workers, NEW r \in Reqs, Send(w, r) \/ Resend(w, r) PROVE UNCHANGED made
  BY <1>4 DEF Send, Resend
<1>5. ASSUME NEW w \in Workers, NEW kind \in Jobs, Start(w, kind) PROVE UNCHANGED made
  BY <1>5 DEF Start
<1> QED BY <1>1, <1>2, <1>3, <1>4, <1>5 DEF Next, vars

\* How a worker comes to wait for a manager, and how it gets the lock.
LEMMA Arrival ==
  ASSUME TypeOK, Counted, [Next]_vars, TypeOK', NEW v \in Workers,
         pc[v] \notin {"check", "work", "process"}
  PROVE  /\ made <= made'
         /\ pc'[v] \in {"check", "work", "process"} => Enter(v)
         /\ pc'[v] = "wait" => (pc[v] = "wait" /\ mgr'[v] = mgr[v]) \/ mgr'[v] \in 1..made'
<1>0. made \in Nat /\ registry \in 0..made BY ChatAssumption DEF TypeOK
<1> DEFINE Same(w) == w # v => pc'[v] = pc[v] /\ job'[v] = job[v] /\ mgr'[v] = mgr[v]
<1>1. ASSUME NEW w \in Workers, NEW r \in Reqs, Send(w, r) \/ Resend(w, r)
      PROVE  Same(w) /\ pc'[w] = "lookup" /\ made' = made
  BY <1>1 DEF Send, Resend, Begin, Goto, TypeOK
<1>2. ASSUME NEW w \in Workers, NEW kind \in Jobs, Start(w, kind)
      PROVE  Same(w) /\ pc'[w] = "find" /\ made' = made
  BY <1>2 DEF Start, Begin, Goto, TypeOK
<1>3. ASSUME NEW w \in Workers, Lookup(w)
      PROVE  Same(w) /\ pc'[w] = "wait" /\ mgr'[w] \in 1..made' /\ made <= made'
  BY <1>0, <1>3 DEF Lookup, Goto, TypeOK
<1>4. ASSUME NEW w \in Workers, Find(w)
      PROVE  Same(w) /\ (pc'[w] = "idle" \/ (pc'[w] = "wait" /\ mgr'[w] \in 1..made')) /\ made' = made
  BY <1>0, <1>4 DEF Find, AfterFind, End, Goto, TypeOK
<1>5. ASSUME NEW w \in Workers, Enter(w)
      PROVE  Same(w) /\ pc'[w] \in {"check", "work"} /\ made' = made
  BY <1>5 DEF Enter, Goto, TypeOK
<1>6. ASSUME NEW w \in Workers, Acts(w) PROVE w # v /\ Same(w)
  <2>1. w # v BY <1>6 DEF Acts, Check, Look, Process, Reset, Refresh, Migrate
  <2>2. Leave(w) \/ (Stay /\ \E l \in PcState : Goto(w, l))
    BY <1>6 DEF Acts, Check, Look, Process, Reset, Refresh, Migrate, PcState
  <2> QED BY <2>1, <2>2 DEF Leave, End, Goto, Stay, TypeOK
<1>7. CASE UNCHANGED vars BY <1>0, <1>7 DEF vars
<1>8. made <= made' BY ManagersStay
<1>9. CASE \E w \in Workers : Acts(w) BY <1>6, <1>8, <1>9
<1> QED BY <1>0, <1>1, <1>2, <1>3, <1>4, <1>5, <1>7, <1>8, <1>9 DEF Next, Step, Acts

LEMMA StepLocked ==
  ASSUME TypeOK, Locked, Counted, [Next]_vars, TypeOK'
  PROVE  Locked'
<1> SUFFICES ASSUME NEW v \in Workers
             PROVE  /\ pc'[v] \in {"check", "work", "process"} => lock'[mgr'[v]] = v
                    /\ pc'[v] \in {"wait", "check", "work", "process"} => mgr'[v] \in 1..made'
  BY DEF Locked
<1>0. made \in Nat /\ made' \in Nat BY ChatAssumption DEF TypeOK
<1>1. CASE pc[v] \in {"check", "work", "process"}
  <2>0. mgr[v] \in 1..made /\ lock[mgr[v]] = v BY <1>1 DEF Locked
  <2>1. made <= made' BY ManagersStay
  <2>2. CASE Undisturbed(v) BY <1>0, <1>1, <2>0, <2>1, <2>2 DEF Undisturbed
  <2>3. CASE Acts(v)
    <3>1. pc'[v] = "idle" \/ (pc'[v] \in {"work", "process"} /\ mgr'[v] = mgr[v] /\ lock' = lock)
      BY <2>3 DEF Acts, Check, Look, Process, Reset, Refresh, Migrate, Leave, End, Goto, Stay, TypeOK
    <3> QED BY <1>0, <2>0, <2>1, <3>1
  <2> QED BY <1>1, <2>2, <2>3, Exclusion
<1>2. CASE pc[v] \notin {"check", "work", "process"}
  <2>1. CASE Enter(v)
    <3>1. mgr[v] \in 1..made /\ mgr[v] \in Mgrs BY <2>1, ManagerIs DEF Enter
    <3> QED BY <2>1, <3>1 DEF Enter, Goto, TypeOK
  <2>2. CASE ~Enter(v)
    <3>1. pc[v] = "wait" => mgr[v] \in 1..made BY DEF Locked
    <3> QED BY <1>0, <1>2, <2>2, <3>1, Arrival
  <2> QED BY <2>1, <2>2
<1> QED BY <1>1, <1>2

\* The registered manager is removed or replaced only by a worker that holds it.
LEMMA RegistryStep ==
  ASSUME TypeOK, Current, [Next]_vars
  PROVE  \/ registry' = registry
         \/ registry = 0
         \/ \E w \in Workers : /\ pc[w] = "work" /\ pc'[w] = "idle" /\ registry = mgr[w]
                               /\ Reset(w) \/ Migrate(w)
<1> USE DEF books
<1>1. ASSUME NEW w \in Workers, Reset(w) \/ Migrate(w)
      PROVE  pc[w] = "work" /\ pc'[w] = "idle" /\ registry = mgr[w]
  BY <1>1 DEF Reset, Migrate, Leave, End, Goto, Current, TypeOK
<1>2. ASSUME NEW w \in Workers, Lookup(w) PROVE registry' = registry \/ registry = 0
  BY <1>2 DEF Lookup
<1>3. ASSUME NEW w \in Workers,
             Find(w) \/ Enter(w) \/ Check(w) \/ Look(w) \/ Process(w) \/ Refresh(w)
      PROVE  registry' = registry
  BY <1>3 DEF Find, Enter, Check, Look, Process, Refresh
<1>4. ASSUME NEW w \in Workers, NEW r \in Reqs, Send(w, r) \/ Resend(w, r)
      PROVE  registry' = registry
  BY <1>4 DEF Send, Resend
<1>5. ASSUME NEW w \in Workers, NEW kind \in Jobs, Start(w, kind) PROVE registry' = registry
  BY <1>5 DEF Start
<1> QED BY <1>1, <1>2, <1>3, <1>4, <1>5 DEF Next, Step, vars

LEMMA StepCurrent ==
  ASSUME TypeOK, Locked, Current, Counted, [Next]_vars, TypeOK'
  PROVE  Current'
<1> USE DEF books
<1> SUFFICES ASSUME NEW v \in Workers, pc'[v] \in {"work", "process"}, job'[v].kind # "refresh"
             PROVE  registry' = mgr'[v]
  BY DEF Current
<1>1. CASE pc[v] \notin {"check", "work", "process"}
  <2>1. Enter(v) BY <1>1, Arrival
  <2> QED BY <2>1 DEF Enter, Goto, TypeOK
<1>2. CASE pc[v] \in {"check", "work", "process"} /\ ~Acts(v)
  <2>1. pc[v] = pc'[v] /\ mgr'[v] = mgr[v] /\ registry = mgr[v]
    BY <1>2, Exclusion DEF Undisturbed, Current
  <2>2. mgr[v] \in 1..made /\ lock[mgr[v]] = v BY <1>2 DEF Locked
  <2>3. registry # 0 BY <2>1, <2>2, ChatAssumption DEF TypeOK
  <2>4. ASSUME NEW w \in Workers, pc[w] = "work", pc'[w] = "idle", registry = mgr[w]
        PROVE  FALSE
    <3>1. lock[mgr[w]] = w BY <2>4 DEF Locked
    <3> QED BY <2>1, <2>2, <2>4, <3>1
  <2> QED BY <2>1, <2>3, <2>4, RegistryStep
<1>3. CASE Acts(v)
  <2>1. CASE Check(v) BY <2>1 DEF Check, Registered, Stay, Leave, End, Goto, TypeOK
  <2>2. CASE Look(v) BY <2>2 DEF Look, Stay, Leave, End, Goto, Current, TypeOK
  <2>3. ~(Process(v) \/ Reset(v) \/ Refresh(v) \/ Migrate(v))
    BY DEF Process, Reset, Refresh, Migrate, Leave, End, Goto, TypeOK
  <2> QED BY <1>3, <2>1, <2>2, <2>3 DEF Acts
<1> QED BY <1>1, <1>2, <1>3

-----------------------------------------------------------------------------
(* Requests                                                                  *)

LEMMA StepAsked ==
  ASSUME TypeOK, Asked, [Next]_vars
  PROVE  Asked' /\ \A r \in Reqs : ask[r] # "none" => ask'[r] = ask[r] /\ tok'[r] = tok[r]
<1> USE DEF books
<1> DEFINE Stays == \A r \in Reqs : ask[r] # "none" => ask'[r] = ask[r] /\ tok'[r] = tok[r]
<1>1. ASSUME NEW w \in Workers, NEW r \in Reqs, Send(w, r) PROVE Asked' /\ Stays
  <2>1. ask[r] = "none" /\ ask'[r] # "none" /\ \A x \in Reqs \ {r} : ask'[x] = ask[x]
    BY <1>1 DEF Send, TypeOK
  <2>2. \A x \in Reqs \ {r} : tok'[x] = tok[x] BY <1>1 DEF Send, TypeOK
  <2>3. /\ job' = [job EXCEPT ![w] = [kind |-> "turn", req |-> r]]
        /\ pc' = [pc EXCEPT ![w] = "lookup"]
    BY <1>1 DEF Send, Begin, Goto
  <2> QED BY <2>1, <2>2, <2>3 DEF Asked, TypeOK
<1>2. ASSUME NEW w \in Workers, NEW r \in Reqs, Resend(w, r) PROVE Asked' /\ Stays
  BY <1>2 DEF Resend, Begin, Goto, Asked, TypeOK
<1>3. ASSUME NEW w \in Workers, NEW kind \in Jobs, Start(w, kind) PROVE Asked' /\ Stays
  BY <1>3 DEF Start, Begin, Goto, Asked, TypeOK
<1>4. ASSUME NEW w \in Workers, Lookup(w) \/ Find(w) \/ Enter(w) PROVE Asked' /\ Stays
  BY <1>4 DEF Lookup, Find, AfterFind, Enter, End, Goto, NoJob, Asked, TypeOK
<1>5. ASSUME NEW w \in Workers, Acts(w) PROVE Asked' /\ Stays
  <2>1. UNCHANGED <<ask, tok>>
    BY <1>5 DEF Acts, Check, Look, Process, Reset, Refresh, Migrate
  <2>2. \/ Leave(w)
        \/ /\ Stay /\ \E l \in PcState : Goto(w, l) /\ (l = "process" => job[w].kind = "turn")
           /\ pc[w] # "idle"
    BY <1>5 DEF Acts, Check, Look, Process, Reset, Refresh, Migrate, PcState
  <2> QED BY <2>1, <2>2 DEF Leave, End, Goto, Stay, NoJob, Asked, TypeOK
<1>6. CASE UNCHANGED vars BY <1>6 DEF vars, Asked
<1> QED BY <1>1, <1>2, <1>3, <1>4, <1>5, <1>6 DEF Next, Step, Acts

LEMMA StepSummary ==
  ASSUME TypeOK, Locked, Asked, Summary, Counted, [Next]_vars, TypeOK'
  PROVE  Summary'
<1> SUFFICES ASSUME NEW v \in Workers, pc'[v] = "process", ask'[job'[v].req] = "confirm"
             PROVE  tok'[job'[v].req] = TokenOf(mgr[v])'
  BY DEF Summary
<1>1. CASE pc[v] \notin {"check", "work", "process"}
  <2>1. Enter(v) BY <1>1, Arrival
  <2> QED BY <2>1 DEF Enter, Goto, TypeOK
<1>2. CASE pc[v] \in {"check", "work", "process"} /\ ~Acts(v)
  <2>1. Undisturbed(v) BY <1>2, Exclusion
  <2>2. pc[v] = "process" /\ job'[v] = job[v] /\ mgr'[v] = mgr[v] BY <2>1 DEF Undisturbed
  <2>3. job[v].req \in Reqs /\ ask[job[v].req] # "none" BY <2>2 DEF Asked
  <2>4. ask[job[v].req] = "confirm" /\ tok'[job[v].req] = tok[job[v].req]
    BY <2>2, <2>3, StepAsked
  <2>5. tok[job[v].req] = TokenOf(mgr[v]) BY <2>2, <2>4 DEF Summary
  <2> QED BY <2>1, <2>2, <2>4, <2>5 DEF Undisturbed, TokenOf
<1>3. CASE Acts(v)
  <2>1. CASE Look(v)
    <3>1. /\ job'[v] = job[v] /\ mgr'[v] = mgr[v] /\ UNCHANGED <<draft, ask, tok>>
          /\ ~(ask[job[v].req] = "confirm" /\ ~Reviewed(job[v].req, mgr[v]))
      BY <2>1 DEF Look, Leave, End, Goto, Stay, TypeOK
    <3> QED BY <3>1 DEF Reviewed, TokenOf
  <2>2. ~(Check(v) \/ Process(v) \/ Reset(v) \/ Refresh(v) \/ Migrate(v))
    BY DEF Check, Process, Reset, Refresh, Migrate, Leave, End, Goto, TypeOK
  <2> QED BY <1>3, <2>1, <2>2 DEF Acts
<1> QED BY <1>1, <1>2, <1>3

\* A publication is made by a turn, of the manager whose lock it holds.
LEMMA PublishStep ==
  ASSUME TypeOK, Asked, [Next]_vars
  PROVE  \/ UNCHANGED published
         \/ \E w \in Workers :
              /\ Process(w) /\ job[w].req \in Reqs /\ ask[job[w].req] = "confirm"
              /\ published' = [published EXCEPT ![job[w].req] = TokenOf(mgr[w])]
<1> USE DEF books
<1>1. ASSUME NEW w \in Workers, Process(w), ~UNCHANGED published
      PROVE  /\ job[w].req \in Reqs /\ ask[job[w].req] = "confirm"
             /\ published' = [published EXCEPT ![job[w].req] = TokenOf(mgr[w])]
  BY <1>1 DEF Process, Asked
<1>2. ASSUME NEW w \in Workers, NEW r \in Reqs, Send(w, r) \/ Resend(w, r)
      PROVE  UNCHANGED published
  BY <1>2 DEF Send, Resend
<1>3. ASSUME NEW w \in Workers, NEW kind \in Jobs, Start(w, kind) PROVE UNCHANGED published
  BY <1>3 DEF Start
<1>4. ASSUME NEW w \in Workers, Step(w), ~Process(w) PROVE UNCHANGED published
  BY <1>4 DEF Step, Lookup, Find, Enter, Check, Look, Reset, Refresh, Migrate
<1> QED BY <1>1, <1>2, <1>3, <1>4 DEF Next, vars

LEMMA StepPublished ==
  ASSUME TypeOK, Asked, Summary, Unsent, ConfirmedAsShown, [Next]_vars
  PROVE  Unsent' /\ ConfirmedAsShown'
<1>1. \A r \in Reqs : ask[r] # "none" => ask'[r] = ask[r] /\ tok'[r] = tok[r] BY StepAsked
<1>2. CASE UNCHANGED published
  BY <1>1, <1>2 DEF Unsent, ConfirmedAsShown
<1>3. ASSUME NEW w \in Workers, Process(w), job[w].req \in Reqs, ask[job[w].req] = "confirm",
             published' = [published EXCEPT ![job[w].req] = TokenOf(mgr[w])]
      PROVE  Unsent' /\ ConfirmedAsShown'
  <2>1. tok[job[w].req] = TokenOf(mgr[w]) BY <1>3 DEF Process, Summary
  <2>2. UNCHANGED <<ask, tok>> BY <1>3 DEF Process
  <2> QED BY <1>3, <2>1, <2>2 DEF Unsent, ConfirmedAsShown, TypeOK
<1> QED BY <1>2, <1>3, PublishStep

-----------------------------------------------------------------------------
(* Sessions                                                                  *)

\* The steps that leave the sessions, their edits and their registry alone.
LEMMA StepApart ==
  ASSUME TypeOK, [Next]_vars
  PROVE  \/ \E w \in Workers : Lookup(w) \/ Process(w) \/ Reset(w) \/ Refresh(w) \/ Migrate(w)
         \/ UNCHANGED <<registry, made, root, accepted, draft, turns, prompt>>
<1> USE DEF books
<1>1. ASSUME NEW w \in Workers, NEW r \in Reqs, Send(w, r) \/ Resend(w, r)
      PROVE  UNCHANGED <<registry, made, root, accepted, draft, turns, prompt>>
  BY <1>1 DEF Send, Resend
<1>2. ASSUME NEW w \in Workers, NEW kind \in Jobs, Start(w, kind)
      PROVE  UNCHANGED <<registry, made, root, accepted, draft, turns, prompt>>
  BY <1>2 DEF Start
<1>3. ASSUME NEW w \in Workers, Find(w) \/ Enter(w) \/ Check(w) \/ Look(w)
      PROVE  UNCHANGED <<registry, made, root, accepted, draft, turns, prompt>>
  BY <1>3 DEF Find, Enter, Check, Look
<1> QED BY <1>1, <1>2, <1>3 DEF Next, Step, vars

LEMMA StepLineage ==
  ASSUME TypeOK, Locked, Asked, Lineage, Counted, [Next]_vars
  PROVE  Lineage'
<1> USE DEF books
<1>0. made \in Nat /\ made <= MaxOps + 1 /\ MaxOps \in Nat BY ChatAssumption DEF TypeOK
<1>1. CASE UNCHANGED <<made, root, accepted>> BY <1>1 DEF Lineage
<1>2. ASSUME NEW w \in Workers, Lookup(w) PROVE Lineage'
  <2>1. CASE registry # 0 BY <1>1, <1>2, <2>1 DEF Lookup
  <2>2. CASE registry = 0
    <3>1. made + 1 \in Mgrs BY <2>2, Room
    <3>2. /\ made' = made + 1 /\ accepted' = accepted
          /\ root' = [root EXCEPT ![made + 1] = made + 1]
      BY <1>2, <2>2 DEF Lookup
    <3>3. ASSUME NEW m \in 1..made' PROVE root'[m] \in 1..made'
      <4>1. m \in Mgrs BY <1>0, <3>1, <3>2, <3>3 DEF Mgrs
      <4>2. CASE m = made + 1 BY <1>0, <3>1, <3>2, <4>2 DEF TypeOK
      <4>3. CASE m # made + 1
        <5>1. m \in 1..made /\ root'[m] = root[m] BY <1>0, <3>2, <3>3, <4>1, <4>3 DEF TypeOK
        <5> QED BY <1>0, <3>2, <5>1 DEF Lineage
      <4> QED BY <4>2, <4>3
    <3>4. \A m \in Mgrs : m > made' => accepted'[m] = {} BY <1>0, <3>2 DEF Lineage, Mgrs
    <3> QED BY <3>3, <3>4 DEF Lineage
  <2> QED BY <2>1, <2>2
<1>3. ASSUME NEW w \in Workers, Process(w) PROVE Lineage'
  <2>1. UNCHANGED <<made, root>> /\ mgr[w] \in 1..made
    BY <1>3, ManagerIs DEF Process
  <2>2. root[mgr[w]] \in 1..made BY <2>1 DEF Lineage
  <2>3. \A m \in Mgrs : m # root[mgr[w]] => accepted'[m] = accepted[m]
    BY <1>3 DEF Process, TypeOK
  <2>4. \A m \in Mgrs : m > made => accepted'[m] = {} BY <1>0, <2>2, <2>3 DEF Lineage, Mgrs
  <2> QED BY <2>1, <2>4 DEF Lineage
<1>4. ASSUME NEW w \in Workers, Migrate(w), ~UNCHANGED <<made, root>> PROVE Lineage'
  <2>1. /\ made' = made + 1 /\ accepted' = accepted
        /\ root' = [root EXCEPT ![made + 1] = root[mgr[w]]]
    BY <1>4 DEF Migrate
  <2>2. made + 1 \in Mgrs
    <3>1. w \in Replacing BY <1>4 DEF Migrate, Replacing
    <3> QED BY <3>1, Room
  <2>3. root[mgr[w]] \in 1..made BY <1>4, ManagerIs DEF Migrate, Lineage
  <2>4. ASSUME NEW m \in 1..made' PROVE root'[m] \in 1..made'
    <3>1. m \in Mgrs BY <1>0, <2>1, <2>2 DEF Mgrs
    <3>2. CASE m = made + 1 BY <1>0, <2>1, <2>2, <2>3, <3>2 DEF TypeOK
    <3>3. CASE m # made + 1
      <4>1. m \in 1..made /\ root'[m] = root[m] BY <1>0, <2>1, <2>4, <3>1, <3>3 DEF TypeOK
      <4> QED BY <1>0, <2>1, <4>1 DEF Lineage
    <3> QED BY <3>2, <3>3
  <2>5. \A m \in Mgrs : m > made' => accepted'[m] = {} BY <1>0, <2>1 DEF Lineage, Mgrs
  <2> QED BY <2>4, <2>5 DEF Lineage
<1>5. ASSUME NEW w \in Workers, Migrate(w), UNCHANGED <<made, root>> PROVE Lineage'
  BY <1>1, <1>5 DEF Migrate
<1>6. ASSUME NEW w \in Workers, Reset(w) \/ Refresh(w) PROVE Lineage'
  BY <1>1, <1>6 DEF Reset, Refresh
<1> QED BY <1>1, <1>2, <1>3, <1>4, <1>5, <1>6, StepApart

\* Evidence and publication leave the edits alone.
LEMMA AppliedStays ==
  ASSUME TypeOK, NEW w \in Workers,
         \/ Lookup(w) \/ Refresh(w)
         \/ draft' = [draft EXCEPT ![mgr[w]].done = TRUE]
         \/ draft' = draft
  PROVE  \A x \in Mgrs : draft'[x].applied = draft[x].applied
<1>1. CASE draft' = [draft EXCEPT ![mgr[w]].done = TRUE] BY <1>1 DEF TypeOK, Draft
<1>2. CASE Refresh(w) BY <1>2 DEF Refresh, TypeOK, Draft
<1>3. CASE draft' = draft BY <1>3
<1> QED BY <1>1, <1>2, <1>3 DEF Lookup

\* An edit that is answered with success is applied to the registered manager, and
\* what replaces that manager inherits it.
LEMMA StepAccepted ==
  ASSUME TypeOK, Locked, Current, Asked, Lineage, Counted, AcceptedIsKept, [Next]_vars, TypeOK'
  PROVE  AcceptedIsKept'
<1> USE DEF books
<1>0. made \in Nat /\ MaxOps \in Nat BY ChatAssumption DEF TypeOK
<1>1. registry # 0 => registry \in Mgrs BY ChatAssumption DEF TypeOK, Mgrs
<1>2. CASE UNCHANGED <<registry, root, accepted, draft>> BY <1>2 DEF AcceptedIsKept
<1>3. ASSUME NEW w \in Workers, Lookup(w) PROVE AcceptedIsKept'
  <2>1. CASE registry # 0 BY <1>2, <1>3, <2>1 DEF Lookup
  <2>2. CASE registry = 0
    <3>1. made + 1 \in Mgrs BY <2>2, Room
    <3>2. /\ registry' = made + 1 /\ accepted' = accepted
          /\ root' = [root EXCEPT ![made + 1] = made + 1]
      BY <1>3, <2>2 DEF Lookup
    <3>3. root'[registry'] = made + 1 BY <3>1, <3>2 DEF TypeOK
    <3>4. accepted[made + 1] = {} BY <1>0, <3>1 DEF Lineage
    <3> QED BY <3>2, <3>3, <3>4 DEF AcceptedIsKept
  <2> QED BY <2>1, <2>2
<1>4. ASSUME NEW w \in Workers, Process(w) PROVE AcceptedIsKept'
  <2> DEFINE m == mgr[w]
             r == job[w].req
  <2>1. m \in Mgrs /\ r \in Reqs /\ registry = m /\ UNCHANGED <<registry, root>>
    BY <1>4, ManagerIs DEF Process, Asked, Current
  <2>0. registry # 0 BY <2>1 DEF Mgrs
  <2>2. /\ draft[m].applied \in [Reqs -> Nat]
        /\ \A x \in accepted[root[m]] : x \in Reqs /\ draft[m].applied[x] > 0
    <3>1. draft[m] \in Draft BY <2>1 DEF TypeOK
    <3>2. root[m] \in Mgrs
      <4>1. m \in 1..made BY <1>4, ManagerIs DEF Process
      <4>2. root[m] \in 1..made BY <4>1 DEF Lineage
      <4>3. made <= MaxOps + 1 BY ChatAssumption DEF TypeOK
      <4> QED BY <1>0, <4>2, <4>3 DEF Mgrs
    <3>3. accepted[root[m]] \in SUBSET Reqs BY <3>2 DEF TypeOK
    <3> QED BY <2>0, <2>1, <3>1, <3>3 DEF AcceptedIsKept, Draft
  <2>3. CASE draft' = [draft EXCEPT ![m].applied[r] = @ + 1, ![m].done = FALSE]
    <3>1. draft'[m].applied = [draft[m].applied EXCEPT ![r] = @ + 1] BY <2>1, <2>3, EditIs
    <3>2. \A x \in Reqs : draft'[m].applied[x] =
                            IF x = r THEN draft[m].applied[x] + 1 ELSE draft[m].applied[x]
      BY <2>2, <3>1
    <3>3. accepted'[root[m]] \subseteq accepted[root[m]] \cup {r}
      BY <1>4, <2>1 DEF Process, TypeOK
    <3>4. ASSUME NEW x \in accepted'[root[m]] PROVE draft'[m].applied[x] > 0
      <4>1. x \in Reqs /\ (x = r \/ draft[m].applied[x] > 0) BY <2>1, <2>2, <3>3
      <4>2. draft[m].applied[x] \in Nat BY <2>2, <4>1
      <4> QED BY <3>2, <4>1, <4>2
    <3> QED BY <2>1, <3>4 DEF AcceptedIsKept
  <2>4. CASE ~(draft' = [draft EXCEPT ![m].applied[r] = @ + 1, ![m].done = FALSE])
    <3>1. accepted' = accepted /\ (draft' = [draft EXCEPT ![m].done = TRUE] \/ draft' = draft)
      BY <1>4, <2>4 DEF Process
    <3>2. draft[m] \in Draft /\ draft \in [Mgrs -> Draft] BY <2>1 DEF TypeOK
    <3>3. draft'[m].applied = draft[m].applied
      <4>1. CASE draft' = draft BY <4>1
      <4>2. CASE draft' = [draft EXCEPT ![m].done = TRUE]
        <5>1. draft'[m] = [draft[m] EXCEPT !.done = TRUE] BY <2>1, <3>2, <4>2
        <5> QED BY <3>2, <5>1 DEF Draft
      <4> QED BY <3>1, <4>1, <4>2
    <3> QED BY <2>1, <2>2, <3>1, <3>3 DEF AcceptedIsKept
  <2> QED BY <2>3, <2>4
<1>5. ASSUME NEW w \in Workers, Reset(w) PROVE AcceptedIsKept'
  BY <1>5 DEF Reset, AcceptedIsKept
<1>6. ASSUME NEW w \in Workers, Refresh(w) PROVE AcceptedIsKept'
  <2>1. UNCHANGED <<registry, root, accepted>> BY <1>6 DEF Refresh
  <2>2. \A m \in Mgrs : draft'[m].applied = draft[m].applied
    BY <1>6 DEF Refresh, TypeOK, Draft
  <2> QED BY <1>1, <2>1, <2>2 DEF AcceptedIsKept
<1>7. ASSUME NEW w \in Workers, Migrate(w), ~UNCHANGED <<registry, draft, root>>
      PROVE  AcceptedIsKept'
  <2>0. registry = mgr[w] /\ mgr[w] \in Mgrs /\ registry # 0
    BY <1>7, ManagerIs DEF Migrate, Current, Mgrs
  <2>1. /\ registry' = made + 1 /\ accepted' = accepted
        /\ root' = [root EXCEPT ![made + 1] = root[mgr[w]]]
        /\ \E e \in {0, 1} :
             draft' = [draft EXCEPT ![made + 1] = [draft[mgr[w]] EXCEPT !.evidence = e]]
    BY <1>7 DEF Migrate
  <2>2. made + 1 \in Mgrs
    <3>1. w \in Replacing BY <1>7 DEF Migrate, Replacing
    <3> QED BY <3>1, Room
  <2>3. root'[registry'] = root[registry] BY <2>0, <2>1, <2>2 DEF TypeOK
  <2>4. draft'[registry'].applied = draft[registry].applied
    BY <2>0, <2>1, <2>2 DEF TypeOK, Draft
  <2> QED BY <2>0, <2>1, <2>3, <2>4 DEF AcceptedIsKept
<1>8. ASSUME NEW w \in Workers, Migrate(w), UNCHANGED <<registry, draft, root>>
      PROVE  AcceptedIsKept'
  BY <1>2, <1>8 DEF Migrate
<1> QED BY <1>2, <1>3, <1>4, <1>5, <1>6, <1>7, <1>8, StepApart

-----------------------------------------------------------------------------
(* Replays                                                                   *)

LEMMA CacheStep ==
  ASSUME [Next]_vars
  PROVE  \/ \E w \in Workers : Look(w) \/ Process(w) \/ Migrate(w)
         \/ UNCHANGED <<cache, turns>>
<1> USE DEF books
<1>1. ASSUME NEW w \in Workers, NEW r \in Reqs, Send(w, r) \/ Resend(w, r)
      PROVE  UNCHANGED <<cache, turns>>
  BY <1>1 DEF Send, Resend
<1>2. ASSUME NEW w \in Workers, NEW kind \in Jobs, Start(w, kind) PROVE UNCHANGED <<cache, turns>>
  BY <1>2 DEF Start
<1>3. ASSUME NEW w \in Workers,
             Lookup(w) \/ Find(w) \/ Enter(w) \/ Check(w) \/ Reset(w) \/ Refresh(w)
      PROVE  UNCHANGED <<cache, turns>>
  BY <1>3 DEF Lookup, Find, Enter, Check, Reset, Refresh
<1> QED BY <1>1, <1>2, <1>3 DEF Next, Step, vars

LEMMA StepWindow ==
  ASSUME TypeOK, Locked, Asked, Counted, [Next]_vars, prompt,
         \A m \in Mgrs : Window(cache[m], turns[m]), NEW m \in Mgrs
  PROVE  Window(cache'[m], turns'[m])
<1> USE DEF books
<1>1. CASE UNCHANGED <<cache, turns>> BY <1>1
<1>2. ASSUME NEW w \in Workers, Look(w) PROVE Window(cache'[m], turns'[m])
  <2>1. PICK c \in Expired(cache[mgr[w]]) : cache' = [cache EXCEPT ![mgr[w]] = c]
    BY <1>2 DEF Look
  <2>2. turns' = turns /\ mgr[w] \in Mgrs BY <1>2, ManagerIs DEF Look
  <2>3. cache[mgr[w]] \in Seq(Reqs) BY <2>2 DEF TypeOK
  <2>4. Len(c) = Len(cache[mgr[w]]) /\ \A i \in 1..Len(c) : c[i] = cache[mgr[w]][i]
    BY <2>3, ExpiredIs
  <2>5. CASE m # mgr[w] BY <2>1, <2>2, <2>5 DEF TypeOK
  <2>6. CASE m = mgr[w]
    <3>1. cache'[m] = c BY <2>1, <2>6 DEF TypeOK
    <3>2. Window(cache[m], turns[m]) OBVIOUS
    <3> QED BY <2>2, <2>4, <2>6, <3>1, <3>2 DEF Window
  <2> QED BY <2>5, <2>6
<1>3. ASSUME NEW w \in Workers, Process(w) PROVE Window(cache'[m], turns'[m])
  <2> DEFINE r == job[w].req
  <2>0. r \in Reqs /\ mgr[w] \in Mgrs BY <1>3, ManagerIs DEF Process, Asked
  <2>1. PICK c \in Expired(cache[mgr[w]]) :
          cache' = [cache EXCEPT ![mgr[w]] = Append(Kept(c), r)]
    BY <1>3 DEF Process
  <2>2. turns' = [turns EXCEPT ![mgr[w]] = Append(turns[mgr[w]], r)]
    BY <1>3 DEF Process, TypeOK
  <2>3. /\ cache[mgr[w]] \in Seq(Reqs) /\ Len(cache[mgr[w]]) <= MaxEntries
        /\ turns[mgr[w]] \in Seq(Reqs) /\ Window(cache[mgr[w]], turns[mgr[w]])
    BY <2>0 DEF TypeOK
  <2>4. Window(Append(Kept(c), r), Append(turns[mgr[w]], r)) BY <2>0, <2>3, WindowGrows
  <2>5. CASE m # mgr[w] BY <2>1, <2>2, <2>5 DEF TypeOK
  <2>6. CASE m = mgr[w] BY <2>1, <2>2, <2>4, <2>6 DEF TypeOK
  <2> QED BY <2>5, <2>6
<1>4. ASSUME NEW w \in Workers, Migrate(w), ~UNCHANGED <<cache, turns>>
      PROVE  Window(cache'[m], turns'[m])
  <2>1. /\ cache' = [cache EXCEPT ![made + 1] = cache[mgr[w]]]
        /\ turns' = [turns EXCEPT ![made + 1] = turns[mgr[w]]]
    BY <1>4 DEF Migrate, Inherited
  <2>2. mgr[w] \in Mgrs BY <1>4, ManagerIs DEF Migrate
  <2> QED BY <2>1, <2>2 DEF TypeOK
<1>5. ASSUME NEW w \in Workers, Migrate(w), UNCHANGED <<cache, turns>>
      PROVE  Window(cache'[m], turns'[m])
  BY <1>5
<1> QED BY <1>1, <1>2, <1>3, <1>4, <1>5, CacheStep

LEMMA PromptStays ==
  ASSUME [Next]_vars
  PROVE  prompt' = prompt
BY DEF Next, Step, Send, Resend, Start, Lookup, Find, Enter, Check, Look, Process, Reset,
       Refresh, Migrate, vars, books

LEMMA StepReplayable ==
  ASSUME TypeOK, Locked, Asked, Counted, Replayable, [Next]_vars, TypeOK'
  PROVE  Replayable'
<1> SUFFICES ASSUME prompt
             PROVE  /\ \A m \in Mgrs : Window(cache'[m], turns'[m])
                    /\ \A w \in Workers :
                         pc'[w] = "process" => ~Remembered(cache'[mgr'[w]], job'[w].req)
  <2>1. prompt' = prompt BY PromptStays
  <2> QED BY <2>1 DEF Replayable
<1>1. \A m \in Mgrs : Window(cache'[m], turns'[m]) BY StepWindow DEF Replayable
<1>2. ASSUME NEW v \in Workers, pc'[v] = "process"
      PROVE  ~Remembered(cache'[mgr'[v]], job'[v].req)
  <2>1. CASE pc[v] \notin {"check", "work", "process"}
    <3>1. Enter(v) BY <1>2, <2>1, Arrival
    <3> QED BY <1>2, <3>1 DEF Enter, Goto, TypeOK
  <2>2. CASE pc[v] \in {"check", "work", "process"} /\ ~Acts(v)
    <3>1. Undisturbed(v) BY <2>2, Exclusion
    <3> QED BY <1>2, <3>1 DEF Undisturbed, Replayable
  <2>3. CASE Acts(v)
    <3>1. CASE Look(v)
      <4>1. mgr[v] \in Mgrs BY <3>1, ManagerIs DEF Look
      <4>2. PICK c \in Expired(cache[mgr[v]]) :
              /\ cache' = [cache EXCEPT ![mgr[v]] = c]
              /\ IF Remembered(c, job[v].req)
                    \/ (ask[job[v].req] = "confirm" /\ ~Reviewed(job[v].req, mgr[v]))
                 THEN Leave(v) ELSE Goto(v, "process") /\ Stay
        BY <3>1 DEF Look
      <4>3. ~Leave(v) BY <1>2 DEF Leave, End, Goto, TypeOK
      <4>4. ~Remembered(c, job[v].req) /\ mgr' = mgr /\ job' = job BY <4>2, <4>3 DEF Stay
      <4>5. cache'[mgr[v]] = c BY <4>1, <4>2 DEF TypeOK
      <4> QED BY <4>4, <4>5
    <3>2. ~(Check(v) \/ Process(v) \/ Reset(v) \/ Refresh(v) \/ Migrate(v))
      BY <1>2 DEF Check, Process, Reset, Refresh, Migrate, Leave, End, Goto, TypeOK
    <3> QED BY <2>3, <3>1, <3>2 DEF Acts
  <2> QED BY <2>1, <2>2, <2>3
<1> QED BY <1>1, <1>2

-----------------------------------------------------------------------------
(* The invariant                                                             *)

LEMMA InitInv == Init => Inv
<1> SUFFICES ASSUME Init PROVE Inv OBVIOUS
<1>1. TypeOK BY InitType
<1>2. Locked /\ Current /\ Asked /\ Summary BY DEF Init, Locked, Current, Asked, Summary
<1>3. Unsent /\ Lineage /\ ConfirmedAsShown /\ AcceptedIsKept
  BY DEF Init, Unsent, Lineage, ConfirmedAsShown, AcceptedIsKept
<1>4. Counted
  <2>1. Replacing = {} BY DEF Init, Replacing, NoJob
  <2>2. Cardinality(Replacing) = 0 BY <2>1, FS_EmptySet
  <2> QED BY <2>2 DEF Init, Counted
<1>5. Replayable
  <2>1. MaxEntries \in Nat /\ MaxEntries > 0 BY ChatAssumption
  <2>2. \A m \in Mgrs : cache[m] = <<>> /\ turns[m] = <<>> BY DEF Init
  <2>3. Window(<<>>, <<>>) BY <2>1 DEF Window
  <2>4. \A w \in Workers : pc[w] # "process" BY DEF Init
  <2> QED BY <2>2, <2>3, <2>4 DEF Replayable
<1> QED BY <1>1, <1>2, <1>3, <1>4, <1>5 DEF Inv

LEMMA StepInv == Inv /\ [Next]_vars => Inv'
<1> SUFFICES ASSUME Inv, [Next]_vars PROVE Inv' OBVIOUS
<1>0. /\ TypeOK /\ Locked /\ Current /\ Asked /\ Summary /\ Unsent /\ Lineage /\ Counted
      /\ Replayable /\ ConfirmedAsShown /\ AcceptedIsKept
  BY DEF Inv
<1>1. TypeOK' BY StepType
<1>2. Locked' /\ Current' /\ Counted' BY <1>0, <1>1, StepLocked, StepCurrent, StepCounted
<1>3. Asked' /\ Summary' BY <1>0, <1>1, StepAsked, StepSummary
<1>4. Unsent' /\ ConfirmedAsShown' BY <1>0, StepPublished
<1>5. Lineage' /\ AcceptedIsKept' BY <1>0, <1>1, StepLineage, StepAccepted
<1>6. Replayable' BY <1>0, <1>1, StepReplayable
<1> QED BY <1>1, <1>2, <1>3, <1>4, <1>5, <1>6 DEF Inv

LEMMA Invariance == Spec => []Inv
<1> QED BY InitInv, StepInv, PTL DEF Spec

-----------------------------------------------------------------------------
(* Theorems                                                                  *)

\* Every variable stays in its domain: no turn and no reload makes a manager beyond
\* the ones the bounds leave room for, and a request cache keeps to its limit.
THEOREM TypeCorrect == Spec => []TypeOK
<1>1. Inv => TypeOK BY DEF Inv
<1> QED BY <1>1, Invariance, PTL

\* ConfirmedAsShown: the lock a confirmation is compared under is the lock it is
\* published under, so the summary cannot change in between, whoever else waits.
THEOREM PublishedIsConfirmed == Spec => []ConfirmedAsShown
<1>1. Inv => ConfirmedAsShown BY DEF Inv
<1> QED BY <1>1, Invariance, PTL

\* AcceptedIsKept: a turn edits the manager that is registered, and a reload copies
\* that manager while no turn can be editing it.
THEOREM NoEditIsLost == Spec => []AcceptedIsKept
<1>1. Inv => AcceptedIsKept BY DEF Inv
<1> QED BY <1>1, Invariance, PTL

\* PublishedIsVisible: a confirmation is published by the manager the registry still
\* names when it is done.
THEOREM PublishedByRegistered == Spec => PublishedIsVisible
<1> DEFINE Visible == \A r \in Reqs : published'[r] # published[r] => published'[r].epoch = registry'
<1>1. ASSUME Inv, [Next]_vars PROVE Visible
  <2>1. CASE UNCHANGED published BY <2>1
  <2>2. ASSUME NEW w \in Workers, Process(w), job[w].req \in Reqs,
               published' = [published EXCEPT ![job[w].req] = TokenOf(mgr[w])]
        PROVE  Visible
    <3>1. job[w].kind = "turn" /\ registry = mgr[w] /\ registry' = registry
      BY <1>1, <2>2 DEF Process, Inv, Asked, Current
    <3> QED BY <1>1, <2>2, <3>1 DEF Inv, TypeOK, TokenOf
  <2> QED BY <1>1, <2>1, <2>2, PublishStep DEF Inv
<1>2. Inv /\ [Next]_vars => [Visible]_vars BY <1>1
<1> QED BY <1>2, Invariance, PTL DEF Spec, PublishedIsVisible

\* NotReapplied: while nothing has expired the cache holds the last turns of the
\* session, whatever reloads it went through, and a turn that is about to be applied
\* was not among them when it took the lock.
THEOREM AppliedOnce == Spec => NotReapplied
<1> DEFINE Fresh == prompt => \A m \in 1..made, r \in Reqs :
                      draft'[m].applied[r] > draft[m].applied[r] => r \notin Recent(turns[m])
<1>1. ASSUME Inv, [Next]_vars PROVE Fresh
  <2> SUFFICES ASSUME prompt, NEW m \in 1..made, NEW r \in Reqs,
                      draft'[m].applied[r] > draft[m].applied[r]
               PROVE  r \notin Recent(turns[m])
    OBVIOUS
  <2>0. TypeOK /\ TypeOK' /\ Locked /\ Asked /\ Replayable BY <1>1, StepType DEF Inv
  <2>1. made \in Nat /\ m \in Mgrs BY <2>0, ChatAssumption DEF TypeOK, Mgrs
  <2>2. draft[m] \in Draft /\ draft[m].applied[r] \in Nat BY <2>0, <2>1 DEF TypeOK, Draft
  <2>3. draft'[m].applied # draft[m].applied BY <2>2
  <2>4. ASSUME NEW w \in Workers, Process(w) PROVE m = mgr[w] /\ r = job[w].req
    <3>1. mgr[w] \in Mgrs /\ job[w].req \in Reqs BY <2>0, <2>4, ManagerIs DEF Process, Asked
    <3>2. CASE draft' = [draft EXCEPT ![mgr[w]].applied[job[w].req] = @ + 1, ![mgr[w]].done = FALSE]
      <4>1. /\ \A x \in Mgrs \ {mgr[w]} : draft'[x] = draft[x]
            /\ draft'[mgr[w]].applied = [draft[mgr[w]].applied EXCEPT ![job[w].req] = @ + 1]
        BY <2>0, <3>1, <3>2, EditIs
      <4>2. m = mgr[w] BY <2>1, <2>3, <4>1
      <4>3. draft[m].applied \in [Reqs -> Nat] BY <2>2 DEF Draft
      <4>4. CASE r # job[w].req
        <5>1. draft'[m].applied[r] = draft[m].applied[r] BY <4>1, <4>2, <4>3, <4>4
        <5> QED BY <2>2, <5>1
      <4> QED BY <4>2, <4>4
    <3>3. CASE draft' = [draft EXCEPT ![mgr[w]].done = TRUE] \/ draft' = draft
      <4>1. \A x \in Mgrs : draft'[x].applied = draft[x].applied
        BY <2>0, <3>3, AppliedStays
      <4> QED BY <2>1, <2>3, <4>1
    <3> QED BY <2>4, <3>2, <3>3 DEF Process
  <2>5. ASSUME NEW w \in Workers, Reset(w) PROVE FALSE
    <3>1. draft'[m] = Empty \/ draft'[m] = draft[m] BY <2>0, <2>1, <2>5 DEF Reset, TypeOK
    <3>2. draft'[m].applied[r] = 0 BY <2>3, <3>1 DEF Empty
    <3> QED BY <2>2, <3>2
  <2>6. ASSUME NEW w \in Workers, Lookup(w) \/ Refresh(w) PROVE FALSE
    <3>1. \A x \in Mgrs : draft'[x].applied = draft[x].applied
      BY <2>0, <2>6, AppliedStays
    <3> QED BY <2>1, <2>3, <3>1
  <2>7. ASSUME NEW w \in Workers, Migrate(w) PROVE FALSE
    <3>1. m # made + 1 BY <2>1
    <3>2. draft'[m] = draft[m] BY <2>0, <2>1, <2>7, <3>1 DEF Migrate, TypeOK
    <3> QED BY <2>3, <3>2
  <2>8. PICK w \in Workers : Process(w) BY <1>1, <2>0, <2>3, <2>5, <2>6, <2>7, StepApart
  <2>9. m = mgr[w] /\ r = job[w].req BY <2>4, <2>8
  <2>10. ~Remembered(cache[m], r) /\ Window(cache[m], turns[m])
    BY <2>0, <2>1, <2>8, <2>9 DEF Process, Replayable
  <2>11. ASSUME r \in Recent(turns[m]) PROVE FALSE
    <3> DEFINE t == turns[m]
               c == cache[m]
    <3>1. t \in Seq(Reqs) /\ c \in Seq(Reqs) BY <2>0, <2>1 DEF TypeOK
    <3>2. PICK j \in DOMAIN t : j + MaxEntries > Len(t) /\ t[j] = r BY <2>11 DEF Recent
    <3>3. /\ Len(t) \in Nat /\ Len(c) \in Nat /\ MaxEntries \in Nat /\ MaxEntries > 0
          /\ j \in 1..Len(t) /\ DOMAIN c = 1..Len(c)
      BY <3>1, <3>2, LenProperties, ChatAssumption
    <3>4. /\ Len(c) = IF Len(t) < MaxEntries THEN Len(t) ELSE MaxEntries
          /\ \A x \in 1..Len(c) : c[x] = t[Len(t) - Len(c) + x]
      BY <2>10 DEF Window
    <3> HIDE DEF t, c
    <3> DEFINE i == j + Len(c) - Len(t)
    <3>5. i \in 1..Len(c) /\ Len(t) - Len(c) + i = j BY <3>2, <3>3, <3>4
    <3>6. c[i] = r BY <3>2, <3>4, <3>5
    <3> QED BY <2>10, <3>3, <3>5, <3>6 DEF Remembered, c
  <2> QED BY <2>11
<1>2. Inv /\ [Next]_vars => [Fresh]_vars BY <1>1
<1> QED BY <1>2, Invariance, PTL DEF Spec, NotReapplied

=============================================================================
