-------------------------- MODULE ConstraintDecision --------------------------
(* The phases of one planning session between its first message and the        *)
(* published task.  Every turn writes the draft and weighs it against the      *)
(* constraints; hard violations block, soft ones wait for the user to accept   *)
(* them, and only a confirming session may publish.  Messages of a session are *)
(* taken one at a time; telemetry and the clock move whenever they like, also  *)
(* while a publication is under way.                                           *)
EXTENDS Naturals, FiniteSets

CONSTANTS None,
          Sites, Depths, Units,        \* values of the draft's fields
          OffField, TooDeep, OverLimit,\* outside the oilfield; too deep for it, for the robot
          Readings, Rough, Down,       \* telemetry: all, those warned of, robot out of use
          Edits,                       \* what a turn may write: functions of some fields
          Limit,                       \* HARD_REFUSAL_LIMIT
          MaxReports, MaxAcks          \* bounds: telemetry versions, acknowledgements

Fields == {"site", "depth", "unit", "start"}
Values == [site |-> Sites, depth |-> Depths, unit |-> Units, start |-> {"now", "later"}]

ASSUME ValuesAssumption ==
  /\ OffField \subseteq Sites /\ TooDeep \cup OverLimit \subseteq Depths
  /\ Rough \cup Down \subseteq Readings
  /\ None \notin Sites \cup Depths \cup Units \cup {"now", "later"}
  /\ \A e \in Edits : DOMAIN e \subseteq Fields
                      /\ \A f \in DOMAIN e : e[f] \in Values[f] \cup {None}

ASSUME BoundsAssumption == Limit \in Nat \ {0} /\ MaxReports \in Nat /\ MaxAcks \in Nat

VARIABLES
  phase,
  draft,      \* the valid slots
  blocking,   \* the violations shown to the user
  counts,     \* refused attempts on each hard constraint
  acks,       \* acknowledgements of the slot store
  whitelist,  \* accepted (field, value, constraint)
  val,        \* last validation: for publishing, found hard, on which snapshot
  gate,       \* whether for now, the robot found available for a confirmation
  pub,        \* the publication under way
  sea, sver,  \* latest telemetry of the fleet and its version
  arrived,    \* a "later" start now lies in its execution window
  settled     \* constraints accepted and nothing has moved since (history)

session == <<phase, draft, blocking, counts, acks, whitelist, val, gate, pub>>
world == <<sea, sver, arrived>>
vars == <<session, world, settled>>

Phases == {"collecting", "confirming", "blocked_soft", "blocked_hard", "rejected", "done"}
HardIds == {"depth", "C029", "C020"}
Violation(id, fields, seen) == [id |-> id, fields |-> fields, seen |-> seen]
Hard(vs) == {v \in vs : v.id \in HardIds}
Ids(vs) == {v.id : v \in vs}

(************************** what a draft violates *****************************)
(* One constraint of each kind: the robot's depth limit, the notice for a task *)
(* of the future, telemetry that warns or forbids, the oilfield's two.         *)
IsNow(d) == d.start # "later" \/ arrived
Snap(d) == IF d.unit = None THEN <<None, 0>> ELSE <<d.unit, sver>>
Complete(d) == \A f \in Fields : d[f] # None

Static(d) ==
  IF d.unit # None /\ d.depth \in OverLimit
  THEN {Violation("depth", {"unit", "depth"}, None)} ELSE {}

Notice(d) ==
  IF IsNow(d) THEN {} ELSE {Violation("C032", {"start"}, d.start)}

Telemetry(d) ==
  (IF sea \in Rough THEN {Violation("C016", {"unit", "start"}, sea)} ELSE {})
  \cup (IF sea \in Down THEN {Violation("C020", {"unit", "start"}, sea)} ELSE {})

Validate(d, purpose) ==
  Static(d) \cup Notice(d)
  \cup (IF purpose # "interactive" /\ d.unit # None /\ IsNow(d) THEN Telemetry(d) ELSE {})

(* The linker's findings are merged into what the validator found, except      *)
(* where the code forgets to: its issues carry no observed value.              *)
OilfieldContext(d) ==
  (IF d.site \in OffField THEN {Violation("C028", {"oilfield", "site"}, None)} ELSE {})
  \cup (IF d.depth \in TooDeep /\ d.site # None
        THEN {Violation("C029", {"oilfield", "depth"}, None)} ELSE {})

(* mutant: a refresh that forgets the linker *)
ValidatedOnly(d, purpose) == Validate(d, purpose)
Merged(d, purpose) == Validate(d, purpose) \cup OilfieldContext(d)

Validation(d, purpose) ==
  [publish |-> purpose = "publish", hard |-> Hard(Validate(d, purpose)) # {}, snap |-> Snap(d)]

Stale == val = None \/ (val.snap[1] # None /\ val.snap # <<val.snap[1], sver>>)

(************************** accepted warnings *********************************)
(* The oilfield's name comes with its first coordinates and stays.             *)
FieldValue(d, f) == IF f # "oilfield" THEN d[f] ELSE IF d.site = None THEN None ELSE "name"

(* An acknowledgement counts while the snapshot and the observed value stand;  *)
(* failing that, one related field that has not changed is enough.             *)
(* mutant: the acknowledgement of any constraint will do *)
WhitelistedByAny(v, as, wl, d) ==
  \/ \E a \in as : a.snap = Snap(d) /\ a.seen \in {None, v.seen}
  \/ \E f \in v.fields : <<f, FieldValue(d, f), v.id>> \in wl

Whitelisted(v, as, wl, d) ==
  \/ \E a \in as : /\ a.id = v.id
                   /\ a.snap = Snap(d) /\ a.seen \in {None, v.seen}
  \/ \E f \in v.fields : <<f, FieldValue(d, f), v.id>> \in wl

(* mutant: accepted warnings are not filtered out *)
AllSoft(vs, as, wl, d) == vs \ Hard(vs)
Unaccepted(vs, as, wl, d) == {v \in vs \ Hard(vs) : ~Whitelisted(v, as, wl, d)}

(************************** weighing a draft **********************************)
NoCounts == [i \in HardIds |-> 0]
Refused(hard) ==
  [i \in HardIds |-> IF i \in Ids(hard) /\ counts[i] < Limit THEN counts[i] + 1 ELSE counts[i]]

Verdict(ph, bl, cs) == [phase |-> ph, blocking |-> bl, counts |-> cs]

(* _evaluate_constraint_context, seen from phase ph: a standing block counts   *)
(* one more refusal, a soft warning waits for the draft to be complete.        *)
Judge(ph, d, purpose, wl) ==
  LET vs == Merged(d, purpose)
      hard == Hard(vs)
      soft == Unaccepted(vs, acks, wl, d)
      full == purpose # "interactive"
  IN  IF ph \notin {"collecting", "confirming", "blocked_soft", "blocked_hard"}
      THEN Verdict(ph, blocking, counts)
      ELSE IF hard # {}
      THEN IF ph # "blocked_hard" THEN Verdict("blocked_hard", hard \cup soft, counts)
           ELSE IF \E i \in HardIds : Refused(hard)[i] >= Limit
           THEN Verdict("rejected", {}, Refused(hard))
           ELSE Verdict("blocked_hard", hard \cup soft, Refused(hard))
      ELSE LET cs == IF ph = "blocked_hard" THEN NoCounts ELSE counts
               waits == soft # {} /\ \/ ph = "blocked_soft"
                                     \/ ph = "confirming"
                                     \/ full
           IN  IF waits THEN Verdict("blocked_soft", soft, cs)
               ELSE IF ph \in {"blocked_soft", "blocked_hard"}
               THEN Verdict("collecting", {}, cs)
               ELSE Verdict(ph, blocking, cs)

Written(e) == [f \in Fields |-> IF f \in DOMAIN e THEN e[f] ELSE draft[f]]
(* What the turn says anew; a value that is refused leaves nothing behind.     *)
Changed(e) == {f \in DOMAIN e : e[f] = None \/ e[f] # draft[f]}
Dropped(e) == {w \in whitelist : w[1] \notin Changed(e)}

(* The phase the transaction commits, before the draft is weighed.             *)
Committed(d) ==
  IF phase = "done" THEN IF Complete(d) THEN "confirming" ELSE "collecting"
  ELSE IF Complete(d) /\ phase \notin {"blocked_hard", "blocked_soft"} THEN "confirming"
  ELSE phase

Purpose(d) == IF Complete(d) THEN "preview" ELSE "interactive"

Moved(d) == settled' = IF d = draft THEN settled ELSE {}

Open == gate = None /\ pub = None

(* A turn of the conversation: it writes the draft, then weighs it, unless     *)
(* nothing has changed and the last validation still stands.                   *)
Turn(e) ==
  LET d == Written(e)
      ph == Committed(d)
      weigh == \/ Complete(d) /\ ph # "blocked_soft"
               \/ Changed(e) # {} \/ ph \in {"blocked_soft", "blocked_hard"} \/ Stale
      j == IF weigh THEN Judge(ph, d, Purpose(d), Dropped(e)) ELSE Verdict(ph, blocking, counts)
  IN  /\ Open
      /\ draft' = d /\ whitelist' = Dropped(e)
      /\ val' = IF weigh THEN Validation(d, Purpose(d)) ELSE val
      /\ phase' = IF Complete(d) /\ j.phase = "collecting" THEN "confirming" ELSE j.phase
      /\ blocking' = j.blocking /\ counts' = j.counts
      /\ Moved(d)
      /\ UNCHANGED <<acks, gate, pub, world>>

(* A turn that leaves the oilfield to be cleared up: the draft is written, and *)
(* the session collects on without weighing it.                                *)
ClarifyOilfield(e) ==
  LET d == Written(e)
  IN  /\ Open
      /\ draft' = d /\ whitelist' = Dropped(e)
      /\ phase' = "collecting"
      /\ Moved(d)
      /\ UNCHANGED <<blocking, counts, acks, val, gate, pub, world>>

(************************** warnings and blocks *******************************)
(* The violations shown are accepted, bound to the telemetry as it is now.     *)
Acknowledged(d) ==
  acks \cup {[id |-> v.id, seen |-> v.seen, snap |-> Snap(d),
              field |-> CHOOSE f \in v.fields : TRUE] : v \in blocking \ Hard(blocking)}

Accepted(d) ==
  whitelist \cup UNION {{<<f, FieldValue(d, f), v.id>> :
                           f \in {g \in v.fields : FieldValue(d, g) # None}} : v \in blocking}

Ignore ==
  LET vs == Validate(draft, Purpose(draft))
      soft == Unaccepted(vs, Acknowledged(draft), Accepted(draft), draft)
  IN  /\ Open /\ phase = "blocked_soft" /\ Cardinality(acks) < MaxAcks
      /\ acks' = Acknowledged(draft) /\ whitelist' = Accepted(draft)
      /\ val' = Validation(draft, Purpose(draft))
      /\ phase' = IF Hard(vs) # {} THEN "blocked_hard"
                  ELSE IF soft # {} THEN "blocked_soft"
                  ELSE IF Complete(draft) THEN "confirming" ELSE "collecting"
      /\ blocking' = IF Hard(vs) # {} THEN Hard(vs) ELSE soft
      /\ settled' = settled \cup Ids(blocking)
      /\ UNCHANGED <<draft, counts, gate, pub, world>>

(* Confirming or ignoring in blocked_hard: the block is weighed again, without *)
(* the oilfield, and lifted only when nothing at all is left to warn of.  The  *)
(* message that lifts it then fills slots as any other: that is a Turn, before *)
(* which the model lets telemetry and other messages in.                       *)
ConfirmBlocked(publish) ==
  LET purpose == IF publish \/ (val # None /\ val.publish)
                 THEN "publish" ELSE "preview"
      vs == Validate(draft, purpose)
      was == (val # None /\ val.hard) \/ Hard(blocking) # {}
      lifted == vs = {} /\ was /\ IsNow(draft)
  IN  /\ Open /\ phase = "blocked_hard"
      /\ val' = Validation(draft, purpose)
      /\ phase' = IF lifted THEN "collecting" ELSE phase
      /\ blocking' = IF Hard(vs) # {} THEN Hard(vs)
                     ELSE IF lifted THEN {}
                     ELSE IF Hard(blocking) # {} THEN Hard(blocking) ELSE blocking
      /\ counts' = IF lifted THEN NoCounts ELSE counts
      /\ UNCHANGED <<draft, acks, whitelist, gate, pub, world, settled>>

(* External telemetry reaches the session: a refresh of any phase but the last.*)
RefreshExternal ==
  LET purpose == IF phase # "blocked_hard" THEN Purpose(draft)
                 ELSE IF val # None /\ val.publish THEN "publish" ELSE "preview"
      vs == Merged(draft, purpose)
      soft == Unaccepted(vs, acks, whitelist, draft)
  IN  /\ Open /\ phase \notin {"done", "rejected"}
      /\ val' = Validation(draft, purpose)
      /\ phase' = IF Hard(vs) # {} THEN "blocked_hard"
                  ELSE IF soft # {} THEN "blocked_soft"
                  ELSE IF Complete(draft) THEN "confirming" ELSE "collecting"
      /\ blocking' = IF Hard(vs) # {} THEN Hard(vs) ELSE soft
      /\ counts' = IF Hard(vs) = {} /\ soft = {} THEN NoCounts ELSE counts
      /\ UNCHANGED <<draft, acks, whitelist, gate, pub, world, settled>>

(************************** publication ***************************************)
Unavailable == draft.unit # None /\ IsNow(draft) /\ sea \in Down

PublishUnavailable ==
  /\ Open /\ phase = "confirming" /\ Unavailable
  /\ phase' = "blocked_hard"
  /\ UNCHANGED <<draft, blocking, counts, acks, whitelist, val, gate, pub, world, settled>>

(* The first question of the gate; whether the task is one of now is decided   *)
(* before it and not again.  A report that is only too old to tell leaves the  *)
(* session as it is.                                                           *)
PublishAvailable ==
  /\ Open /\ phase = "confirming" /\ ~Unavailable
  /\ gate' = [now |-> IsNow(draft)]
  /\ UNCHANGED <<phase, draft, blocking, counts, acks, whitelist, val, pub, world, settled>>

(* The rest of it; a draft that passes goes on to reserve, stage and write.    *)
PublishCheck ==
  LET vs == Validate(draft, "publish")
      soft == Unaccepted(vs, acks, whitelist, draft)
      passes == Hard(vs) = {} /\ soft = {} /\ Complete(draft)
  IN  /\ gate # None
      /\ phase' = IF Hard(vs) # {} THEN "blocked_hard"
                  ELSE IF soft # {} THEN "blocked_soft"
                  ELSE IF ~Complete(draft) THEN "collecting" ELSE phase
      /\ blocking' = IF Hard(vs) # {} THEN Hard(vs) ELSE IF soft # {} THEN soft ELSE blocking
      /\ val' = Validation(draft, "publish")
      /\ gate' = None
      /\ pub' = IF passes
                THEN [vs |-> vs, snap |-> Snap(draft), now |-> gate.now, back |-> val]
                ELSE None
      /\ UNCHANGED <<draft, counts, acks, whitelist, world, settled>>

(* Only acknowledgements of the current snapshot are filed with the task.      *)
ValidAcks(vs) ==
  {a \in acks : a.snap = Snap(draft)
                /\ \E v \in vs : v.id = a.id /\ (a.seen = v.seen \/ a.field \in v.fields)}

(* Nothing was written: the transaction is rolled back with its validation.    *)
RollBack(ph, bl) ==
  /\ phase' = ph /\ blocking' = bl /\ val' = pub.back /\ pub' = None
  /\ UNCHANGED <<draft, counts, acks, whitelist, gate, world, settled>>

Overtaken == pub.now /\ pub.snap # Snap(draft)

(* Telemetry moved between the gate and the write: the gate is passed again,   *)
(* and warnings must have been accepted for this very snapshot.                *)
Unfiled(vs) ==
  IF vs = {} \/ Ids(vs) = {"C032"} THEN {}
  ELSE {v \in vs : v.id \notin {a.id : a \in ValidAcks(vs)}}

PublishOvertaken ==
  LET vs == Validate(draft, "publish")
  IN  /\ pub # None /\ Overtaken
      /\ \/ Hard(vs) # {} /\ RollBack("confirming", blocking)
         \/ Hard(vs) = {} /\ Unfiled(vs) # {} /\ RollBack("blocked_soft", Unfiled(vs))

(* What the task is published with: the gate's result, or that of passing it   *)
(* again; the write is guarded by the version it was validated at.             *)
(* mutant: the telemetry is not checked again *)
GateResult == pub.vs
Evidence == IF Overtaken THEN Validate(draft, "publish") ELSE pub.vs

PublishWrite ==
  /\ pub # None
  /\ Overtaken => Hard(Evidence) = {} /\ Unfiled(Evidence) = {}
  /\ ~Overtaken => pub.snap = Snap(draft)
  /\ phase' = "done" /\ pub' = None
  /\ val' = IF Overtaken THEN Validation(draft, "publish") ELSE val
  /\ UNCHANGED <<draft, blocking, counts, acks, whitelist, gate, world, settled>>

(* No number, no room, or telemetry that moved under the guard.                *)
PublishFails == pub # None /\ RollBack("confirming", blocking)

(************************** the rest of the world *****************************)
Empty == [f \in Fields |-> None]

CancelDraft ==
  /\ Open /\ phase # "done" /\ draft # Empty
  /\ phase' = "rejected" /\ draft' = Empty /\ blocking' = {} /\ counts' = NoCounts
  /\ acks' = {} /\ whitelist' = {} /\ val' = None /\ settled' = {}
  /\ UNCHANGED <<gate, pub, world>>

Report(r) ==
  /\ sver < MaxReports
  /\ sea' = r /\ sver' = sver + 1 /\ settled' = {}
  /\ UNCHANGED <<session, arrived>>

StartArrives ==
  /\ ~arrived /\ arrived' = TRUE /\ settled' = {}
  /\ UNCHANGED <<session, sea, sver>>

Init ==
  /\ phase = "collecting" /\ draft = Empty /\ blocking = {} /\ counts = NoCounts
  /\ acks = {} /\ whitelist = {} /\ val = None /\ gate = None /\ pub = None
  /\ sea \in Readings /\ sver = 0 /\ arrived = FALSE
  /\ settled = {}

Next ==
  \/ \E e \in Edits : Turn(e) \/ ClarifyOilfield(e)
  \/ Ignore
  \/ \E publish \in BOOLEAN : ConfirmBlocked(publish)
  \/ RefreshExternal
  \/ PublishUnavailable \/ PublishAvailable \/ PublishCheck
  \/ PublishOvertaken \/ PublishWrite \/ PublishFails
  \/ CancelDraft
  \/ \E r \in Readings : Report(r)
  \/ StartArrives

Spec == Init /\ [][Next]_vars

(****************************** properties ***********************************)
Kinds == HardIds \cup {"C016", "C028", "C032"}
Names == Fields \cup {"oilfield"}
Seen == Readings \cup {None, "later"}
Snaps == (Units \cup {None}) \X (0..MaxReports)
Violations == [id : Kinds, fields : (SUBSET Names) \ {{}}, seen : Seen]
Acks == [id : Kinds, seen : Seen, snap : Snaps, field : Names]
Accepts == Names \X ((UNION {Values[f] : f \in Fields}) \cup {"name"}) \X Kinds
Validations == [publish : BOOLEAN, hard : BOOLEAN, snap : Snaps]
Publications ==
  [vs : SUBSET Violations, snap : Snaps, now : BOOLEAN, back : Validations \cup {None}]

TypeOK ==
  /\ phase \in Phases
  /\ DOMAIN draft = Fields /\ \A f \in Fields : draft[f] \in Values[f] \cup {None}
  /\ blocking \subseteq Violations
  /\ counts \in [HardIds -> 0..Limit]
  /\ acks \subseteq Acks /\ whitelist \subseteq Accepts
  /\ val \in Validations \cup {None}
  /\ gate \in [now : BOOLEAN] \cup {None}
  /\ pub \in Publications \cup {None}
  /\ sea \in Readings /\ sver \in 0..MaxReports /\ arrived \in BOOLEAN
  /\ settled \subseteq Kinds

(* A session that offers to publish, or asks only about warnings, has a draft  *)
(* without a hard violation of its own fields, although several steps into     *)
(* these phases do not look at the oilfield.                                   *)
Clean(d) == Hard(Static(d) \cup OilfieldContext(d)) = {}
ReadyIsClean == phase \in {"confirming", "blocked_soft", "done"} => Clean(draft)

(* The step that publishes: only a draft that violates no hard constraint, the *)
(* oilfield's and the telemetry current at the write included.  A task that    *)
(* was validated as one of the future is the exception: the code does not      *)
(* validate it again when its start arrives before the write.                  *)
Awaited == "C032" \in Ids(pub.vs)
Standing ==
  OilfieldContext(draft)
  \cup (IF Awaited <=> ~IsNow(draft) THEN Validate(draft, "publish") ELSE pub.vs)
Publishes == pub # None /\ phase' = "done"
HardNeverPublished == [][Publishes => Hard(Standing) = {}]_vars

(* Every kind of warning a published task carries was accepted by the user,    *)
(* and was so for this draft.                                                  *)
PublishedWasAccepted == [][Publishes => Ids(Standing) \subseteq Ids(acks)]_vars

(* While neither the draft nor the world moves, what the user accepted is not  *)
(* asked again, whatever is confirmed, refreshed or published in between.      *)
NotAskedAgain == phase = "blocked_soft" => Ids(blocking) \cap settled = {}

(* An acknowledgement filed with a task is about the value the task was        *)
(* validated with.                                                             *)
AcksMatchEvidence ==
  [][Publishes => \A a \in ValidAcks(Evidence) :
                    \E v \in Evidence : v.id = a.id /\ v.seen = a.seen]_vars
=============================================================================
