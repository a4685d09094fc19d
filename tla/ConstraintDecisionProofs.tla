----------------------- MODULE ConstraintDecisionProofs -----------------------
(* That no way through the phases reaches a publication past a hard            *)
(* violation.  Several steps into the phases that publish weigh the draft      *)
(* without the oilfield; they are sound only because they leave the draft as   *)
(* it is and start in a phase that was entered with it weighed in full.        *)
EXTENDS ConstraintDecision, TLAPS

(* A confirmation at the gate or past it belongs to a confirming session; what *)
(* the gate found is what the validator would find, unless telemetry or the    *)
(* start moved since.                                                          *)
GateHolds ==
  /\ gate # None => phase = "confirming" /\ pub = None /\ (gate.now => IsNow(draft))
  /\ pub # None =>
       /\ phase = "confirming" /\ draft.unit # None
       /\ Hard(pub.vs) = {}
       /\ pub.now \/ ~Awaited => IsNow(draft)
       /\ \E n \in 0..sver :
            /\ pub.snap = <<draft.unit, n>>
            /\ n = sver /\ (Awaited <=> ~IsNow(draft)) => pub.vs = Validate(draft, "publish")

(* A warning is passed over only for an acknowledgement of its kind, and the   *)
(* linker's warnings, which the gate does not see, are accepted before it.     *)
WarningsAnswered ==
  /\ \A w \in whitelist : w[3] \in Ids(acks)
  /\ phase = "confirming" => Ids(OilfieldContext(draft)) \subseteq Ids(acks)
  /\ phase = "blocked_soft" =>
       /\ Hard(blocking) = {}
       /\ Ids(OilfieldContext(draft)) \subseteq Ids(acks) \cup Ids(blocking)
  /\ pub # None => Ids(pub.vs) \subseteq Ids(acks)

IInv == TypeOK /\ ReadyIsClean /\ GateHolds /\ WarningsAnswered

USE DEF Fields, Phases

-------------------------------------------------------------------------------
(* The types.                                                                  *)
LEMMA RefusedType ==
  ASSUME counts \in [HardIds -> 0..Limit], NEW hard
  PROVE  Refused(hard) \in [HardIds -> 0..Limit]
  BY BoundsAssumption DEF Refused

(* A verdict is a phase and its counts.                                        *)
LEMMA JudgeType ==
  ASSUME counts \in [HardIds -> 0..Limit], NEW ph \in Phases, NEW d, NEW purpose, NEW wl
  PROVE  /\ Judge(ph, d, purpose, wl).phase \in Phases
         /\ Judge(ph, d, purpose, wl).counts \in [HardIds -> 0..Limit]
<1>1. NoCounts \in [HardIds -> 0..Limit]
  BY BoundsAssumption DEF NoCounts
<1> QED
  BY <1>1, RefusedType DEF Judge, Verdict

LEMMA WrittenType ==
  ASSUME TypeOK, NEW e \in Edits
  PROVE  /\ DOMAIN Written(e) = Fields
         /\ \A f \in Fields : Written(e)[f] \in Values[f] \cup {None}
  BY ValuesAssumption DEF TypeOK, Written

(* The phase a turn commits is one in which the draft can still be weighed, or *)
(* that of a refused draft.                                                    *)
LEMMA CommittedType ==
  ASSUME TypeOK, NEW d
  PROVE  Committed(d) \in Phases \ {"done"}
  BY DEF TypeOK, Committed

(* What a draft is found with, on which snapshot, and what is accepted of it.  *)
LEMMA MergedType ==
  ASSUME sea \in Readings, NEW d, NEW purpose
  PROVE  /\ Merged(d, purpose) \subseteq Violations
         /\ Validate(d, purpose) \subseteq Violations
<1>1. ASSUME NEW id \in Kinds, NEW fields, fields \subseteq Names, fields # {}, NEW seen \in Seen
      PROVE  Violation(id, fields, seen) \in Violations
  <2>1. fields \in (SUBSET Names) \ {{}}
    BY <1>1
  <2> QED
    BY <1>1, <2>1 DEF Violation, Violations
<1>2. /\ {"depth", "C032", "C016", "C020", "C028", "C029"} \subseteq Kinds
      /\ {"unit", "depth", "start", "oilfield", "site"} \subseteq Names
      /\ None \in Seen /\ sea \in Seen
  BY DEF Kinds, HardIds, Names, Seen
<1>3. Static(d) \subseteq Violations
  BY <1>1, <1>2 DEF Static
<1>4. Notice(d) \subseteq Violations
  <2>1. CASE IsNow(d)
    BY <2>1 DEF Notice
  <2>2. CASE ~IsNow(d)
    <3>1. d.start = "later" /\ "later" \in Seen
      BY <2>2 DEF IsNow, Seen
    <3> QED
      BY <1>1, <1>2, <2>2, <3>1 DEF Notice
  <2> QED
    BY <2>1, <2>2
<1>5. Telemetry(d) \subseteq Violations
  BY <1>1, <1>2 DEF Telemetry
<1>6. OilfieldContext(d) \subseteq Violations
  BY <1>1, <1>2 DEF OilfieldContext
<1> QED
  BY <1>3, <1>4, <1>5, <1>6 DEF Merged, Validate

LEMMA SnapType ==
  ASSUME sver \in 0..MaxReports, NEW d, d.unit \in Units \cup {None}
  PROVE  Snap(d) \in Snaps
  BY BoundsAssumption DEF Snap, Snaps

LEMMA ValidationType ==
  ASSUME sver \in 0..MaxReports, NEW d, d.unit \in Units \cup {None}, NEW purpose
  PROVE  Validation(d, purpose) \in Validations
  BY SnapType DEF Validation, Validations

LEMMA JudgeShows ==
  ASSUME sea \in Readings, blocking \subseteq Violations, NEW ph, NEW d, NEW purpose, NEW wl
  PROVE  Judge(ph, d, purpose, wl).blocking \subseteq Violations
<1> DEFINE vs == Merged(d, purpose)
           soft == Unaccepted(vs, acks, wl, d)
<1>1. vs \subseteq Violations
  BY MergedType
<1>2. Hard(vs) \subseteq Violations /\ soft \subseteq Violations
  BY <1>1 DEF Hard, Unaccepted
<1>3. Judge(ph, d, purpose, wl).blocking \in {blocking, Hard(vs) \cup soft, soft, {}}
  BY DEF Judge, Verdict
<1> QED
  BY <1>2, <1>3

LEMMA AcceptType ==
  ASSUME TypeOK
  PROVE  Acknowledged(draft) \subseteq Acks /\ Accepted(draft) \subseteq Accepts
<1>1. Snap(draft) \in Snaps
  BY SnapType DEF TypeOK, Values
<1>2. ASSUME NEW v \in blocking PROVE v.id \in Kinds /\ v.seen \in Seen
                                     /\ v.fields \subseteq Names /\ v.fields # {}
  <2>1. v \in Violations
    BY <1>2 DEF TypeOK
  <2>2. v.id \in Kinds /\ v.seen \in Seen /\ v.fields \in (SUBSET Names) \ {{}}
    BY <2>1 DEF Violations
  <2> QED
    BY <2>2
<1>3. ASSUME NEW v \in blocking
      PROVE  [id |-> v.id, seen |-> v.seen, snap |-> Snap(draft),
              field |-> CHOOSE f \in v.fields : TRUE] \in Acks
  <2>1. (CHOOSE f \in v.fields : TRUE) \in v.fields
    BY <1>2
  <2> QED
    BY <1>1, <1>2, <2>1 DEF Acks
<1>4. ASSUME NEW f \in Names, FieldValue(draft, f) # None
      PROVE  FieldValue(draft, f) \in (UNION {Values[g] : g \in Fields}) \cup {"name"}
  <2>1. CASE f = "oilfield"
    <3>1. FieldValue(draft, f) = "name"
      BY <1>4, <2>1 DEF FieldValue
    <3> QED
      BY <3>1, Zenon
  <2>2. CASE f \in Fields
    <3>1. FieldValue(draft, f) = draft[f] /\ draft[f] \in Values[f]
      BY <1>4, <2>2 DEF FieldValue, TypeOK
    <3> QED
      BY <2>2, <3>1
  <2> QED
    BY <2>1, <2>2 DEF Names
<1>5. Acknowledged(draft) \subseteq Acks
  BY <1>3 DEF Acknowledged, TypeOK
<1>6. ASSUME NEW v \in blocking, NEW f \in v.fields, FieldValue(draft, f) # None
      PROVE  <<f, FieldValue(draft, f), v.id>> \in Accepts
  BY <1>2, <1>4, <1>6 DEF Accepts
<1>7. Accepted(draft) \subseteq Accepts
  BY <1>6 DEF Accepted, TypeOK
<1> QED
  BY <1>5, <1>7

LEMMA InitType ==
  ASSUME Init
  PROVE  TypeOK
<1>1. arrived \in BOOLEAN
  BY DEF Init
<1>2. counts \in [HardIds -> 0..Limit]
  BY BoundsAssumption DEF Init, NoCounts
<1>3. DOMAIN draft = Fields /\ \A f \in Fields : draft[f] \in Values[f] \cup {None}
  BY DEF Init, Empty
<1>4. phase \in Phases /\ sea \in Readings /\ sver \in 0..MaxReports
  BY BoundsAssumption DEF Init
<1> QED
  BY <1>1, <1>2, <1>3, <1>4 DEF TypeOK, Init

LEMMA StepType ==
  ASSUME TypeOK, [Next]_vars
  PROVE  TypeOK'
<1>1. NoCounts \in [HardIds -> 0..Limit]
  BY BoundsAssumption DEF NoCounts
<1>2. \A purpose : /\ Validation(draft, purpose) \in Validations
                   /\ Validate(draft, purpose) \subseteq Violations
                   /\ Merged(draft, purpose) \subseteq Violations
  BY ValidationType, MergedType DEF TypeOK, Values
<1>3. \A vs \in SUBSET Violations :
        /\ Hard(vs) \subseteq Violations /\ Unfiled(vs) \subseteq Violations
        /\ \A as, wl : Unaccepted(vs, as, wl, draft) \subseteq Violations
  BY DEF Hard, Unfiled, Unaccepted
<1>4. pub # None => pub.back \in Validations \cup {None} /\ pub.vs \subseteq Violations
  BY DEF TypeOK, Publications
<1>5. ASSUME NEW e \in Edits, Turn(e) PROVE TypeOK'
  <2> DEFINE d == Written(e)
             ph == Committed(d)
             j == Judge(ph, d, Purpose(d), Dropped(e))
  <2>1. ph \in Phases
    BY CommittedType
  <2>2. j.phase \in Phases /\ j.counts \in [HardIds -> 0..Limit] /\ j.blocking \subseteq Violations
    BY <2>1, JudgeType, JudgeShows DEF TypeOK
  <2>3. Validation(d, Purpose(d)) \in Validations
    <3>1. d.unit \in Units \cup {None}
      BY WrittenType DEF Values
    <3> QED
      BY <3>1, ValidationType DEF TypeOK
  <2>4. /\ phase' \in Phases /\ counts' \in [HardIds -> 0..Limit] /\ blocking' \subseteq Violations
        /\ val' \in Validations \cup {None}
    BY <1>5, <2>1, <2>2, <2>3 DEF Turn, TypeOK, Verdict
  <2>5. DOMAIN draft' = Fields /\ \A f \in Fields : draft'[f] \in Values[f] \cup {None}
    BY <1>5, WrittenType DEF Turn
  <2>6. whitelist' \subseteq Accepts /\ settled' \subseteq Kinds
    BY <1>5 DEF Turn, Dropped, Moved, TypeOK
  <2> QED
    BY <1>5, <2>4, <2>5, <2>6 DEF Turn, TypeOK, world
<1>6. ASSUME NEW e \in Edits, ClarifyOilfield(e) PROVE TypeOK'
  BY <1>6, WrittenType DEF ClarifyOilfield, Dropped, Moved, TypeOK, world
<1>7. CASE Ignore
  <2>1. blocking' \subseteq Violations /\ val' \in Validations \cup {None} /\ phase' \in Phases
    BY <1>2, <1>3, <1>7 DEF Ignore
  <2>2. acks' \subseteq Acks /\ whitelist' \subseteq Accepts
    BY <1>7, AcceptType DEF Ignore
  <2>3. settled' \subseteq Kinds
    BY <1>7 DEF Ignore, Ids, Violations, TypeOK
  <2> QED
    BY <1>7, <2>1, <2>2, <2>3 DEF Ignore, TypeOK, world
<1>8. ASSUME NEW publish \in BOOLEAN, ConfirmBlocked(publish) PROVE TypeOK'
  <2>1. blocking' \subseteq Violations /\ val' \in Validations \cup {None}
    BY <1>2, <1>3, <1>8 DEF ConfirmBlocked, TypeOK
  <2> QED
    BY <1>1, <1>8, <2>1 DEF ConfirmBlocked, TypeOK, world
<1>9. CASE RefreshExternal
  <2>1. blocking' \subseteq Violations /\ val' \in Validations \cup {None}
    BY <1>2, <1>3, <1>9 DEF RefreshExternal
  <2> QED
    BY <1>1, <1>9, <2>1 DEF RefreshExternal, TypeOK, world
<1>10. CASE PublishUnavailable \/ PublishAvailable
  <2> DEFINE now == IsNow(draft)
  <2>1. now \in BOOLEAN
    BY DEF IsNow, TypeOK
  <2>2. gate' = gate \/ gate' = [now |-> now]
    BY <1>10 DEF PublishUnavailable, PublishAvailable
  <2> HIDE DEF now
  <2>3. gate' \in [now : BOOLEAN] \cup {None}
    BY <2>1, <2>2 DEF TypeOK
  <2> QED
    BY <1>10, <2>3 DEF PublishUnavailable, PublishAvailable, TypeOK, world
<1>11. CASE PublishCheck
  <2>1. blocking' \subseteq Violations /\ val' \in Validations \cup {None}
    BY <1>2, <1>3, <1>11 DEF PublishCheck, TypeOK
  <2>2. gate.now \in BOOLEAN /\ Snap(draft) \in Snaps
    BY <1>11, SnapType DEF PublishCheck, TypeOK, Values
  <2>3. pub' \in Publications \cup {None}
    BY <1>2, <1>11, <2>2 DEF PublishCheck, Publications, TypeOK
  <2> QED
    BY <1>11, <2>1, <2>3 DEF PublishCheck, TypeOK, world
<1>12. CASE PublishOvertaken
  <2>1. blocking' \subseteq Violations /\ val' \in Validations \cup {None}
    BY <1>2, <1>3, <1>4, <1>12 DEF PublishOvertaken, RollBack, TypeOK
  <2> QED
    BY <1>12, <2>1 DEF PublishOvertaken, RollBack, TypeOK, world
<1>13. CASE PublishWrite
  BY <1>2, <1>13 DEF PublishWrite, TypeOK, world
<1>14. CASE PublishFails
  BY <1>4, <1>14 DEF PublishFails, RollBack, TypeOK, world
<1>15. CASE CancelDraft
  BY <1>15, <1>1 DEF CancelDraft, Empty, TypeOK, world
<1>16. ASSUME NEW r \in Readings, Report(r) PROVE TypeOK'
  BY <1>16, BoundsAssumption DEF Report, TypeOK, session
<1>17. CASE StartArrives
  BY <1>17 DEF StartArrives, TypeOK, session
<1>18. CASE UNCHANGED vars
  BY <1>18 DEF vars, session, world, TypeOK
<1> QED
  BY <1>5, <1>6, <1>7, <1>8, <1>9, <1>10, <1>11, <1>12, <1>13, <1>14, <1>15, <1>16, <1>17,
     <1>18 DEF Next

(* Every variable has its type in every reachable state: every violation shown *)
(* or published is of a known kind and names a field, whatever is accepted or  *)
(* acknowledged refers to a value and a snapshot there was, and a confirmation *)
(* at the gate or under way carries all that its rollback needs.               *)
THEOREM TypeCorrect == Spec => []TypeOK
  BY InitType, StepType, PTL DEF Spec

-------------------------------------------------------------------------------
(* What a weighing promises.                                                   *)
LEMMA MergedClean ==
  ASSUME NEW d, NEW purpose, Hard(Merged(d, purpose)) = {}
  PROVE  Clean(d)
  BY DEF Merged, Validate, Clean, Hard

LEMMA UnacceptedSoft ==
  ASSUME NEW vs, NEW as, NEW wl, NEW d
  PROVE  Hard(Unaccepted(vs, as, wl, d)) = {}
  BY DEF Hard, Unaccepted

(* Warnings are left out only for an acknowledgement of their kind.            *)
LEMMA UnacceptedAnswered ==
  ASSUME NEW vs, NEW as, NEW wl, NEW d, Hard(vs) = {},
         \A w \in wl : w[3] \in Ids(as)
  PROVE  Ids(vs) \subseteq Ids(as) \cup Ids(Unaccepted(vs, as, wl, d))
<1>1. SUFFICES ASSUME NEW v \in vs, v \notin Unaccepted(vs, as, wl, d) PROVE v.id \in Ids(as)
  BY DEF Ids
<1>2. Whitelisted(v, as, wl, d)
  BY <1>1 DEF Unaccepted
<1>3. CASE \E a \in as : a.id = v.id
  BY <1>3 DEF Ids
<1>4. ASSUME NEW f \in v.fields, <<f, FieldValue(d, f), v.id>> \in wl PROVE v.id \in Ids(as)
  <2>1. <<f, FieldValue(d, f), v.id>>[3] = v.id
    OBVIOUS
  <2> QED
    BY <1>4, <2>1
<1> QED
  BY <1>2, <1>3, <1>4 DEF Whitelisted

LEMMA OilfieldAnswered ==
  ASSUME NEW purpose, NEW as, NEW wl, NEW d, Hard(Merged(d, purpose)) = {},
         \A w \in wl : w[3] \in Ids(as)
  PROVE  Ids(OilfieldContext(d))
           \subseteq Ids(as) \cup Ids(Unaccepted(Merged(d, purpose), as, wl, d))
<1>1. Ids(OilfieldContext(d)) \subseteq Ids(Merged(d, purpose))
  BY DEF Ids, Merged
<1> QED
  BY <1>1, UnacceptedAnswered

(* A verdict other than a block has found the draft free of hard violations,   *)
(* and one that lets it be confirmed has found every warning accepted.         *)
LEMMA JudgeSound ==
  ASSUME NEW ph \in Phases \ {"done"}, NEW d, NEW purpose, NEW wl
  PROVE  LET j == Judge(ph, d, purpose, wl)
             soft == Unaccepted(Merged(d, purpose), acks, wl, d)
         IN  /\ j.phase # "done"
             /\ ph = "rejected" => j.phase = "rejected"
             /\ ph # "rejected" /\ j.phase \in {"collecting", "confirming", "blocked_soft"} =>
                  Hard(Merged(d, purpose)) = {}
             /\ j.phase = "blocked_soft" => j.blocking = soft
             /\ j.phase = "confirming" \/ (j.phase = "collecting" /\ purpose # "interactive")
                  => soft = {}
<1> DEFINE vs == Merged(d, purpose)
           soft == Unaccepted(vs, acks, wl, d)
           j == Judge(ph, d, purpose, wl)
<1>1. CASE ph = "rejected"
  BY <1>1 DEF Judge, Verdict
<1>2. CASE ph # "rejected" /\ Hard(vs) # {}
  <2>1. j.phase \in {"blocked_hard", "rejected"}
    BY <1>2 DEF Judge, Verdict
  <2> QED
    BY <1>2, <2>1
<1>3. CASE ph # "rejected" /\ Hard(vs) = {}
  <2> DEFINE waits == soft # {} /\ (ph = "blocked_soft" \/ ph = "confirming"
                                       \/ purpose # "interactive")
  <2>1. CASE waits
    <3>1. j.phase = "blocked_soft" /\ j.blocking = soft
      BY <1>3, <2>1 DEF Judge, Verdict
    <3> QED
      BY <1>3, <3>1
  <2>2. CASE ~waits
    <3>1. j.phase = IF ph \in {"blocked_soft", "blocked_hard"} THEN "collecting" ELSE ph
      BY <1>3, <2>2 DEF Judge, Verdict
    <3> QED
      BY <1>3, <2>2, <3>1
  <2> QED
    BY <2>1, <2>2
<1> QED
  BY <1>1, <1>2, <1>3

(* The draft matters only through its fields.                                  *)
LEMMA SameFields ==
  ASSUME NEW d, NEW e, \A f \in Fields : d[f] = e[f]
  PROVE  /\ OilfieldContext(d) = OilfieldContext(e)
         /\ Clean(d) <=> Clean(e)
<1>1. d.site = e.site /\ d.depth = e.depth /\ d.unit = e.unit
  OBVIOUS
<1> QED
  BY <1>1 DEF OilfieldContext, Static, Clean


(* A turn that does not weigh the draft has changed nothing of it, and goes on *)
(* in a phase that collects or in the one it found.                            *)
LEMMA Unweighed ==
  ASSUME TypeOK, NEW e \in Edits, Changed(e) = {}, ~Complete(Written(e))
  PROVE  /\ OilfieldContext(Written(e)) = OilfieldContext(draft)
         /\ Clean(Written(e)) <=> Clean(draft)
         /\ Committed(Written(e)) \in {"collecting", phase} \ {"done"}
<1>1. \A f \in Fields : Written(e)[f] = draft[f]
  BY DEF Written, Changed
<1>2. Committed(Written(e)) \in {"collecting", phase} \ {"done"}
  BY DEF Committed
<1> QED
  BY <1>1, <1>2, SameFields

(* The phase a turn ends in, with what is then known of its draft.             *)
LEMMA TurnSound ==
  ASSUME IInv, NEW e \in Edits, Turn(e)
  PROVE  /\ phase' # "done"
         /\ phase' \in {"confirming", "blocked_soft"} => Clean(draft')
         /\ phase' = "confirming" => Ids(OilfieldContext(draft')) \subseteq Ids(acks)
         /\ phase' = "blocked_soft" =>
              /\ Hard(blocking') = {}
              /\ Ids(OilfieldContext(draft')) \subseteq Ids(acks) \cup Ids(blocking')
<1> DEFINE d == Written(e)
           ph == Committed(d)
           j == Judge(ph, d, Purpose(d), Dropped(e))
           soft == Unaccepted(Merged(d, Purpose(d)), acks, Dropped(e), d)
           weigh == \/ Complete(d) /\ ph # "blocked_soft"
                    \/ Changed(e) # {} \/ ph \in {"blocked_soft", "blocked_hard"} \/ Stale
<1>1. draft' = d
  BY DEF Turn
<1>2. ph \in Phases \ {"done"}
  BY CommittedType DEF IInv
<1>3. CASE weigh
  <2>1. /\ phase' = IF Complete(d) /\ j.phase = "collecting" THEN "confirming" ELSE j.phase
        /\ blocking' = j.blocking
    BY <1>3 DEF Turn
  <2>2. /\ j.phase # "done"
        /\ ph = "rejected" => j.phase = "rejected"
        /\ ph # "rejected" /\ j.phase \in {"collecting", "confirming", "blocked_soft"} =>
             Hard(Merged(d, Purpose(d))) = {}
        /\ j.phase = "blocked_soft" => j.blocking = soft
        /\ j.phase = "confirming" \/ (j.phase = "collecting" /\ Purpose(d) # "interactive")
             => soft = {}
    BY <1>2, JudgeSound
  <2>3. \A w \in Dropped(e) : w[3] \in Ids(acks)
    BY DEF Dropped, IInv, WarningsAnswered
  <2>4. CASE phase' \notin {"confirming", "blocked_soft"}
    BY <2>1, <2>2, <2>4
  <2>5. CASE phase' \in {"confirming", "blocked_soft"}
    <3>1. Hard(Merged(d, Purpose(d))) = {}
      BY <2>1, <2>2, <2>5
    <3>2. Clean(d)
      BY <3>1, MergedClean
    <3>3. Ids(OilfieldContext(d)) \subseteq Ids(acks) \cup Ids(soft)
      BY <3>1, <2>3, OilfieldAnswered
    <3>4. phase' = "confirming" => soft = {}
      BY <2>1, <2>2 DEF Purpose
    <3>5. phase' = "blocked_soft" => blocking' = soft /\ Hard(blocking') = {}
      BY <2>1, <2>2, UnacceptedSoft
    <3>6. Ids({}) = {}
      BY DEF Ids
    <3> QED
      BY <1>1, <2>5, <3>2, <3>3, <3>4, <3>5, <3>6
  <2> QED
    BY <2>4, <2>5
<1>4. CASE ~weigh
  <2>1. /\ Changed(e) = {} /\ ph \notin {"blocked_soft", "blocked_hard"} /\ ~Complete(d)
    BY <1>4
  <2>2. phase' = ph
    BY <1>4, <2>1 DEF Turn, Verdict
  <2>3. /\ OilfieldContext(d) = OilfieldContext(draft)
        /\ Clean(d) <=> Clean(draft)
        /\ ph \in {"collecting", phase} \ {"done"}
    BY <2>1, Unweighed DEF IInv
  <2> QED
    BY <1>1, <2>1, <2>2, <2>3 DEF IInv, ReadyIsClean, WarningsAnswered
<1> QED
  BY <1>3, <1>4


-------------------------------------------------------------------------------
(* The invariant, one step of the specification at a time.                     *)
Rest == ReadyIsClean /\ GateHolds /\ WarningsAnswered

LEMMA TurnKeeps ==
  ASSUME IInv, NEW e \in Edits, Turn(e)
  PROVE  Rest'
<1>1. pub' = None /\ gate' = None
  BY DEF Turn, Open
<1>2. \A w \in whitelist' : w[3] \in Ids(acks')
  BY DEF Turn, Dropped, IInv, WarningsAnswered
<1>3. acks' = acks
  BY DEF Turn
<1> QED
  BY <1>1, <1>2, <1>3, TurnSound DEF Rest, ReadyIsClean, GateHolds, WarningsAnswered

LEMMA ClarifyKeeps ==
  ASSUME IInv, NEW e \in Edits, ClarifyOilfield(e)
  PROVE  Rest'
<1>1. \A w \in whitelist' : w[3] \in Ids(acks')
  BY DEF ClarifyOilfield, Dropped, IInv, WarningsAnswered
<1> QED
  BY <1>1 DEF ClarifyOilfield, Open, Rest, ReadyIsClean, GateHolds, WarningsAnswered

(* What is shown is accepted, each kind of it with an acknowledgement.         *)
LEMMA IgnoreKeeps ==
  ASSUME IInv, Ignore
  PROVE  Rest'
<1>1. Hard(blocking) = {} /\ Clean(draft) /\ draft' = draft /\ pub' = None
      /\ gate' = None
  BY DEF Ignore, Open, IInv, WarningsAnswered, ReadyIsClean
<1>2. phase' \in {"blocked_hard", "blocked_soft", "confirming", "collecting"}
  BY DEF Ignore
<1>3. Ids(acks) \cup Ids(blocking) \subseteq Ids(acks')
  <2>1. \A v \in blocking : \E a \in acks' : a.id = v.id
    <3>1. blocking \ Hard(blocking) = blocking
      BY <1>1
    <3>2. acks' = Acknowledged(draft)
      BY DEF Ignore
    <3>3. ASSUME NEW v \in blocking PROVE \E a \in acks' : a.id = v.id
      <4> DEFINE a == [id |-> v.id, seen |-> v.seen, snap |-> Snap(draft),
                       field |-> CHOOSE f \in v.fields : TRUE]
      <4>1. a \in acks'
        <5>1. v \in blocking \ Hard(blocking)
          BY <3>1, <3>3
        <5>2. a \in Acknowledged(draft)
          BY <5>1, Zenon DEF Acknowledged
        <5> QED
          BY <3>2, <5>2
      <4>2. a.id = v.id
        OBVIOUS
      <4> QED
        BY <4>1, <4>2
    <3> QED
      BY <3>3
  <2>2. acks \subseteq acks'
    BY DEF Ignore, Acknowledged
  <2> QED
    BY <2>1, <2>2 DEF Ids
<1>4. \A w \in whitelist' : w[3] \in Ids(acks')
  <2>1. SUFFICES ASSUME NEW w \in Accepted(draft) PROVE w[3] \in Ids(acks) \cup Ids(blocking)
    BY <1>3 DEF Ignore
  <2>2. CASE w \in whitelist
    BY <2>2 DEF IInv, WarningsAnswered
  <2>3. ASSUME NEW v \in blocking, NEW f \in v.fields, w = <<f, FieldValue(draft, f), v.id>>
        PROVE  w[3] \in Ids(blocking)
    BY <2>3 DEF Ids
  <2> QED
    BY <2>1, <2>2, <2>3 DEF Accepted
<1>5. phase' = "blocked_soft" => Hard(blocking') = {}
  BY UnacceptedSoft DEF Ignore
<1>6. Ids(OilfieldContext(draft)) \subseteq Ids(acks')
  BY <1>3 DEF Ignore, IInv, WarningsAnswered
<1> QED
  BY <1>1, <1>2, <1>4, <1>5, <1>6 DEF Rest, ReadyIsClean, GateHolds, WarningsAnswered

LEMMA RefreshKeeps ==
  ASSUME IInv, RefreshExternal
  PROVE  Rest'
<1> DEFINE purpose == IF phase # "blocked_hard" THEN Purpose(draft)
                      ELSE IF val # None /\ val.publish THEN "publish" ELSE "preview"
           vs == Merged(draft, purpose)
           soft == Unaccepted(vs, acks, whitelist, draft)
<1>1. /\ draft' = draft /\ acks' = acks /\ whitelist' = whitelist /\ pub' = None
      /\ gate' = None
      /\ phase' = IF Hard(vs) # {} THEN "blocked_hard"
                  ELSE IF soft # {} THEN "blocked_soft"
                  ELSE IF Complete(draft) THEN "confirming" ELSE "collecting"
      /\ blocking' = IF Hard(vs) # {} THEN Hard(vs) ELSE soft
  BY DEF RefreshExternal, Open
<1>2. CASE phase' \in {"confirming", "blocked_soft"}
  <2>1. Hard(vs) = {} /\ blocking' = soft /\ (phase' = "confirming" => soft = {})
    BY <1>1, <1>2
  <2>2. Clean(draft)
    BY <2>1, MergedClean
  <2>3. Ids(OilfieldContext(draft)) \subseteq Ids(acks) \cup Ids(soft)
    BY <2>1, OilfieldAnswered DEF IInv, WarningsAnswered
  <2>4. Ids({}) = {}
    BY DEF Ids
  <2>5. Hard(soft) = {}
    BY UnacceptedSoft
  <2> HIDE DEF soft, vs
  <2> QED
    BY <1>1, <1>2, <2>1, <2>2, <2>3, <2>4, <2>5
       DEF IInv, Rest, ReadyIsClean, GateHolds, WarningsAnswered
<1>3. CASE phase' \notin {"confirming", "blocked_soft"}
  <2>1. phase' # "done"
    BY <1>1
  <2> QED
    BY <1>1, <1>3, <2>1 DEF IInv, Rest, ReadyIsClean, GateHolds, WarningsAnswered
<1> QED
  BY <1>2, <1>3

(* The gate sees no oilfield: the draft it lets through is clean because its   *)
(* session was confirming.                                                     *)
LEMMA PublishCheckKeeps ==
  ASSUME IInv, PublishCheck
  PROVE  Rest'
<1> DEFINE vs == Validate(draft, "publish")
           soft == Unaccepted(vs, acks, whitelist, draft)
           passes == Hard(vs) = {} /\ soft = {} /\ Complete(draft)
<1>1. /\ phase = "confirming" /\ draft' = draft /\ acks' = acks /\ whitelist' = whitelist
      /\ sver' = sver /\ arrived' = arrived /\ sea' = sea /\ gate' = None
      /\ gate.now => IsNow(draft)
  BY DEF PublishCheck, world, IInv, GateHolds
<1>2. /\ phase' = IF Hard(vs) # {} THEN "blocked_hard"
                  ELSE IF soft # {} THEN "blocked_soft"
                  ELSE IF ~Complete(draft) THEN "collecting" ELSE phase
      /\ blocking' = IF Hard(vs) # {} THEN Hard(vs) ELSE IF soft # {} THEN soft ELSE blocking
      /\ pub' = IF passes
                THEN [vs |-> vs, snap |-> Snap(draft), now |-> gate.now, back |-> val]
                ELSE None
  BY DEF PublishCheck
<1>3. Clean(draft) /\ Ids(OilfieldContext(draft)) \subseteq Ids(acks)
  BY <1>1 DEF IInv, ReadyIsClean, WarningsAnswered
<1>4. Clean(draft)' /\ OilfieldContext(draft)' = OilfieldContext(draft)
  BY <1>1, <1>3 DEF Clean, OilfieldContext, Static
<1>5. Hard(soft) = {}
  BY UnacceptedSoft
<1>6. GateHolds'
  <2>1. SUFFICES ASSUME pub' # None PROVE GateHolds'
    BY <1>1 DEF GateHolds
  <2>2. passes
    BY <1>2, <2>1
  <2>3. pub' = [vs |-> vs, snap |-> Snap(draft), now |-> gate.now, back |-> val]
    BY <1>2, <2>2
  <2>4. phase' = "confirming" /\ draft.unit # None
    BY <1>1, <1>2, <2>2 DEF Complete
  <2>5. pub'.snap = <<draft'.unit, sver'>> /\ sver' \in 0..sver'
    BY <1>1, <2>3, <2>4 DEF Snap, IInv, TypeOK
  <2>6. pub'.vs = vs /\ Validate(draft, "publish")' = vs
    BY <1>1, <2>3 DEF Validate, Static, Notice, Telemetry, IsNow
  <2>7. (pub'.now => IsNow(draft)) /\ (IsNow(draft)' <=> IsNow(draft))
    BY <1>1, <2>3 DEF IsNow
  <2>8. Hard(pub'.vs) = {}
    BY <2>2, <2>6
  <2>9. ~Awaited' => IsNow(draft)'
    <3>1. ASSUME ~IsNow(draft) PROVE \E v \in vs : v.id = "C032"
      <4> DEFINE v == Violation("C032", {"start"}, draft.start)
      <4>1. v \in Notice(draft)
        BY <3>1 DEF Notice
      <4>2. v \in vs /\ v.id = "C032"
        BY <4>1 DEF Validate, Violation
      <4> QED
        BY <4>2
    <3> QED
      BY <2>6, <2>7, <3>1 DEF Awaited, Ids
  <2> QED
    BY <1>1, <2>4, <2>5, <2>6, <2>7, <2>8, <2>9 DEF GateHolds, Hard
<1>7. pub' # None => Ids(pub'.vs) \subseteq Ids(acks)
  <2>1. ASSUME passes PROVE Ids(vs) \subseteq Ids(acks)
    <3>1. Ids(vs) \subseteq Ids(acks) \cup Ids(soft)
      BY <2>1, UnacceptedAnswered DEF IInv, WarningsAnswered
    <3> QED
      BY <2>1, <3>1 DEF Ids
  <2> QED
    BY <1>2, <2>1
<1>8. WarningsAnswered'
  <2>1. phase' = "blocked_soft" => blocking' = soft
    BY <1>1, <1>2
  <2>2. Ids(pub.vs)' = Ids(pub'.vs) /\ Ids(acks)' = Ids(acks)
    BY <1>1 DEF Ids
  <2>3. Hard(blocking)' = Hard(blocking')
    BY DEF Hard
  <2>4. Ids(OilfieldContext(draft))' = Ids(OilfieldContext(draft))
    BY <1>4 DEF Ids
  <2> HIDE DEF soft
  <2> QED
    BY <1>1, <1>3, <1>5, <1>7, <2>1, <2>2, <2>3, <2>4 DEF IInv, WarningsAnswered
<1>9. ReadyIsClean'
  BY <1>4 DEF ReadyIsClean
<1> QED
  BY <1>6, <1>8, <1>9 DEF Rest


(* The robot is available: the gate is entered.                                *)
LEMMA PublishAvailableKeeps ==
  ASSUME IInv, PublishAvailable
  PROVE  Rest'
<1>1. /\ UNCHANGED <<phase, draft, blocking, acks, whitelist, pub, world>>
      /\ phase = "confirming" /\ pub = None /\ gate' = [now |-> IsNow(draft)]
  BY DEF PublishAvailable, Open
<1>2. gate'.now => IsNow(draft)'
  BY <1>1 DEF IsNow, world
<1>3. ReadyIsClean' /\ WarningsAnswered'
  BY <1>1 DEF IInv, ReadyIsClean, Clean, Static, OilfieldContext, WarningsAnswered, Ids, Hard
<1> QED
  BY <1>1, <1>2, <1>3 DEF Rest, GateHolds

(* The publication under way: rolled back or written.                          *)
LEMMA OvertakenKeeps ==
  ASSUME IInv, PublishOvertaken
  PROVE  Rest'
<1>1. pub # None /\ phase = "confirming" /\ gate = None
  BY DEF PublishOvertaken, IInv, GateHolds
<1>2. /\ draft' = draft /\ acks' = acks /\ whitelist' = whitelist /\ pub' = None /\ gate' = gate
      /\ \/ phase' = "confirming"
         \/ phase' = "blocked_soft" /\ Hard(blocking') = {}
  <2> DEFINE vs == Validate(draft, "publish")
  <2>1. ASSUME Hard(vs) = {} PROVE Hard(Unfiled(vs)) = {}
    BY <2>1 DEF Unfiled, Hard
  <2> QED
    BY <2>1 DEF PublishOvertaken, RollBack
<1> QED
  BY <1>1, <1>2 DEF IInv, Rest, ReadyIsClean, GateHolds, WarningsAnswered

LEMMA ReportKeeps ==
  ASSUME IInv, NEW r \in Readings, Report(r)
  PROVE  Rest'
<1>1. UNCHANGED <<phase, draft, blocking, acks, whitelist, gate, pub, arrived>> /\ sver' = sver + 1
  BY DEF Report, session
<1>2. ReadyIsClean' /\ WarningsAnswered'
  BY <1>1 DEF IInv, ReadyIsClean, Clean, Static, OilfieldContext, WarningsAnswered, Ids, Hard
<1>3. GateHolds'
  <2>1. SUFFICES ASSUME pub # None PROVE GateHolds'
    BY <1>1 DEF IInv, GateHolds, IsNow
  <2>2. PICK n \in 0..sver : pub.snap = <<draft.unit, n>>
    BY <2>1 DEF IInv, GateHolds
  <2>3. sver \in Nat /\ n # sver' /\ n \in 0..sver'
    BY <1>1, BoundsAssumption DEF IInv, TypeOK
  <2>4. phase = "confirming" /\ draft.unit # None /\ Hard(pub.vs) = {} /\ (pub.now => IsNow(draft))
    BY <2>1 DEF IInv, GateHolds
  <2>5. Hard(pub.vs)' = Hard(pub.vs) /\ (IsNow(draft)' <=> IsNow(draft)) /\ (Awaited' <=> Awaited)
    BY <1>1 DEF Hard, IsNow, Awaited, Ids
  <2> QED
    BY <1>1, <2>1, <2>2, <2>3, <2>4, <2>5 DEF IInv, GateHolds
<1> QED
  BY <1>2, <1>3 DEF Rest

(* When the start comes, a task that was to be done now is still to be.        *)
LEMMA ArrivalKeeps ==
  ASSUME IInv, StartArrives
  PROVE  Rest'
<1>1. UNCHANGED <<phase, draft, blocking, acks, whitelist, gate, pub, sea, sver>> /\ arrived' = TRUE
  BY DEF StartArrives, session
<1>2. ReadyIsClean' /\ WarningsAnswered'
  BY <1>1 DEF IInv, ReadyIsClean, Clean, Static, OilfieldContext, WarningsAnswered, Ids, Hard
<1>3. GateHolds'
  <2>1. SUFFICES ASSUME pub # None PROVE GateHolds'
    BY <1>1 DEF IInv, GateHolds, IsNow
  <2>2. PICK n \in 0..sver :
          /\ pub.snap = <<draft.unit, n>>
          /\ n = sver /\ (Awaited <=> ~IsNow(draft)) => pub.vs = Validate(draft, "publish")
    BY <2>1 DEF IInv, GateHolds
  <2>3. phase = "confirming" /\ draft.unit # None /\ Hard(pub.vs) = {} /\ (pub.now => IsNow(draft))
    BY <2>1 DEF IInv, GateHolds
  <2>4. IsNow(draft)'
    BY <1>1 DEF IsNow
  <2>5. IsNow(draft) => Validate(draft, "publish")' = Validate(draft, "publish")
    BY <1>1, <2>4 DEF Validate, Static, Notice, Telemetry
  <2>6. Hard(pub.vs)' = Hard(pub.vs) /\ (Awaited' <=> Awaited)
    BY <1>1 DEF Hard, Awaited, Ids
  <2>7. ~Awaited => IsNow(draft)
    BY <2>1 DEF IInv, GateHolds
  <2> QED
    BY <1>1, <2>1, <2>2, <2>3, <2>4, <2>5, <2>6, <2>7 DEF IInv, GateHolds
<1> QED
  BY <1>2, <1>3 DEF Rest

(* The inductive invariant: what stands decides the phase, and what the gate   *)
(* has let through is what was clean when it looked.                            *)
THEOREM InvariantHolds == Spec => []IInv
<1>1. ASSUME Init PROVE IInv
  <2>1. TypeOK
    BY <1>1, InitType
  <2> QED
    BY <1>1, <2>1 DEF Init, IInv, ReadyIsClean, GateHolds, WarningsAnswered
<1>2. ASSUME IInv, [Next]_vars PROVE IInv'
  <2> USE <1>2
  <2>1. TypeOK'
    BY StepType DEF IInv
  <2> SUFFICES Rest'
    BY <2>1 DEF IInv, Rest
  <2>2. ASSUME NEW e \in Edits, Turn(e) \/ ClarifyOilfield(e) PROVE Rest'
    BY <2>2, TurnKeeps, ClarifyKeeps
  <2>3. CASE Ignore
    BY <2>3, IgnoreKeeps
  <2>4. ASSUME NEW publish \in BOOLEAN, ConfirmBlocked(publish) PROVE Rest'
    <3>1. phase' \in {"collecting", "blocked_hard"} /\ pub' = None /\ gate' = None
      BY <2>4 DEF ConfirmBlocked, Open
    <3>2. whitelist' = whitelist /\ acks' = acks
      BY <2>4 DEF ConfirmBlocked
    <3> QED
      BY <3>1, <3>2 DEF IInv, Rest, ReadyIsClean, GateHolds, WarningsAnswered
  <2>5. CASE RefreshExternal
    BY <2>5, RefreshKeeps
  <2>6. CASE PublishUnavailable
    BY <2>6 DEF PublishUnavailable, Open, IInv, Rest, ReadyIsClean, GateHolds, WarningsAnswered
  <2>7. CASE PublishAvailable \/ PublishCheck
    BY <2>7, PublishAvailableKeeps, PublishCheckKeeps
  <2>8. CASE PublishOvertaken
    BY <2>8, OvertakenKeeps
  <2>9. CASE PublishWrite
    <3>1. phase = "confirming" /\ Clean(draft) /\ gate = None
      BY <2>9 DEF PublishWrite, IInv, GateHolds, ReadyIsClean
    <3> QED
      BY <2>9, <3>1 DEF PublishWrite, IInv, Rest, ReadyIsClean, GateHolds, WarningsAnswered
  <2>10. CASE PublishFails
    <3>1. phase = "confirming" /\ gate = None
      BY <2>10 DEF PublishFails, IInv, GateHolds
    <3> QED
      BY <2>10, <3>1 DEF PublishFails, RollBack, IInv, Rest, ReadyIsClean, GateHolds,
                         WarningsAnswered
  <2>11. CASE CancelDraft
    BY <2>11 DEF CancelDraft, Open, IInv, Rest, ReadyIsClean, GateHolds, WarningsAnswered
  <2>12. ASSUME NEW r \in Readings, Report(r) PROVE Rest'
    BY <2>12, ReportKeeps
  <2>13. CASE StartArrives
    BY <2>13, ArrivalKeeps
  <2>14. CASE UNCHANGED vars
    BY <2>14 DEF vars, session, world, IInv, Rest, ReadyIsClean, GateHolds, WarningsAnswered,
                 Clean, Static, OilfieldContext, Validate, Notice, Telemetry, IsNow, Hard, Ids, Awaited
  <2> QED
    BY <2>2, <2>3, <2>4, <2>5, <2>6, <2>7, <2>8, <2>9, <2>10, <2>11, <2>12, <2>13, <2>14
       DEF Next
<1> QED
  BY <1>1, <1>2, PTL DEF Spec

(* What the session offers to publish violates no hard constraint of its own   *)
(* fields: neither the validator's nor the oilfield linker's.                  *)
THEOREM ReadyDraftsAreClean == Spec => []ReadyIsClean
<1>1. IInv => ReadyIsClean
  BY DEF IInv
<1> QED
  BY <1>1, InvariantHolds, PTL

-------------------------------------------------------------------------------
(* The step that publishes, and what stands against the draft at that moment.  *)
LEMMA PublishesIsWrite ==
  ASSUME IInv, [Next]_vars, Publishes
  PROVE  PublishWrite
<1>1. pub # None /\ gate = None /\ phase = "confirming" /\ phase' = "done" /\ phase' # phase
  BY DEF Publishes, IInv, GateHolds
<1>2. ~PublishOvertaken /\ ~PublishFails
  BY <1>1 DEF PublishOvertaken, PublishFails, RollBack
<1>3. /\ ~Ignore /\ ~RefreshExternal /\ ~PublishUnavailable /\ ~PublishAvailable
      /\ ~PublishCheck /\ ~CancelDraft
      /\ \A e \in Edits : ~Turn(e) /\ ~ClarifyOilfield(e)
      /\ \A p \in BOOLEAN : ~ConfirmBlocked(p)
  BY <1>1 DEF Ignore, RefreshExternal, PublishUnavailable, PublishAvailable, PublishCheck,
              CancelDraft, Turn, ClarifyOilfield, ConfirmBlocked, Open
<1>4. /\ ~StartArrives /\ \A r \in Readings : ~Report(r)
      /\ ~UNCHANGED vars
  BY <1>1 DEF StartArrives, Report, session, vars
<1> QED
  BY <1>2, <1>3, <1>4 DEF Next

(* Unless telemetry overtook the gate, what the gate found still stands.       *)
LEMMA StandingIsEvidence ==
  ASSUME IInv, PublishWrite, Awaited <=> ~IsNow(draft)
  PROVE  Validate(draft, "publish") = Evidence
<1>1. CASE Overtaken
  BY <1>1 DEF Evidence
<1>2. CASE ~Overtaken
  <2>1. pub # None /\ pub.snap = Snap(draft)
    BY <1>2 DEF PublishWrite
  <2>2. PICK n \in 0..sver :
          /\ pub.snap = <<draft.unit, n>>
          /\ n = sver /\ (Awaited <=> ~IsNow(draft)) => pub.vs = Validate(draft, "publish")
    BY <2>1 DEF IInv, GateHolds
  <2>3. Snap(draft) = <<draft.unit, sver>>
    BY <2>1 DEF IInv, GateHolds, Snap
  <2>4. n = sver
    <3>1. <<draft.unit, n>> = <<draft.unit, sver>>
      BY <2>1, <2>2, <2>3
    <3>2. <<draft.unit, n>>[2] = n /\ <<draft.unit, sver>>[2] = sver
      OBVIOUS
    <3> QED
      BY <3>1, <3>2
  <2> QED
    BY <1>2, <2>2, <2>4 DEF Evidence
<1> QED
  BY <1>1, <1>2

(* No draft with a hard violation is published, telemetry that moves between   *)
(* the gate and the write included.                                            *)
THEOREM NoHardPublished == Spec => HardNeverPublished
<1>1. ASSUME IInv, [Next]_vars, Publishes PROVE Hard(Standing) = {}
  <2>1. PublishWrite
    BY <1>1, PublishesIsWrite
  <2>2. Hard(pub.vs) = {} /\ Clean(draft)
    BY <1>1 DEF Publishes, IInv, GateHolds, ReadyIsClean
  <2>3. Hard(Evidence) = {}
    BY <2>1, <2>2 DEF PublishWrite, Evidence
  <2>4. Hard(OilfieldContext(draft)) = {}
    BY <2>2 DEF Clean, Hard
  <2>5. (Awaited <=> ~IsNow(draft)) => Hard(Validate(draft, "publish")) = {}
    BY <1>1, <2>1, <2>3, StandingIsEvidence
  <2> QED
    BY <2>2, <2>4, <2>5 DEF Standing, Hard
<1>2. IInv /\ [Next]_vars => [Publishes => Hard(Standing) = {}]_vars
  BY <1>1
<1> QED
  BY <1>2, InvariantHolds, PTL DEF Spec, HardNeverPublished

(* Every kind of warning a published task carries was accepted by the user.    *)
THEOREM WarningsWereAccepted == Spec => PublishedWasAccepted
<1>1. ASSUME IInv, [Next]_vars, Publishes PROVE Ids(Standing) \subseteq Ids(acks)
  <2>1. PublishWrite
    BY <1>1, PublishesIsWrite
  <2>2. /\ Ids(pub.vs) \subseteq Ids(acks) /\ Ids(OilfieldContext(draft)) \subseteq Ids(acks)
        /\ (pub.now => IsNow(draft))
    BY <1>1 DEF Publishes, IInv, GateHolds, WarningsAnswered
  <2>3. Ids(Evidence) \subseteq Ids(acks)
    <3>1. CASE Overtaken
      <4>1. Unfiled(Evidence) = {} /\ IsNow(draft)
        BY <2>1, <2>2, <3>1 DEF PublishWrite, Overtaken
      <4>2. Ids(Evidence) # {"C032"}
        BY <3>1, <4>1 DEF Evidence, Validate, Static, Notice, Telemetry, Violation, Ids
      <4>3. \A v \in Evidence : v.id \in {a.id : a \in ValidAcks(Evidence)}
        BY <4>1, <4>2 DEF Unfiled
      <4>4. {a.id : a \in ValidAcks(Evidence)} \subseteq Ids(acks)
        BY DEF ValidAcks, Ids
      <4> QED
        BY <4>3, <4>4 DEF Ids
    <3>2. CASE ~Overtaken
      BY <2>2, <3>2 DEF Evidence
    <3> QED
      BY <3>1, <3>2
  <2>4. CASE Awaited <=> ~IsNow(draft)
    BY <1>1, <2>1, <2>2, <2>3, <2>4, StandingIsEvidence DEF Standing, Ids
  <2>5. CASE ~(Awaited <=> ~IsNow(draft))
    BY <2>2, <2>5 DEF Standing, Ids
  <2> QED
    BY <2>4, <2>5
<1>2. IInv /\ [Next]_vars => [Publishes => Ids(Standing) \subseteq Ids(acks)]_vars
  BY <1>1
<1> QED
  BY <1>2, InvariantHolds, PTL DEF Spec, PublishedWasAccepted

-------------------------------------------------------------------------------
(* What was accepted is not asked again.                                       *)

(* A constraint names the same fields whenever it is violated.                 *)
FieldsOf(id) ==
  IF id = "depth" THEN {"unit", "depth"}
  ELSE IF id = "C032" THEN {"start"}
  ELSE IF id \in {"C016", "C020"} THEN {"unit", "start"}
  ELSE IF id = "C028" THEN {"oilfield", "site"}
  ELSE {"oilfield", "depth"}
Shaped(vs) == \A v \in vs : v.fields = FieldsOf(v.id)

(* Each violation the draft may be found with, of a kind in ids, is passed over*)
(* for a field that has its value still.                                       *)
Covers(wl, d, v) ==
  \E f \in v.fields : FieldValue(d, f) # None /\ <<f, FieldValue(d, f), v.id>> \in wl
Covered(d, wl, ids) == \A v \in Merged(d, "publish") : v.id \in ids => Covers(wl, d, v)

(* While a publication that telemetry has overtaken is under way, nothing      *)
(* counts as accepted: its rollback may ask for everything again.              *)
AskedOnce ==
  /\ Shaped(blocking)
  /\ Covered(draft, whitelist, settled)
  /\ pub # None /\ Overtaken => settled = {}
  /\ NotAskedAgain

LEMMA MergedGrows ==
  ASSUME NEW d, NEW purpose
  PROVE  /\ Merged(d, purpose) \subseteq Merged(d, "publish")
         /\ Validate(d, purpose) \subseteq Merged(d, "publish")
  BY DEF Merged, Validate

LEMMA MergedShaped ==
  ASSUME NEW d, NEW purpose
  PROVE  Shaped(Merged(d, purpose)) /\ Shaped(Validate(d, purpose))
<1>1. Shaped(Static(d))
  BY DEF Shaped, Static, Violation, FieldsOf
<1>2. Shaped(Notice(d))
  BY DEF Shaped, Notice, Violation, FieldsOf
<1>3. Shaped(Telemetry(d))
  BY DEF Shaped, Telemetry, Violation, FieldsOf
<1>4. Shaped(OilfieldContext(d))
  BY DEF Shaped, OilfieldContext, Violation, FieldsOf
<1> QED
  BY <1>1, <1>2, <1>3, <1>4 DEF Shaped, Merged, Validate

(* A violation has a field with a value: what it objects to.                   *)
LEMMA Objected ==
  ASSUME TypeOK, NEW v \in Merged(draft, "publish")
  PROVE  \E f \in v.fields : FieldValue(draft, f) # None
<1>1. draft.site \in OffField => draft.site # None
  BY ValuesAssumption
<1>2. CASE v \in Static(draft)
  BY <1>2 DEF Static, Violation, FieldValue
<1>3. CASE v \in Notice(draft)
  <2>1. v.fields = {"start"} /\ draft.start = "later"
    BY <1>3 DEF Notice, IsNow, Violation
  <2> QED
    BY <2>1, ValuesAssumption DEF FieldValue
<1>4. CASE v \in Telemetry(draft) /\ draft.unit # None
  BY <1>4 DEF Telemetry, Violation, FieldValue
<1>5. CASE v \in OilfieldContext(draft)
  <2>1. draft.depth \in TooDeep => draft.depth # None
    BY ValuesAssumption
  <2>2. CASE draft.site \in OffField /\ "site" \in v.fields
    BY <1>1, <2>2 DEF FieldValue
  <2>3. CASE draft.depth \in TooDeep /\ "depth" \in v.fields
    BY <2>1, <2>3 DEF FieldValue
  <2> QED
    BY <1>5, <2>2, <2>3 DEF OilfieldContext, Violation
<1> QED
  BY <1>2, <1>3, <1>4, <1>5 DEF Merged, Validate

LEMMA Passed ==
  ASSUME NEW vs \in SUBSET Merged(draft, "publish"), NEW as, NEW wl, NEW ids,
         Covered(draft, wl, ids)
  PROVE  Ids(Unaccepted(vs, as, wl, draft)) \cap ids = {}
<1>1. ASSUME NEW v \in Unaccepted(vs, as, wl, draft), v.id \in ids PROVE FALSE
  BY <1>1 DEF Unaccepted, Covered, Covers, Whitelisted
<1> QED
  BY <1>1 DEF Ids

LEMMA JudgeShaped ==
  ASSUME Shaped(blocking), NEW ph, NEW d, NEW purpose, NEW wl
  PROVE  Shaped(Judge(ph, d, purpose, wl).blocking)
<1> DEFINE vs == Merged(d, purpose)
           soft == Unaccepted(vs, acks, wl, d)
<1>1. Shaped(vs)
  BY MergedShaped
<1>2. Shaped(Hard(vs) \cup soft) /\ Shaped(soft) /\ Shaped({})
  BY <1>1 DEF Shaped, Hard, Unaccepted
<1>3. Judge(ph, d, purpose, wl).blocking \in {blocking, Hard(vs) \cup soft, soft, {}}
  BY DEF Judge, Verdict
<1> QED
  BY <1>2, <1>3

(* A turn that writes nothing new takes nothing back.                          *)
LEMMA SameDraft ==
  ASSUME TypeOK, Covered(draft, whitelist, settled), NEW e \in Edits, Written(e) = draft
  PROVE  Covered(draft, Dropped(e), settled)
<1>1. ASSUME NEW f \in Changed(e) PROVE FieldValue(draft, f) = None
  <2>1. f \in Fields /\ f \in DOMAIN e
    BY ValuesAssumption DEF Changed
  <2>2. Written(e)[f] = e[f]
    BY <2>1 DEF Written
  <2> QED
    BY <2>1, <2>2 DEF Changed, FieldValue
<1>2. ASSUME NEW v, Covers(whitelist, draft, v) PROVE Covers(Dropped(e), draft, v)
  <2>1. PICK f \in v.fields :
          FieldValue(draft, f) # None /\ <<f, FieldValue(draft, f), v.id>> \in whitelist
    BY <1>2 DEF Covers
  <2>2. <<f, FieldValue(draft, f), v.id>>[1] = f /\ f \notin Changed(e)
    BY <1>1, <2>1
  <2> QED
    BY <2>1, <2>2 DEF Dropped, Covers
<1> QED
  BY <1>2 DEF Covered

LEMMA TurnAsksOnce ==
  ASSUME IInv, AskedOnce, NEW e \in Edits, Turn(e)
  PROVE  AskedOnce'
<1> DEFINE d == Written(e)
           ph == Committed(d)
           j == Judge(ph, d, Purpose(d), Dropped(e))
           weigh == \/ Complete(d) /\ ph # "blocked_soft"
                    \/ Changed(e) # {} \/ ph \in {"blocked_soft", "blocked_hard"} \/ Stale
<1>1. /\ draft' = d /\ whitelist' = Dropped(e) /\ pub' = None /\ world' = world
      /\ settled' = IF d = draft THEN settled ELSE {}
  BY DEF Turn, Moved, Open
<1>2. ph \in Phases \ {"done"}
  BY CommittedType DEF IInv
<1>3. Shaped(blocking')
  <2>1. Shaped(j.blocking) /\ Shaped(Verdict(ph, blocking, counts).blocking)
    BY JudgeShaped DEF AskedOnce, Verdict
  <2> QED
    BY <2>1 DEF Turn
<1>4. Covered(draft, whitelist, settled)'
  <2>1. CASE d = draft
    <3>1. Covered(draft, Dropped(e), settled)
      BY <2>1, SameDraft DEF AskedOnce, IInv
    <3> QED
      BY <1>1, <2>1, <3>1 DEF Covered, Covers, FieldValue, Merged, Validate, Static, Notice,
                              Telemetry, OilfieldContext, IsNow, world
  <2>2. CASE d # draft
    BY <1>1, <2>2 DEF Covered
  <2> QED
    BY <2>1, <2>2
<1>5. NotAskedAgain'
  <2>1. SUFFICES ASSUME phase' = "blocked_soft", d = draft
                 PROVE  Ids(blocking') \cap settled' = {}
    BY <1>1 DEF NotAskedAgain
  <2>2. weigh
    <3>1. ASSUME ~weigh PROVE phase' = ph /\ ph # "blocked_soft" /\ ~Complete(d)
      BY <3>1 DEF Turn, Verdict
    <3> QED
      BY <2>1, <3>1
  <2>3. /\ phase' = IF Complete(d) /\ j.phase = "collecting" THEN "confirming" ELSE j.phase
        /\ blocking' = j.blocking
    BY <2>2 DEF Turn
  <2>4. j.phase = "blocked_soft"
    BY <2>1, <2>3
  <2>5. blocking' = Unaccepted(Merged(d, Purpose(d)), acks, Dropped(e), d)
    BY <1>2, <2>3, <2>4, JudgeSound
  <2>6. Covered(draft, Dropped(e), settled)
    BY <2>1, SameDraft DEF AskedOnce, IInv
  <2>7. Ids(blocking') \cap settled = {}
    BY <2>1, <2>5, <2>6, MergedGrows, Passed
  <2> QED
    BY <1>1, <2>1, <2>7
<1> QED
  BY <1>1, <1>3, <1>4, <1>5 DEF AskedOnce

(* What is accepted stands in the whitelist under every field that has a value.*)
LEMMA IgnoreAsksOnce ==
  ASSUME IInv, AskedOnce, Ignore
  PROVE  AskedOnce'
<1> DEFINE vs == Validate(draft, Purpose(draft))
           soft == Unaccepted(vs, Acknowledged(draft), Accepted(draft), draft)
<1>1. /\ draft' = draft /\ world' = world /\ pub' = None
      /\ whitelist' = Accepted(draft) /\ settled' = settled \cup Ids(blocking)
      /\ phase' = "blocked_soft" => Hard(vs) = {}
      /\ blocking' = IF Hard(vs) # {} THEN Hard(vs) ELSE soft
  BY DEF Ignore, Open
<1>2. Shaped(blocking')
  <2>1. Shaped(vs)
    BY MergedShaped
  <2> QED
    BY <1>1, <2>1 DEF Shaped, Hard, Unaccepted
<1>3. Covered(draft, Accepted(draft), settled \cup Ids(blocking))
  <2>1. ASSUME NEW v \in Merged(draft, "publish"), v.id \in settled
        PROVE  Covers(Accepted(draft), draft, v)
    BY <2>1 DEF AskedOnce, Covered, Covers, Accepted
  <2>2. ASSUME NEW v \in Merged(draft, "publish"), NEW b \in blocking, b.id = v.id
        PROVE  Covers(Accepted(draft), draft, v)
    <3>1. v.fields = b.fields
      BY <2>2, MergedShaped DEF AskedOnce, Shaped
    <3>2. PICK f \in v.fields : FieldValue(draft, f) # None
      BY Objected DEF IInv
    <3>3. <<f, FieldValue(draft, f), b.id>> \in Accepted(draft)
      BY <3>1, <3>2 DEF Accepted
    <3> QED
      BY <2>2, <3>2, <3>3 DEF Covers
  <2> QED
    BY <2>1, <2>2 DEF Covered, Ids
<1>4. Covered(draft, whitelist, settled)'
  BY <1>1, <1>3 DEF Covered, Covers, FieldValue, Merged, Validate, Static, Notice, Telemetry,
                    OilfieldContext, IsNow, world
<1>5. Ids(soft) \cap (settled \cup Ids(blocking)) = {}
  BY <1>3, MergedGrows, Passed
<1>6. NotAskedAgain'
  <2>1. phase' = "blocked_soft" => Ids(blocking') = Ids(soft)
    BY <1>1
  <2>2. Ids(blocking)' = Ids(blocking')
    BY DEF Ids
  <2> HIDE DEF soft
  <2> QED
    BY <1>1, <1>5, <2>1, <2>2 DEF NotAskedAgain
<1> QED
  BY <1>1, <1>2, <1>4, <1>6 DEF AskedOnce

(* The steps that leave the draft and the world as they are, and accept nothing*)
LEMMA StillAsksOnce ==
  ASSUME IInv, AskedOnce, UNCHANGED <<draft, whitelist, world, settled>>,
         Shaped(blocking'),
         pub' # None => pub' = pub \/ pub'.snap = Snap(draft),
         phase' = "blocked_soft" =>
           \/ settled = {}
           \/ phase = "blocked_soft" /\ blocking' = blocking
           \/ \E vs \in SUBSET Merged(draft, "publish") :
                blocking' = Unaccepted(vs, acks, whitelist, draft)
  PROVE  AskedOnce'
<1>1. Covered(draft, whitelist, settled)'
  BY DEF AskedOnce, Covered, Covers, FieldValue, Merged, Validate, Static, Notice, Telemetry,
         OilfieldContext, IsNow, world
<1>2. Snap(draft)' = Snap(draft)
  BY DEF Snap, world
<1>3. (pub # None /\ Overtaken => settled = {})'
  BY <1>2 DEF AskedOnce, Overtaken
<1>4. \A vs \in SUBSET Merged(draft, "publish") :
        Ids(Unaccepted(vs, acks, whitelist, draft)) \cap settled = {}
  BY Passed DEF AskedOnce
<1>5. NotAskedAgain'
  BY <1>4 DEF AskedOnce, NotAskedAgain, Ids
<1> QED
  BY <1>1, <1>3, <1>5 DEF AskedOnce

LEMMA StepAsksOnce ==
  ASSUME IInv, AskedOnce, [Next]_vars
  PROVE  AskedOnce'
<1>1. ASSUME NEW e \in Edits, ClarifyOilfield(e) PROVE AskedOnce'
  <2>1. /\ phase' = "collecting" /\ blocking' = blocking /\ pub' = None /\ world' = world
        /\ draft' = Written(e) /\ whitelist' = Dropped(e)
        /\ settled' = IF Written(e) = draft THEN settled ELSE {}
    BY <1>1 DEF ClarifyOilfield, Moved, Open
  <2>2. Covered(draft, whitelist, settled)'
    <3>1. CASE Written(e) = draft
      <4>1. Covered(draft, Dropped(e), settled)
        BY <3>1, SameDraft DEF AskedOnce, IInv
      <4> QED
        BY <2>1, <3>1, <4>1 DEF Covered, Covers, FieldValue, Merged, Validate, Static, Notice,
                                Telemetry, OilfieldContext, IsNow, world
    <3>2. CASE Written(e) # draft
      BY <2>1, <3>2 DEF Covered
    <3> QED
      BY <3>1, <3>2
  <2> QED
    BY <2>1, <2>2 DEF AskedOnce, NotAskedAgain, Shaped
<1>2. ASSUME NEW publish \in BOOLEAN, ConfirmBlocked(publish) PROVE AskedOnce'
  <2>1. /\ UNCHANGED <<draft, whitelist, world, settled>> /\ pub' = None
        /\ phase' \in {"collecting", "blocked_hard"}
    BY <1>2 DEF ConfirmBlocked, Open
  <2>2. Shaped(blocking')
    <3>1. \A purpose : Shaped(Hard(Validate(draft, purpose)))
      BY MergedShaped DEF Shaped, Hard
    <3>2. Shaped(blocking) /\ Shaped(Hard(blocking)) /\ Shaped({})
      BY DEF AskedOnce, Shaped, Hard
    <3> QED
      BY <1>2, <3>1, <3>2 DEF ConfirmBlocked
  <2> QED
    BY <2>1, <2>2, StillAsksOnce
<1>3. CASE RefreshExternal
  <2>1. PICK purpose :
          LET vs == Merged(draft, purpose)
              soft == Unaccepted(vs, acks, whitelist, draft)
          IN  /\ phase' = "blocked_soft" => blocking' = soft
              /\ blocking' \in {Hard(vs), soft}
    BY <1>3 DEF RefreshExternal
  <2>2. UNCHANGED <<draft, whitelist, world, settled>> /\ pub' = None
    BY <1>3 DEF RefreshExternal, Open
  <2>3. Shaped(blocking')
    BY <2>1, MergedShaped DEF Shaped, Hard, Unaccepted
  <2>4. Merged(draft, purpose) \in SUBSET Merged(draft, "publish")
    BY MergedGrows
  <2> QED
    BY <2>1, <2>2, <2>3, <2>4, StillAsksOnce
<1>4. CASE PublishUnavailable \/ PublishAvailable
  <2>1. /\ UNCHANGED <<draft, whitelist, world, settled, blocking, pub>>
        /\ phase' \in {"blocked_hard", "confirming"}
    BY <1>4 DEF PublishUnavailable, PublishAvailable
  <2> QED
    BY <2>1, StillAsksOnce DEF AskedOnce
<1>5. CASE PublishCheck
  <2> DEFINE vs == Validate(draft, "publish")
             soft == Unaccepted(vs, acks, whitelist, draft)
  <2>1. /\ UNCHANGED <<draft, whitelist, world, settled>>
        /\ phase' = "blocked_soft" => blocking' = soft
        /\ blocking' \in {Hard(vs), soft, blocking}
        /\ pub' # None => pub'.snap = Snap(draft)
    <3>1. phase = "confirming"
      BY <1>5 DEF PublishCheck, IInv, GateHolds
    <3> QED
      BY <1>5, <3>1 DEF PublishCheck
  <2>2. Shaped(vs) /\ Shaped(blocking)
    BY MergedShaped DEF AskedOnce
  <2>3. Shaped(blocking')
    BY <2>1, <2>2 DEF Shaped, Hard, Unaccepted
  <2>4. vs \in SUBSET Merged(draft, "publish")
    BY MergedGrows
  <2> QED
    BY <2>1, <2>3, <2>4, StillAsksOnce
<1>6. CASE PublishOvertaken
  <2>1. /\ UNCHANGED <<draft, whitelist, world, settled>> /\ pub' = None /\ settled = {}
        /\ blocking' \in {blocking, Unfiled(Validate(draft, "publish"))}
    BY <1>6 DEF PublishOvertaken, RollBack, AskedOnce
  <2>2. Shaped(blocking')
    BY <2>1, MergedShaped DEF AskedOnce, Shaped, Unfiled
  <2> QED
    BY <2>1, <2>2, StillAsksOnce
<1>7. CASE PublishWrite \/ PublishFails
  <2>1. /\ UNCHANGED <<draft, whitelist, world, settled, blocking>> /\ pub' = None
        /\ phase' \in {"done", "confirming"}
    BY <1>7 DEF PublishWrite, PublishFails, RollBack
  <2> QED
    BY <2>1, StillAsksOnce DEF AskedOnce
<1>8. CASE CancelDraft
  BY <1>8 DEF CancelDraft, Open, AskedOnce, Shaped, Covered, NotAskedAgain
<1>9. ASSUME settled' = {}, UNCHANGED session PROVE AskedOnce'
  BY <1>9 DEF session, AskedOnce, Shaped, Covered, NotAskedAgain
<1>10. CASE UNCHANGED vars
  <2>1. UNCHANGED <<draft, whitelist, world, settled, blocking, pub, phase>>
    BY <1>10 DEF vars, session
  <2> QED
    BY <2>1, StillAsksOnce DEF AskedOnce
<1>11. CASE StartArrives \/ \E r \in Readings : Report(r)
  BY <1>9, <1>11 DEF StartArrives, Report
<1> QED
  BY <1>1, <1>2, <1>3, <1>4, <1>5, <1>6, <1>7, <1>8, <1>10, <1>11, TurnAsksOnce,
     IgnoreAsksOnce DEF Next

(* NotAskedAgain: an acceptance is remembered under every field that has a     *)
(* value, and each violation of its kind names one of these; so neither a      *)
(* refresh, a turn without news nor a failed publication asks for it again     *)
(* until the draft, the telemetry or the clock has moved.                      *)
THEOREM AcceptedNotAsked == Spec => []NotAskedAgain
<1>1. Init => AskedOnce
  BY DEF Init, AskedOnce, Shaped, Covered, NotAskedAgain
<1>2. IInv /\ AskedOnce /\ [Next]_vars => AskedOnce'
  BY StepAsksOnce
<1>3. AskedOnce => NotAskedAgain
  BY DEF AskedOnce
<1> QED
  BY <1>1, <1>2, <1>3, InvariantHolds, PTL DEF Spec

=============================================================================
