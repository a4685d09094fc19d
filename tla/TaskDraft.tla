------------------------------ MODULE TaskDraft ------------------------------
(* One draft through its turns.  A turn works on a copy of the slots: it       *)
(* settles the task type, evaluates the payload edit in the state the turn     *)
(* would lead to, writes what it was told, applies the selectors, validates    *)
(* every field and lets the automatic choice close what only one robot can     *)
(* fill; the copy is then committed as a whole.  What a message means is up    *)
(* to the language model: a turn may name any of the updates in Inputs.        *)
EXTENDS EquipmentCascade

CONSTANTS Inputs,   \* the updates a turn may carry
          Watched   \* the units whose telemetry changes

VARIABLES
  task,      \* the valid task type, None before one is known
  reserved,  \* the task id is reserved, not a preview
  slots,     \* the committed slots
  down,      \* units that cannot be used now
  said       \* what the last turn named (history)

vars == <<task, reserved, slots, down, said>>

(* History apart, for the runs that only need the last turn in a step.        *)
Draft == <<task, reserved, slots, down>>

Fields == {"depth", "start", "payload"}
Keys == Selectors \cup Fields
(* mutant: the payload goes along to the next task *)
RobotsOnly == Selectors
NonInherited == Selectors \cup {"payload"}

Empty == [k \in Keys |-> Missing]

(* What the grounding of a message may hand over.                              *)
ASSUME InputsAreGrounded ==
  \A up \in Inputs :
    /\ DOMAIN up \subseteq Keys \cup {"task"}
    /\ "task" \in DOMAIN up => up["task"] \in Tasks
    /\ "class" \in DOMAIN up => up["class"] \in Classes \cup {Unknown}
    /\ "family" \in DOMAIN up => up["family"] \in Families \cup {Unknown}
    /\ "type" \in DOMAIN up => up["type"] \in Variants \cup {Unknown}
    /\ "unit" \in DOMAIN up => up["unit"] \in Units \cup {Unknown}
    /\ \A k \in {"depth", "start"} \cap DOMAIN up : up[k] # None

ASSUME WatchedAreUnits == Watched \subseteq Units

TypeOK ==
  /\ task \in Tasks \cup {None}
  /\ reserved \in BOOLEAN
  /\ down \subseteq Units
  /\ said \subseteq {"task", "robot", "payload"}
  /\ DOMAIN slots = Keys
  /\ \A k \in Keys :
       /\ slots[k].st \in {"missing", "valid", "invalid", "conflict"}
       /\ slots[k].src \in Sources
       /\ slots[k].st = "missing" => slots[k].val = None

(************************** reading the turn's updates ************************)
Only(up, ks) == [k \in DOMAIN up \cap ks |-> up[k]]
With(up, k, v) == [j \in DOMAIN up \cup {k} |-> IF j = k THEN v ELSE up[j]]

Target(up, t) == IF Given(up, "task") = None THEN t ELSE up["task"]
Locked(up, t, id) == id /\ Target(up, t) # t
Effective(up, t, id) == IF Locked(up, t, id) THEN t ELSE Target(up, t)
Switches(up, t, id) == Effective(up, t, id) # t

SelectorsOf(up) ==
  Lineage(Given(up, "class"), Given(up, "family"), Given(up, "type"), Given(up, "unit"))

(* The robots a turn names, seen alone: their line replaces the old one.       *)
Alone(s, line) ==
  Over([k \in Selectors |-> IF line[k] = None THEN Missing ELSE Slot("valid", line[k], "user")],
       s)
ProjectedOn(s, line, t) == IF line = None THEN s ELSE AutoCollapse(Alone(s, line), t, down)
Projected(s, up, t) == ProjectedOn(s, Canonical(SelectorsOf(up), t), t)

Names(up) == SelectorsOf(up) # NoLineage
Fails(up, t) == Names(up) /\ Canonical(SelectorsOf(up), t) = None

(* Shared facts of the turn are already seen by the target task.               *)
Foreseen(s, up, t, id) ==
  LET told == {k \in {"depth", "start"} \cap DOMAIN up : up[k] # Unknown}
  IN  IF ~Switches(up, t, id) THEN s
      ELSE Over([k \in {j \in told : s[j].st \in {"missing", "valid"}} |->
                   Slot("valid", up[k], "user")], Clear(s, NonInherited))

(************************** the payload edit **********************************)
(* Tools built into the robot are passed over; an edit of nothing else fails.  *)
(* Against an empty catalog no name resolves: nothing is added and no tool of  *)
(* the old list is found again.                                                *)
Edited(edit, old, choices, onboard) ==
  LET items == edit.items
      kept == items \ onboard
      known == items \subseteq choices \cup onboard
      found == IF choices = {} THEN {} ELSE old
      told == known /\ (items = {} \/ kept # {})
  IN  CASE edit.op = "set" /\ told -> kept
        [] edit.op = "add" /\ told -> old \cup kept
        [] edit.op = "remove" /\ items \subseteq found \cup onboard -> old \ (items \cap found)
        [] /\ edit.op = "replace" /\ known /\ kept # {}
           /\ edit.targets # {} /\ edit.targets \subseteq found \cup onboard ->
             (old \ (edit.targets \cap found)) \cup kept
        [] edit.op = "clear" -> {}
        [] OTHER -> None

(* Robots that were chosen automatically make way for a payload.               *)
Automatic(s) == {k \in Selectors : s[k].src = "auto" /\ Depth[k] > DeepestExplicit(s)}

EditSeenBy(seen, up, eff) ==
  LET context == Automatic(seen)
      open == Clear(seen, context)
      type == IF Fails(up, eff) THEN None ELSE Val(open, "type")
      old == IF open["payload"].val = None THEN {} ELSE open["payload"].val
      fitted == IF Val(open, "type") = None THEN {} ELSE Onboard[Val(open, "type")]
  IN  [new |-> Edited(up["payload"], old, PayloadChoices(type, eff), fitted),
       context |-> context]

NoEdit == [new |-> None, context |-> {}]
PayloadEdit(s, up, t, id) ==
  LET eff == Effective(up, t, id)
  IN  IF "payload" \in DOMAIN up
      THEN EditSeenBy(Projected(Foreseen(s, up, t, id), up, eff), up, eff) ELSE NoEdit

(************************** applying the updates ******************************)
Written(s, k, val, overwrite) ==
  IF Val(s, k) \notin {None, val} /\ ~overwrite THEN Slot("conflict", s[k].val, "user")
  ELSE Slot("candidate", val, "user")

NotNormal(s, k) ==
  IF Held(s, k) THEN Slot("conflict", s[k].val, "user") ELSE Slot("invalid", None, "user")

HandleTaskType(s, target, old) ==
  LET loose == {k \in Selectors : s[k].st \in {"candidate", "conflict", "invalid"}}
      first == CHOOSE k \in loose : \A j \in loose : Depth[k] <= Depth[j]
      free == IF target # old /\ loose # {} THEN Unseat(s, first) ELSE s
  IN  AutoCollapse(free, target, down)

(* An empty catalog does not mean that nothing is allowed: the payload is then *)
(* taken unchecked.                                                            *)
Allowed(p, choices) == choices = {} \/ p \subseteq choices

NormalFields(up, choices) ==
  {k \in DOMAIN up \cap Fields :
     IF k = "payload" THEN Allowed(up[k], choices) ELSE up[k] # Unknown}

FieldsWritten(s, up, normal, overwrite) ==
  Over([k \in DOMAIN up \cap Fields |->
          IF k \in normal THEN Written(s, k, up[k], overwrite) ELSE NotNormal(s, k)], s)

Named(s, up) ==
  Over([k \in DOMAIN up \cap Selectors |-> Slot(s[k].st, s[k].val, "user")], s)

ApplyNormal(s, up, normal, t, id, overwrite) ==
  LET eff == Effective(up, t, id)
      written == FieldsWritten(s, up, normal, overwrite)
      typed == IF Given(up, "task") = None \/ Locked(up, t, id) THEN written
               ELSE HandleTaskType(written, eff, t)
      robots == HandleEquipmentUpdates(typed, Only(up, Selectors \cup normal), eff, overwrite)
  IN  AutoCollapse(Named(robots, up), eff, down)

ApplyUpdates(s, up, t, id, overwrite) ==
  LET eff == Effective(up, t, id)
      choices == PayloadChoices(Val(Projected(s, up, eff), "type"), eff)
  IN  ApplyNormal(s, up, NormalFields(up, choices), t, id, overwrite)

(* A told value the user takes back leaves the value before it, where the turn *)
(* has not already emptied the slot.                                           *)
Cancelled(s, ks) ==
  Over([k \in {j \in ks : s[j].st = "conflict"} |-> Slot("valid", s[k].val, s[k].src)], s)

ExtractedWith(edit, s, up, t, id, cancel, overwrite) ==
  LET done == edit.new # None
      upd == IF done THEN With(up, "payload", edit.new)
             ELSE Only(up, DOMAIN up \ {"payload"})
      open == IF done THEN Clear(s, {k \in edit.context : s[k].src = "auto"}) ELSE s
      clean == IF Switches(up, t, id) THEN Clear(open, NonInherited) ELSE open
  IN  ApplyUpdates(Cancelled(clean, cancel \ DOMAIN upd), upd, t, id, overwrite)

Extracted(s, up, t, id, cancel, overwrite) ==
  ExtractedWith(PayloadEdit(s, up, t, id), s, up, t, id, cancel, overwrite)

NormalizeAndValidate(s, t) ==
  LET type == Val(s, "type")
      filled == {k \in Fields : s[k].st \in {"valid", "candidate"} /\ s[k].val # None}
      Bad(k) == k = "payload" /\ ~Allowed(s[k].val, PayloadChoices(type, t))
      valid == Over([k \in filled |->
                       IF k = "payload" /\ s[k].val = {} THEN Missing
                       ELSE Slot(IF Bad(k) THEN "invalid" ELSE "valid", s[k].val, s[k].src)], s)
  IN  AutoCollapse(valid, t, down)

(* The turn that names the task first applies it alone; what else it says may  *)
(* then not move what the automatic choice has just bound.                     *)
AfterTurn(up, cancel) ==
  IF task # None THEN Extracted(slots, up, task, reserved, cancel, TRUE)
  ELSE Extracted(ApplyUpdates(slots, Only(up, {"task"}), None, FALSE, FALSE),
                 Only(up, DOMAIN up \ {"task"}), up["task"], FALSE, cancel, FALSE)

Turn(up, cancel) ==
  /\ task = None => "task" \in DOMAIN up
  /\ task' = Effective(up, task, reserved)
  /\ slots' = NormalizeAndValidate(AfterTurn(up, cancel), task')
  /\ said' = {c \in {"task", "payload"} : c \in DOMAIN up}
             \cup (IF Names(up) THEN {"robot"} ELSE {})
  /\ UNCHANGED <<reserved, down>>

(************************** the world around the draft ************************)
Conflicts == {k \in Keys : slots[k].st = "conflict"}
Complete == \A k \in Keys : Val(slots, k) # None

(* Publishing a complete task reserves its id; a published draft can be edited *)
(* again and keeps the id, and with it the task.                               *)
ReserveId ==
  /\ task # None /\ Complete /\ ~reserved
  /\ reserved' = TRUE
  /\ UNCHANGED <<task, slots, down, said>>

(* Telemetry: a unit goes out of use or comes back.                            *)
Report(w) ==
  /\ down' = IF w \in down THEN down \ {w} ELSE down \cup {w}
  /\ UNCHANGED <<task, reserved, slots, said>>

NewTask ==
  /\ task' = None /\ reserved' = FALSE /\ slots' = Empty /\ said' = {}
  /\ UNCHANGED down

Init == task = None /\ reserved = FALSE /\ slots = Empty /\ down = {} /\ said = {}

Next ==
  \/ \E up \in Inputs, cancel \in {{}, Conflicts} : Turn(up, cancel)
  \/ ReserveId
  \/ \E w \in Watched : Report(w)
  \/ NewTask

Spec == Init /\ [][Next]_vars

(****************************** properties ***********************************)
(* The valid selectors of a draft name one line of the fleet, and the task     *)
(* admits it, whatever order robots, payload and task were told in and         *)
(* whatever was refused on the way.                                            *)
OneLineage ==
  task # None /\ Selected(slots) # NoLineage => Canonical(Selected(slots), task) # None

(* The robot the draft ends up with carries the chosen payload, built in or    *)
(* fitted, also when the automatic choice bound it after the payload was       *)
(* checked against the tools the task offers.  A robot whose catalog lists no  *)
(* payload is the exception: against an empty list nothing is checked.         *)
PayloadCarried ==
  LET v == Val(slots, "type")
      p == Val(slots, "payload")
  IN  p # None /\ v # None /\ Supported[v] # {} => p \subseteq Onboard[v] \cup Supported[v]

(* What catalog_resolver.py says of it: once a robot is chosen only tools that *)
(* can be fitted are legal.  The automatic choice takes built-in ones too, and *)
(* a robot that cannot be fitted with anything takes any.                      *)
PayloadFits ==
  Val(slots, "payload") # None /\ Val(slots, "type") # None
    => Val(slots, "payload") \subseteq Supported[Val(slots, "type")]

(* What the draft chose by itself below the user's own choice is never a guess: *)
(* it was the only robot the new state of the draft left open.                 *)
Forced(s, t) ==
  LET d == Domain(t, Need(s))
      Free(k) == IsAuto(s, k) /\ Depth[k] > DeepestExplicit(s)
  IN  /\ Free("class") => ClassesOf(d) = {ClassId(s["class"].val)}
      /\ Free("family") => {f \in FamiliesOf(d) : ClassOf[f] = ClassId(Val(s, "class"))}
                              = {s["family"].val}
      /\ Free("type") => {v \in d : FamilyOf[v] = Val(s, "family")} = {s["type"].val}
      /\ Free("unit") => FreeUnits(Val(s, "type"), Val(s, "start") = "soon", down)
                            = {s["unit"].val}
AutoIsForced == [][task' # None /\ slots' # slots => Forced(slots', task')]_vars

(* With no conflict to take back, a turn that names neither a robot nor a task *)
(* leaves the robots the user chose as they were, although every turn          *)
(* recomputes the robots it may choose by itself.  A turn that does not edit   *)
(* the payload leaves one that is legal and plain: offered by the task and     *)
(* built into no robot that cannot be fitted with it.  For the others a robot  *)
(* bound in the middle of the turn, before a new depth counts, may object.     *)
PlainAndLegal ==
  LET p == Val(slots, "payload")
  IN  /\ p # None /\ p \subseteq PayloadChoices(Val(slots, "type"), task)
      /\ p \subseteq Common[task]
      /\ \A v \in Variants : p \cap Onboard[v] \subseteq Supported[v]

UserChoiceKept ==
  [][task' # None /\ said' \cap {"robot", "task"} = {} /\ Conflicts = {}
       => /\ \A k \in Selectors : Val(slots, k) # None /\ slots[k].src = "user"
                                    => slots'[k] = slots[k]
          /\ "payload" \notin said' /\ PlainAndLegal => slots'["payload"] = slots["payload"]]_vars

(* Another task starts without the robots and the payload chosen for the       *)
(* last one, unless the same turn names new ones.                              *)
SwitchStartsClean ==
  [][task # None /\ task' \notin {None, task}
     => /\ "robot" \notin said' => DeepestExplicit(slots') = 0
        /\ "payload" \notin said' => Val(slots', "payload") = None]_vars
=============================================================================
