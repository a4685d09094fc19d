------------------------------- MODULE TimeEdit -------------------------------
(***************************************************************************)
(* How a turn changes the start and the end of a task. The user states       *)
(* instants, shifts and lengths, refuses, withdraws or holds on to some, and   *)
(* a language model proposes endpoints and a relation of its own; what the      *)
(* user said decides what these proposals may still do. Start, duration and end  *)
(* are then made to agree, or the edit is questioned and nothing derived from it  *)
(* is written.                                                                     *)
(*                                                                                 *)
(*   src/src/temporal/temporal_parser.py            grounding and policy           *)
(*   src/src/temporal/context/time_range_engine.py  the arithmetic                 *)
(*                                                                                 *)
(* Instants are numbers; the wording of a statement and of a proposal's evidence   *)
(* is one of the kinds below.                                                      *)
(***************************************************************************)
EXTENDS Integers, FiniteSets

CONSTANTS Instants,   \* what the draft may hold
          Messages,   \* what a turn may say: sets of statements
          Guesses,    \* what the model may make of it
          None

Endpoints == {"start", "end"}
Fields    == Endpoints \cup {"length"}

\* "at": a stated value. "clock": an instant that names no field. "by": a shift.
\* "not": a shift that is refused. "ask": one that is asked about, conditional or past.
\* "keep": the field is to stay. "cancel": what is said of the field is withdrawn.
\* "pause": no time is to change.
Statement == [of: Fields, kind: {"at", "by", "not", "ask", "keep", "cancel"}, n: Int]
             \cup [of: {None}, kind: {"clock", "pause"}, n: Int]

\* What a proposal quotes: an unlabelled clock of the turn, an amount of it, words
\* the user refuses, words the user did not say, or nothing.
Sources  == {"clock", "amount", "refused", "made up", "blank"}
Proposal == [n: Int, from: Sources]
Relation == [act: {"set", "add", "sub", "keep"}, of: Fields, n: Nat]
Guess    == [start: Proposal \cup {None}, end: Proposal \cup {None},
             relation: Relation \cup {None}]

\* Of two shifts of a field in one turn only the last counts: a turn holds one.
OneShift(m) == \A s, t \in m : s.kind = "by" /\ t.kind = "by" /\ s.of = t.of => s = t

ASSUME TimeEditAssumption ==
  /\ Instants \subseteq Int /\ None \notin Instants
  /\ \A m \in Messages : m \subseteq Statement /\ OneShift(m)
  /\ Guesses \subseteq Guess

VARIABLES times,  \* the draft's start and end
          turn    \* what the last turn said (history)

vars == <<times, turn>>

-----------------------------------------------------------------------------
(* Reading the turn *)

Stated(m, k, kind) == {s.n : s \in {s \in m : s.of = k /\ s.kind = kind}}
Says(m, kind)      == {s.of : s \in {s \in m : s.kind = kind}}

\* A shift whose very amount is refused in the same turn is no shift; asking about
\* it, or telling of an earlier one, takes nothing back.
ShiftsUnasked(m) ==  \* mutant: a question rules the amount out, as a refusal does
  LET void(k) == Stated(m, k, "not") \cup Stated(m, k, "ask")
      meant == {k \in Says(m, "by") : ~(Stated(m, k, "by") \subseteq void(k))}
  IN  [k \in meant |-> CHOOSE n \in Stated(m, k, "by") : TRUE]
Shifts(m) ==
  LET meant == {k \in Says(m, "by") : ~(Stated(m, k, "by") \subseteq Stated(m, k, "not"))}
  IN  [k \in meant |-> CHOOSE n \in Stated(m, k, "by") : TRUE]

\* Shifts spoken of but not asked for, and all clauses that hold an amount of time.
Spoken(m)  == {s \in m : s.kind \in {"not", "ask"}}
Amounts(m) == Spoken(m) \cup {s \in m : s.kind = "by" \/ (s.of = "length" /\ s.kind \in {"at", "keep"})}

Heard(m) ==
  LET cancelled == Says(m, "cancel")
      shifts == Shifts(m)
  IN  [cancelled |-> cancelled,
       by        |-> [k \in DOMAIN shifts \ cancelled |-> shifts[k]],
       ignored   |-> {s.of : s \in Spoken(m)} \ DOMAIN shifts,
       at        |-> [k \in Says(m, "at") \ cancelled |-> CHOOSE n \in Stated(m, k, "at") : TRUE],
       lengths   |-> Stated(m, "length", "at"),  \* withdrawn ones included
       twice     |-> \E k \in Fields \ cancelled : Cardinality(Stated(m, k, "at")) > 1,
       keep      |-> Says(m, "keep") \ cancelled,
       amounts   |-> Amounts(m) # {},
       refused   |-> Amounts(m) # {} /\ Amounts(m) \subseteq Spoken(m),
       paused    |-> Says(m, "pause") # {}]

-----------------------------------------------------------------------------
(* Grounding: which endpoints and which relation stand *)

\* An inferred end belongs to the start or the duration that is withdrawn.
Withdrawn(h) ==
  (h.cancelled \cap Endpoints)
  \cup IF h.cancelled \cap {"start", "length"} # {} /\ "end" \notin DOMAIN h.at \cup DOMAIN h.by
       THEN {"end"} ELSE {}

Unfounded(h) ==
  ((h.ignored \cap Endpoints) \cup (IF h.ignored \cap {"start", "length"} # {} THEN {"end"} ELSE {}))
  \ (DOMAIN h.by \cup (IF "length" \in DOMAIN h.by THEN {"end"} ELSE {}))

SurvivesUnrefused(h, k, p) ==  \* mutant: proposals of a refused edit survive
  p # None /\ p.from # "refused" /\ k \notin Withdrawn(h)
Survives(h, k, p) ==
  /\ p # None /\ p.from # "refused" /\ k \notin Withdrawn(h)
  /\ p.from = "clock" \/ (k \notin Unfounded(h) /\ ~h.refused)

Said(n) == [n |-> n, from |-> "said"]
Ground(h, k, p) ==
  IF k \in DOMAIN h.at THEN Said(h.at[k]) ELSE IF Survives(h, k, p) THEN p ELSE None

NoRelation == [act |-> "none", of |-> "length", n |-> 0]

\* The user's length replaces the model's relation; a relation needs an amount.
Related(h, r) ==
  IF "length" \in DOMAIN h.at THEN [act |-> "set", of |-> "length", n |-> h.at["length"]]
  ELSE IF /\ r # None /\ r.of \notin h.cancelled
          /\ h.amounts /\ ~h.refused
          /\ h.ignored # {} => DOMAIN h.by # {} /\ r.of \notin h.ignored
       THEN r ELSE NoRelation

Grounded(h, g) == [start |-> Ground(h, "start", g.start), end |-> Ground(h, "end", g.end),
                   relation |-> Related(h, g.relation)]

-----------------------------------------------------------------------------
(* Policy: what is held, and what is shifted *)

\* A withdrawn end is held, where there is one.
HeldByWithdrawal(h) ==  \* mutant: "...不变" is not read
  IF "end" \in h.cancelled /\ times["end"] # None THEN {"end"} ELSE {}
Held(h) ==
  (h.keep \cap Endpoints) \cup (IF "end" \in h.cancelled /\ times["end"] # None THEN {"end"} ELSE {})

\* The user's shifts of the endpoints; without any shift of the user's, the model's.
Moves(h, r) ==
  IF DOMAIN h.by # {} THEN [k \in DOMAIN h.by \cap Endpoints |-> h.by[k]]
  ELSE [k \in (IF r.act \in {"add", "sub"} /\ r.n > 0 THEN {r.of} ELSE {}) \cap Endpoints
          |-> IF r.act = "sub" THEN -r.n ELSE r.n]

\* Shifting what is held, or what is not there.
Contradicts(h, moves) ==
  \/ Held(h) \cap DOMAIN moves # {}
  \/ "length" \in h.keep \cap DOMAIN h.by
  \/ \E k \in Held(h) \cup DOMAIN moves : times[k] = None

Duration(kind, n) == [kind |-> kind, n |-> n]
NoDuration == Duration("none", 0)
KeepIt     == Duration("keep", 0)

Decoded(r) ==
  CASE r.act = "keep" -> KeepIt
    [] r.act = "set" /\ r.n > 0 -> Duration("set", r.n)
    [] r.act = "add" /\ r.n > 0 -> Duration("by", r.n)
    [] r.act = "sub" /\ r.n > 0 -> Duration("by", -r.n)
    [] OTHER -> NoDuration

AgainAsDuration(h) ==  \* mutant: the shift's amount is the duration's as well
  IF h.lengths = {} /\ DOMAIN h.by # {}
  THEN Duration("by", h.by[CHOOSE k \in DOMAIN h.by : TRUE]) ELSE NoDuration

\* Beside a shifted endpoint an amount is not a duration as well, unless the turn
\* states one: it is read again, withdrawn or not.
BesideMove(h) == IF h.lengths = {} THEN NoDuration
                 ELSE Duration("set", CHOOSE n \in h.lengths : TRUE)

Lasts(h, r, moves) ==
  LET moved == DOMAIN moves # {}
      l == IF moved THEN BesideMove(h) ELSE Decoded(r)
  IN  IF "length" \in DOMAIN h.by THEN Duration("by", h.by["length"])
      ELSE IF "length" \in h.keep THEN KeepIt
      ELSE IF "end" \in Held(h) /\ r.of = "start" /\ ~(moved /\ l # NoDuration) THEN NoDuration
      ELSE l

Shifted(k, n) == [n |-> times[k] + n, from |-> "shift"]
Inferred(p) == p # None /\ p.from \in {"amount", "made up", "blank"}

NewStart(h, c, moves) ==
  IF "start" \in Held(h) THEN None
  ELSE IF "start" \in DOMAIN moves THEN Shifted("start", moves["start"]) ELSE c.start

\* A shifted duration, and a shifted start, take with them an end nobody stated.
NewEnd(h, c, moves) ==
  LET end == IF "end" \in DOMAIN moves THEN Shifted("end", moves["end"]) ELSE c.end
      dropped == \/ "length" \in DOMAIN h.by /\ (Inferred(end) \/ "end" \in DOMAIN moves)
                 \/ DOMAIN moves = {"start"} /\ Inferred(end)
  IN  IF "end" \in Held(h) THEN [n |-> times["end"], from |-> "kept"]
      ELSE IF dropped THEN None ELSE end

-----------------------------------------------------------------------------
(* The arithmetic of start, duration and end *)

Previous ==
  IF None \in {times["start"], times["end"]} \/ times["end"] <= times["start"] THEN None
  ELSE times["end"] - times["start"]

Seconds(l) ==
  CASE l.kind = "set" -> l.n
    [] l.kind = "keep" -> Previous
    [] l.kind = "by" -> IF Previous = None \/ Previous + l.n <= 0 THEN None ELSE Previous + l.n
    [] OTHER -> None

Fails(why) == [ok |-> FALSE, why |-> why, end |-> None]
Range(s, l, e) ==
  LET d == Seconds(l)
      end == IF e # None \/ d = None THEN e ELSE s + d
  IN  IF s = None THEN Fails("START_TIME_REQUIRED")
      ELSE IF l # NoDuration /\ d = None THEN Fails("WITHOUT_HISTORY")
      ELSE IF end = None THEN Fails("INCOMPLETE_TIME_RANGE")
      ELSE IF d # None /\ end # s + d THEN Fails("TIME_RANGE_CONFLICT")
      ELSE IF end <= s THEN Fails("END_NOT_AFTER_START")
      ELSE [ok |-> TRUE, why |-> "", end |-> end]

-----------------------------------------------------------------------------
(* What is written; an endpoint without a value stays as it is *)

Write(s, e) == [start |-> s, end |-> e, asks |-> FALSE]
Ask(s, e)   == [start |-> s, end |-> e, asks |-> TRUE]

Value(p) == IF p = None THEN None ELSE p.n

\* What a failed range leaves: nothing of a shift or of what a withdrawal touched.
Questioned(h, moves, s, e, why) ==
  IF DOMAIN moves # {} \/ "length" \in DOMAIN h.by \/ h.cancelled # {} THEN Ask(None, None)
  ELSE Ask(s, IF why = "TIME_RANGE_CONFLICT" THEN None ELSE e)

Materialized(h, c, moves) ==
  LET s == NewStart(h, c, moves)
      e0 == NewEnd(h, c, moves)
      l0 == Lasts(h, c.relation, moves)
      \* a start alone keeps the duration
      l == IF /\ l0 = NoDuration /\ s # None /\ e0 = None
              /\ None \notin {times["start"], times["end"]} THEN KeepIt ELSE l0
      \* next to a duration, a proposed end that quotes no clock is not used
      e == IF l # NoDuration /\ Inferred(e0) /\ e0.from # "blank" THEN None ELSE e0
      r == Range(IF s = None THEN times["start"] ELSE s.n, l, Value(e))
  IN  IF l = NoDuration /\ moves = << >> /\ "end" \notin Held(h) /\ None \in {s, e0}
      THEN Write(Value(s), Value(e0))
      ELSE IF r.ok THEN Write(Value(s), r.end)
      ELSE Questioned(h, moves, Value(s), Value(e), r.why)

Edited(h, g) ==
  LET c == Grounded(h, g)
      moves == Moves(h, c.relation)
      w == Materialized(h, c, moves)
  IN  IF h.paused THEN Write(None, None)
      ELSE IF h.twice \/ Contradicts(h, moves) THEN Ask(None, None)
      ELSE [k \in DOMAIN w |-> IF k \in h.cancelled THEN None ELSE w[k]]

-----------------------------------------------------------------------------
(* Specification *)

\* A proposal can quote only what the turn holds.
Quotes(m, p) == p # None =>
  /\ p.from = "clock"   => p.n \in Stated(m, None, "clock")
  /\ p.from = "amount"  => \E s \in Amounts(m) : s.kind \in {"by", "at"}
  /\ p.from = "refused" => Spoken(m) # {}

Put(w, k) == IF w[k] = None THEN times[k] ELSE w[k]

Turn(m, h, g) ==
  /\ Quotes(m, g.start) /\ Quotes(m, g.end)
  /\ LET w == Edited(h, g) IN times' = [k \in Endpoints |-> Put(w, k)]
  /\ \A k \in Endpoints : times'[k] \in Instants \cup {None}
  /\ turn' = m

Init == times = [k \in Endpoints |-> None] /\ turn = {}

Next == \E m \in Messages : LET h == Heard(m) IN \E g \in Guesses : Turn(m, h, g)

Spec == Init /\ [][Next]_vars

-----------------------------------------------------------------------------
(* Properties *)

TypeOK ==
  /\ times \in [Endpoints -> Instants \cup {None}]
  /\ turn \subseteq Statement

\* A shift is applied once or not at all, by the amount the user said and to the
\* field he named, although the model may propose endpoints that have it in them
\* already, and a relation beside. A shifted start takes the end along, unless that
\* is held; a shifted duration is measured from the start the turn leaves.
Length(ts)  == ts["end"] - ts["start"]
Only(h, k)  == DOMAIN h.by = {k} /\ DOMAIN h.at = {} /\ h.lengths = {} /\ h.cancelled = {}
Unquoted(m) == Says(m, "clock") = {}
Along(k, h, n) == IF k = "start" \/ "end" \notin Held(h) THEN times[k] + n ELSE times[k]

ShiftIsExact ==
  [][LET h == Heard(turn') IN Unquoted(turn') /\ times' # times =>
       /\ Only(h, "start")  => times' = [k \in Endpoints |-> Along(k, h, h.by["start"])]
       /\ Only(h, "end")    => times'["end"] = times["end"] + h.by["end"]
       /\ Only(h, "length") => Length(times') = Length(times) + h.by["length"]]_vars

\* What the user holds on to, refuses or only speaks of stays, whatever the model
\* proposes: an edit that cannot be made with what is held is questioned; a start
\* stays when every shift of it the turn asks for is refused there as well; and all
\* stays in a turn that asks for no shift, unless the turn names an instant.
Forgone(m, k) ==
  k \in {s.of : s \in Spoken(m)} /\ Stated(m, k, "by") \subseteq Stated(m, k, "not")

KeptStays ==
  [][LET h == Heard(turn') IN
       /\ \A k \in h.keep \cap Endpoints : times'[k] = times[k]
       /\ Unquoted(turn') =>
            /\ Forgone(turn', "start") /\ "start" \notin DOMAIN h.at => times'["start"] = times["start"]
            /\ h.refused /\ DOMAIN h.at = {} => times' = times]_vars

\* What the user asks for is done although the turn also asks about a shift, or tells
\* of one, of the same field and amount, and whatever the model proposes. (An end is
\* shifted against a start that is held: else the model's start may lie behind it.)
Beside(s, t) == t.kind = "ask" \/ (t.kind = "keep" /\ t.of = "start" /\ s.of # "start")

AskedStillDone ==
  [][\A s \in turn' :
       /\ s.kind = "by" /\ \A t \in turn' \ {s} : Beside(s, t)
       /\ Previous # None
       => /\ s.of = "start" => times' = [k \in Endpoints |-> times[k] + s.n]
          /\ s.of = "length" /\ Previous + s.n > 0 => Length(times') = Previous + s.n
          /\ s.of = "end" /\ "start" \in Says(turn', "keep") /\ Previous + s.n > 0
               => times'["end"] = times["end"] + s.n]_vars
=============================================================================
