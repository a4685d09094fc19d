--------------------------- MODULE ChatStreamProofs ---------------------------
(***************************************************************************)
(* Streamed responses for any finite set of requests, any capacity and any   *)
(* queue: the worker slots are counted exactly, facts are sent only after    *)
(* the commit, and progress is sent before the outcome.                      *)
(*                                                                           *)
(* The inductive invariant adds to these what ties the generator to the      *)
(* worker: a generator at its tail has seen the event completed, the event   *)
(* is set only after the slot was given back, and what remains to be sent    *)
(* are the frames of the outcome.                                            *)
(***************************************************************************)
EXTENDS ChatStream, FiniteSetTheorems, TLAPS

EventTrue(s) == completed[s] => worker[s] \in {"completed", "gone"}
QueueTrue(s) == \A i \in DOMAIN progress[s] : progress[s][i] \in {"step", "wake"}
TailTrue(s)  == reader[s] = "tail" => completed[s]
TodoTrue(s)  == \A i \in DOMAIN todo[s] : todo[s][i] \in Facts => outcome[s] = "ok" /\ completed[s]

Ties == \A s \in Streams : EventTrue(s) /\ QueueTrue(s) /\ TailTrue(s) /\ TodoTrue(s)

Inv == TypeOK /\ SlotsExact /\ FactsAreCommitted /\ ProgressFirst /\ Ties

-----------------------------------------------------------------------------
(* Slots *)

LEMMA HoldersFinite == IsFiniteSet(Holders) /\ Cardinality(Holders) \in Nat
BY StreamAssumption, FS_Subset, FS_CardinalityType DEF Holders

LEMMA HoldersFiniteNext == IsFiniteSet(Holders') /\ Cardinality(Holders') \in Nat
<1>1. Holders' \in SUBSET Streams BY DEF Holders
<1> QED BY <1>1, StreamAssumption, FS_Subset, FS_CardinalityType

\* A thread that moves among the states that hold a slot, or among the others,
\* leaves the count alone.
LEMMA SameHolders ==
  ASSUME TypeOK, NEW s \in Streams, NEW v, worker' = [worker EXCEPT ![s] = v],
         worker[s] \in {"accepted", "turn", "ended"} <=> v \in {"accepted", "turn", "ended"}
  PROVE  Holders' = Holders
BY DEF Holders, TypeOK

LEMMA SlotTaken ==
  ASSUME TypeOK, NEW s \in Streams, worker[s] = "new", worker' = [worker EXCEPT ![s] = "accepted"]
  PROVE  Cardinality(Holders') = Cardinality(Holders) + 1
<1>1. Holders' = Holders \cup {s} /\ s \notin Holders BY DEF Holders, TypeOK
<1> QED BY <1>1, HoldersFinite, FS_AddElement

LEMMA SlotGivenBack ==
  ASSUME TypeOK, NEW s \in Streams, NEW v, v \in {"failed", "released"},
         worker[s] \in {"accepted", "ended"}, worker' = [worker EXCEPT ![s] = v]
  PROVE  Cardinality(Holders') = Cardinality(Holders) - 1 /\ Cardinality(Holders) > 0
<1>1. Holders' = Holders \ {s} /\ s \in Holders BY DEF Holders, TypeOK
<1>2. Cardinality(Holders') = Cardinality(Holders) - 1 BY <1>1, HoldersFinite, FS_RemoveElement
<1> QED BY <1>2, HoldersFinite, HoldersFiniteNext

-----------------------------------------------------------------------------
(* Queues *)

LEMMA OfferType ==
  ASSUME NEW q \in Seq(Events \cup {"wake"}), Len(q) <= QueueSize,
         NEW f \in {"step", "wake"}, NEW r \in Offer(q, f),
         \A i \in DOMAIN q : q[i] \in {"step", "wake"}
  PROVE  /\ r \in Seq(Events \cup {"wake"}) /\ Len(r) <= QueueSize
         /\ \A i \in DOMAIN r : r[i] \in {"step", "wake"}
<1>1. CASE r = q BY <1>1
<1>2. CASE Len(q) < QueueSize /\ r = Append(q, f)
  <2>1. f \in Events \cup {"wake"} BY DEF Events
  <2>2. r \in Seq(Events \cup {"wake"}) /\ Len(r) = Len(q) + 1 BY <1>2, <2>1
  <2>3. ASSUME NEW i \in DOMAIN r PROVE r[i] \in {"step", "wake"}
    BY <1>2, <2>1, <2>2, <2>3
  <2> QED BY <1>2, <2>2, <2>3, StreamAssumption
<1> QED BY <1>1, <1>2 DEF Offer

LEMMA WakeOnly ==
  ASSUME NEW q \in Seq(Events \cup {"wake"}), NEW r \in Offer(q, "wake"),
         \A i \in DOMAIN q : q[i] = "wake"
  PROVE  \A i \in DOMAIN r : r[i] = "wake"
<1>1. CASE r = q BY <1>1
<1>2. CASE r = Append(q, "wake") BY <1>2
<1> QED BY <1>1, <1>2 DEF Offer

LEMMA TailElements ==
  ASSUME NEW S, NEW q \in Seq(S), q # <<>>
  PROVE  /\ Head(q) \in S /\ Head(q) = q[1] /\ 1 \in DOMAIN q
         /\ Tail(q) \in Seq(S) /\ Len(Tail(q)) = Len(q) - 1
         /\ \A i \in DOMAIN Tail(q) : i + 1 \in DOMAIN q /\ Tail(q)[i] = q[i + 1]
OBVIOUS

-----------------------------------------------------------------------------
(* The worker *)

LEMMA InvInit == Init => Inv
<1> SUFFICES ASSUME Init PROVE Inv OBVIOUS
<1>1. TypeOK
  BY StreamAssumption DEF Init, TypeOK, WorkerState, ReaderState, Frames, Events
<1>2. SlotsExact
  <2>1. Holders = {} BY DEF Holders, Init
  <2> QED BY <2>1, FS_EmptySet, StreamAssumption DEF SlotsExact, Init
<1>3. FactsAreCommitted /\ ProgressFirst /\ Ties
  BY DEF FactsAreCommitted, ProgressFirst, Ties, EventTrue, QueueTrue, TailTrue, TodoTrue, Init
<1> QED BY <1>1, <1>2, <1>3 DEF Inv

LEMMA AcquireStep == ASSUME Inv, NEW s \in Streams, Acquire(s) PROVE Inv'
<1> USE DEF Acquire, connection, Set
<1>1. CASE free > 0
  <2>1. worker' = [worker EXCEPT ![s] = "accepted"] /\ free' = free - 1 BY <1>1
  <2>2. SlotsExact'
    <3>1. Cardinality(Holders') = Cardinality(Holders) + 1 BY <2>1, SlotTaken DEF Inv
    <3> QED BY <2>1, <3>1, HoldersFinite, StreamAssumption DEF SlotsExact, Inv, TypeOK
  <2>3. TypeOK' BY <2>1, <1>1, StreamAssumption DEF TypeOK, Inv, WorkerState
  <2>4. (FactsAreCommitted /\ ProgressFirst /\ Ties)'
    BY <2>1 DEF Inv, TypeOK, FactsAreCommitted, ProgressFirst, Ties, EventTrue, QueueTrue,
                TailTrue, TodoTrue
  <2> QED BY <2>2, <2>3, <2>4 DEF Inv
<1>2. CASE ~(free > 0)
  <2>1. worker' = [worker EXCEPT ![s] = "refused"] /\ free' = free BY <1>2
  <2>2. Holders' = Holders BY <2>1, SameHolders DEF Inv
  <2>3. SlotsExact' BY <2>1, <2>2 DEF SlotsExact, Inv
  <2>4. TypeOK' BY <2>1 DEF TypeOK, Inv, WorkerState
  <2>5. (FactsAreCommitted /\ ProgressFirst /\ Ties)'
    BY <2>1 DEF Inv, TypeOK, FactsAreCommitted, ProgressFirst, Ties, EventTrue, QueueTrue,
                TailTrue, TodoTrue
  <2> QED BY <2>3, <2>4, <2>5 DEF Inv
<1> QED BY <1>1, <1>2

LEMMA StartThreadStep == ASSUME Inv, NEW s \in Streams, StartThread(s) PROVE Inv'
<1> USE DEF StartThread, Set, Returned
<1>1. CASE worker' = [worker EXCEPT ![s] = "turn"] /\ reader' = [reader EXCEPT ![s] = "hello"]
           /\ free' = free
  <2>1. Holders' = Holders BY <1>1, SameHolders DEF Inv
  <2>2. SlotsExact' BY <1>1, <2>1 DEF SlotsExact, Inv
  <2>3. TypeOK' BY <1>1 DEF TypeOK, Inv, WorkerState, ReaderState
  <2>4. (FactsAreCommitted /\ ProgressFirst /\ Ties)'
    BY <1>1 DEF Inv, TypeOK, FactsAreCommitted, ProgressFirst, Ties, EventTrue, QueueTrue,
                TailTrue, TodoTrue
  <2> QED BY <2>2, <2>3, <2>4 DEF Inv
<1>2. CASE worker' = [worker EXCEPT ![s] = "failed"] /\ free' = free + 1 /\ reader' = reader
  <2>1. Cardinality(Holders') = Cardinality(Holders) - 1 /\ Cardinality(Holders) > 0
    BY <1>2, SlotGivenBack DEF Inv
  <2>2. SlotsExact' /\ free' \in 0..Capacity
    BY <1>2, <2>1, HoldersFinite, StreamAssumption DEF SlotsExact, Inv, TypeOK
  <2>3. TypeOK' BY <1>2, <2>2 DEF TypeOK, Inv, WorkerState
  <2>4. (FactsAreCommitted /\ ProgressFirst /\ Ties)'
    BY <1>2 DEF Inv, TypeOK, FactsAreCommitted, ProgressFirst, Ties, EventTrue, QueueTrue,
                TailTrue, TodoTrue
  <2> QED BY <2>2, <2>3, <2>4 DEF Inv
<1> QED BY <1>1, <1>2

\* A report, and the wake-up, add a frame to the queue or drop it.
LEMMA QueueStep ==
  ASSUME Inv, NEW s \in Streams, NEW f \in {"step", "wake"}, NEW q \in Offer(progress[s], f),
         progress' = [progress EXCEPT ![s] = q], reader' = reader, ~completed[s] \/ f = "wake"
  PROVE  /\ progress' \in [Streams -> Seq(Events \cup {"wake"})]
         /\ \A t \in Streams : Len(progress'[t]) <= QueueSize
         /\ \A t \in Streams : QueueTrue(t)'
         /\ ProgressFirst'
<1>1. /\ q \in Seq(Events \cup {"wake"}) /\ Len(q) <= QueueSize
      /\ \A i \in DOMAIN q : q[i] \in {"step", "wake"}
  <2>1. progress[s] \in Seq(Events \cup {"wake"}) /\ Len(progress[s]) <= QueueSize
    BY DEF Inv, TypeOK
  <2>2. \A i \in DOMAIN progress[s] : progress[s][i] \in {"step", "wake"}
    BY DEF Inv, Ties, QueueTrue
  <2> QED BY <2>1, <2>2, OfferType
<1>2. ASSUME reader[s] = "tail" PROVE \A i \in DOMAIN q : q[i] = "wake"
  <2>1. f = "wake" BY <1>2 DEF Inv, Ties, TailTrue
  <2>2. \A i \in DOMAIN progress[s] : progress[s][i] = "wake" BY <1>2 DEF Inv, ProgressFirst
  <2>3. progress[s] \in Seq(Events \cup {"wake"}) BY DEF Inv, TypeOK
  <2> QED BY <2>1, <2>2, <2>3, WakeOnly
<1> QED BY <1>1, <1>2 DEF Inv, TypeOK, Ties, QueueTrue, ProgressFirst

LEMMA ReportStep == ASSUME Inv, NEW s \in Streams, Report(s) PROVE Inv'
<1> USE DEF Report, Set, connection
<1>1. ~completed[s] BY DEF Inv, Ties, EventTrue
<1>2. /\ progress' \in [Streams -> Seq(Events \cup {"wake"})]
      /\ \A t \in Streams : Len(progress'[t]) <= QueueSize
      /\ \A t \in Streams : QueueTrue(t)'
      /\ ProgressFirst'
  <2>1. CASE progress' = progress
    BY <2>1 DEF Inv, TypeOK, Ties, QueueTrue, ProgressFirst
  <2>2. CASE \E q \in Offer(progress[s], "step") : progress' = [progress EXCEPT ![s] = q]
    BY <2>2, <1>1, QueueStep
  <2> QED BY <2>1, <2>2 DEF Forwarded
<1>3. reported' \in [Streams -> 0..MaxSteps]
  BY StreamAssumption DEF Inv, TypeOK
<1>4. TypeOK' BY <1>2, <1>3 DEF Inv, TypeOK
<1>5. Holders' = Holders BY DEF Holders
<1>6. SlotsExact' BY <1>5 DEF SlotsExact, Inv
<1>7. FactsAreCommitted' /\ Ties'
  BY <1>2 DEF Inv, FactsAreCommitted, Ties, EventTrue, TailTrue, TodoTrue
<1> QED BY <1>2, <1>4, <1>6, <1>7 DEF Inv

LEMMA EndTurnStep == ASSUME Inv, NEW s \in Streams, EndTurn(s) PROVE Inv'
<1> USE DEF EndTurn, Set, connection
<1>1. Holders' = Holders BY SameHolders DEF Inv
<1>2. SlotsExact' BY <1>1 DEF SlotsExact, Inv
<1>3. TypeOK' BY DEF TypeOK, Inv, WorkerState
<1>4. ~completed[s] BY DEF Inv, Ties, EventTrue
<1>5. sent[s] \cap Facts = {} BY DEF Inv, FactsAreCommitted
<1>6. (FactsAreCommitted /\ ProgressFirst /\ Ties)'
  BY <1>4, <1>5 DEF Inv, TypeOK, FactsAreCommitted, ProgressFirst, Ties, EventTrue, QueueTrue,
                    TailTrue, TodoTrue
<1> QED BY <1>2, <1>3, <1>6 DEF Inv

LEMMA ReleaseStep == ASSUME Inv, NEW s \in Streams, Release(s) PROVE Inv'
<1> USE DEF Release, Set, connection
<1>1. Cardinality(Holders') = Cardinality(Holders) - 1 /\ Cardinality(Holders) > 0
  BY SlotGivenBack DEF Inv
<1>2. SlotsExact' /\ free' \in 0..Capacity
  BY <1>1, HoldersFinite, StreamAssumption DEF SlotsExact, Inv, TypeOK
<1>3. TypeOK' BY <1>2 DEF TypeOK, Inv, WorkerState
<1>4. (FactsAreCommitted /\ ProgressFirst /\ Ties)'
  BY DEF Inv, TypeOK, FactsAreCommitted, ProgressFirst, Ties, EventTrue, QueueTrue,
         TailTrue, TodoTrue
<1> QED BY <1>2, <1>3, <1>4 DEF Inv

LEMMA CompleteStep == ASSUME Inv, NEW s \in Streams, Complete(s) PROVE Inv'
<1> USE DEF Complete, Set, connection, Signalled
<1>1. Holders' = Holders BY SameHolders DEF Inv
<1>2. SlotsExact' BY <1>1 DEF SlotsExact, Inv
<1>3. TypeOK' BY DEF TypeOK, Inv, WorkerState
<1>4. (FactsAreCommitted /\ ProgressFirst /\ Ties)'
  BY DEF Inv, TypeOK, FactsAreCommitted, ProgressFirst, Ties, EventTrue, QueueTrue,
         TailTrue, TodoTrue
<1> QED BY <1>2, <1>3, <1>4 DEF Inv

LEMMA WakeStep == ASSUME Inv, NEW s \in Streams, Wake(s) PROVE Inv'
<1> USE DEF Wake, Set, connection
<1>1. /\ progress' \in [Streams -> Seq(Events \cup {"wake"})]
      /\ \A t \in Streams : Len(progress'[t]) <= QueueSize
      /\ \A t \in Streams : QueueTrue(t)'
      /\ ProgressFirst'
  BY QueueStep
<1>2. Holders' = Holders BY SameHolders DEF Inv
<1>3. SlotsExact' BY <1>2 DEF SlotsExact, Inv
<1>4. TypeOK' BY <1>1 DEF TypeOK, Inv, WorkerState
<1>5. FactsAreCommitted' /\ Ties'
  BY <1>1 DEF Inv, TypeOK, FactsAreCommitted, Ties, EventTrue, TailTrue, TodoTrue
<1> QED BY <1>1, <1>3, <1>4, <1>5 DEF Inv

-----------------------------------------------------------------------------
(* The generator and the connection *)

\* They leave the worker and its events alone.
LEMMA SlotsKept == ASSUME Inv, UNCHANGED thread PROVE SlotsExact'
<1>1. Holders' = Holders BY DEF Holders, thread
<1> QED BY <1>1 DEF Inv, SlotsExact, thread

\* What remains to be done when the generator leaves the queue and the tail alone.
LEMMA ReaderStep ==
  ASSUME Inv, UNCHANGED <<thread, progress, todo>>,
         held' \in [Streams -> BOOLEAN], left' \in [Streams -> BOOLEAN],
         NEW s \in Streams, NEW l \in ReaderState \ {"tail"},
         reader' = [reader EXCEPT ![s] = l] \/ reader' = reader,
         \/ sent' = sent
         \/ \E f \in Frames \ Facts : sent' = [sent EXCEPT ![s] = @ \cup {f}]
  PROVE  Inv'
<1>1. /\ UNCHANGED <<free, worker, completed, outcome, reported>>
      /\ UNCHANGED <<progress, todo>>
  BY DEF thread
<1>2. SlotsExact' BY SlotsKept
<1>3. reader' \in [Streams -> ReaderState] BY DEF Inv, TypeOK
<1>4. /\ sent' \in [Streams -> SUBSET Frames]
      /\ \A t \in Streams : \A x \in Facts : x \in sent'[t] => x \in sent[t]
  <2>1. sent \in [Streams -> SUBSET Frames] BY DEF Inv, TypeOK
  <2>2. CASE sent' = sent BY <2>1, <2>2
  <2>3. ASSUME NEW f \in Frames \ Facts, sent' = [sent EXCEPT ![s] = @ \cup {f}]
        PROVE  <1>4!:
    BY <2>1, <2>3
  <2> QED BY <2>2, <2>3
<1>5. TypeOK' BY <1>1, <1>3, <1>4 DEF Inv, TypeOK
<1>6. FactsAreCommitted' BY <1>1, <1>4 DEF Inv, FactsAreCommitted
<1>7. \A t \in Streams : reader'[t] = "tail" => reader[t] = "tail" BY DEF Inv, TypeOK
<1>8. ProgressFirst' BY <1>1, <1>7 DEF Inv, ProgressFirst
<1>9. Ties' BY <1>1, <1>7 DEF Inv, Ties, EventTrue, QueueTrue, TailTrue, TodoTrue
<1> QED BY <1>2, <1>5, <1>6, <1>8, <1>9 DEF Inv

LEMMA QuietReaderStep ==
  ASSUME Inv, NEW s \in Streams, Hello(s) \/ Heartbeat(s) \/ Resume(s) \/ Disconnect(s)
  PROVE  Inv'
<1>1. "ping" \in Frames \ Facts /\ "step" \in Frames \ Facts BY DEF Frames, Facts, Events
<1>2. {"queued", "loop", "closed"} \subseteq ReaderState \ {"tail"} BY DEF ReaderState
<1>3. ASSUME NEW b \in BOOLEAN
      PROVE [held EXCEPT ![s] = b] \in [Streams -> BOOLEAN] /\ [left EXCEPT ![s] = b] \in [Streams -> BOOLEAN]
  BY DEF Inv, TypeOK
<1>4. held \in [Streams -> BOOLEAN] /\ left \in [Streams -> BOOLEAN] BY DEF Inv, TypeOK
<1>5. CASE Hello(s)
  <2>1. CASE Running(s, "hello")
    BY <1>1, <1>2, <1>3, <1>4, <1>5, <2>1, ReaderStep DEF Hello, Running, Yield, Set
  <2>2. CASE Running(s, "queued")
    BY <1>1, <1>2, <1>3, <1>4, <1>5, <2>2, ReaderStep DEF Hello, Running, Yield, Set
  <2> QED BY <1>5, <2>1, <2>2 DEF Hello
<1>6. CASE Heartbeat(s)
  BY <1>1, <1>2, <1>3, <1>4, <1>6, ReaderStep DEF Heartbeat, Silent, Yield, Set
<1>7. CASE Resume(s)
  BY <1>2, <1>3, <1>4, <1>7, ReaderStep DEF Resume, Set
<1>8. CASE Disconnect(s)
  BY <1>2, <1>3, <1>4, <1>8, ReaderStep DEF Disconnect, Set
<1> QED BY <1>5, <1>6, <1>7, <1>8

LEMMA TestStep == ASSUME Inv, NEW s \in Streams, Test(s) PROVE Inv'
<1> USE DEF Test, Set, More
<1>1. UNCHANGED <<thread, progress, held, left, sent>> OBVIOUS
<1>2. SlotsExact' BY <1>1, SlotsKept
<1>3. FactsAreCommitted' BY <1>1 DEF Inv, FactsAreCommitted, thread
<1>4. CASE More(s)
  BY <1>1, <1>4, ReaderStep DEF Inv, TypeOK, ReaderState
<1>5. CASE ~More(s)
  <2>1. reader' = [reader EXCEPT ![s] = "tail"] /\ todo' = [todo EXCEPT ![s] = Answer(s)] BY <1>5
  <2>2. completed[s] /\ progress[s] = <<>> BY <1>5
  <2>3. Answer(s) \in Seq(Frames) /\ \A i \in DOMAIN Answer(s) : Answer(s)[i] \in Facts => outcome[s] = "ok"
    <3>1. CASE outcome[s] = "ok" BY <3>1 DEF Answer, Frames, Events
    <3>2. CASE outcome[s] # "ok"
      <4>1. Answer(s) = <<"error">> BY <3>2 DEF Answer
      <4>2. "error" \in Frames /\ "error" \notin Facts BY DEF Frames, Facts
      <4> QED BY <4>1, <4>2
    <3> QED BY <3>1, <3>2
  <2>4. TypeOK' BY <1>1, <2>1, <2>3 DEF Inv, TypeOK, ReaderState, thread
  <2>5. ProgressFirst' BY <1>1, <2>1, <2>2 DEF Inv, TypeOK, ProgressFirst
  <2>6. Ties'
    BY <1>1, <2>1, <2>2, <2>3 DEF Inv, TypeOK, Ties, EventTrue, QueueTrue, TailTrue, TodoTrue, thread
  <2> QED BY <1>2, <1>3, <2>4, <2>5, <2>6 DEF Inv
<1> QED BY <1>4, <1>5

LEMMA GetStep == ASSUME Inv, NEW s \in Streams, Get(s) PROVE Inv'
<1> USE DEF Get, Set
<1>1. UNCHANGED <<thread, left, todo>> /\ reader' = [reader EXCEPT ![s] = "loop"]
  OBVIOUS
<1>2. SlotsExact' BY <1>1, SlotsKept
<1>3. progress[s] \in Seq(Events \cup {"wake"}) /\ progress[s] # <<>> BY DEF Inv, TypeOK
<1>4. /\ Head(progress[s]) \in {"step", "wake"}
      /\ Tail(progress[s]) \in Seq(Events \cup {"wake"})
      /\ Len(Tail(progress[s])) <= QueueSize
      /\ \A i \in DOMAIN Tail(progress[s]) : Tail(progress[s])[i] \in {"step", "wake"}
  <2>1. \A i \in DOMAIN progress[s] : progress[s][i] \in {"step", "wake"} BY DEF Inv, Ties, QueueTrue
  <2>2. Len(progress[s]) <= QueueSize /\ Len(progress[s]) \in Nat BY <1>3 DEF Inv, TypeOK
  <2>3. /\ Head(progress[s]) = progress[s][1] /\ 1 \in DOMAIN progress[s]
        /\ Tail(progress[s]) \in Seq(Events \cup {"wake"})
        /\ Len(Tail(progress[s])) = Len(progress[s]) - 1
        /\ \A i \in DOMAIN Tail(progress[s]) :
              i + 1 \in DOMAIN progress[s] /\ Tail(progress[s])[i] = progress[s][i + 1]
    BY <1>3, TailElements
  <2> QED BY <2>1, <2>2, <2>3, StreamAssumption
<1>5. /\ held' \in [Streams -> BOOLEAN]
      /\ sent' = sent \/ sent' = [sent EXCEPT ![s] = @ \cup {"step"}]
  BY <1>4 DEF Inv, TypeOK, Silent, Yield
<1>6. "step" \in Frames /\ "step" \notin Facts BY DEF Frames, Facts, Events
<1>7. /\ sent' \in [Streams -> SUBSET Frames]
      /\ \A t \in Streams : \A x \in Facts : x \in sent'[t] => x \in sent[t]
  <2>1. sent \in [Streams -> SUBSET Frames] BY DEF Inv, TypeOK
  <2>2. CASE sent' = sent BY <2>1, <2>2
  <2>3. CASE sent' = [sent EXCEPT ![s] = @ \cup {"step"}]
    <3> HIDE DEF Get
    <3> QED BY <2>1, <2>3, <1>6
  <2> QED BY <1>5, <2>2, <2>3
<1>8. /\ progress' \in [Streams -> Seq(Events \cup {"wake"})]
      /\ \A t \in Streams : Len(progress'[t]) <= QueueSize
  BY <1>4 DEF Inv, TypeOK
<1>9. TypeOK'
  <2>1. reader' \in [Streams -> ReaderState] BY <1>1 DEF Inv, TypeOK, ReaderState
  <2> HIDE DEF Get
  <2> QED BY <1>1, <1>5, <1>7, <1>8, <2>1 DEF Inv, TypeOK, thread
<1>10. FactsAreCommitted' BY <1>1, <1>7 DEF Inv, FactsAreCommitted, thread
<1>11. ProgressFirst' /\ Ties'
  BY <1>1, <1>4 DEF Inv, TypeOK, ProgressFirst, Ties, EventTrue, QueueTrue, TailTrue, TodoTrue, thread
<1> QED BY <1>2, <1>9, <1>10, <1>11 DEF Inv

LEMMA DeliverStep == ASSUME Inv, NEW s \in Streams, Deliver(s) PROVE Inv'
<1> USE DEF Deliver, Set
<1>1. UNCHANGED <<thread, progress>> OBVIOUS
<1>2. SlotsExact' BY <1>1, SlotsKept
<1>3. CASE todo[s] = <<>>
  BY <1>1, <1>3, ReaderStep DEF Inv, TypeOK, ReaderState
<1>4. CASE todo[s] # <<>>
  <2>1. /\ UNCHANGED <<reader, left>> /\ held' = [held EXCEPT ![s] = TRUE]
        /\ sent' = [sent EXCEPT ![s] = @ \cup {Head(todo[s])}]
        /\ todo' = [todo EXCEPT ![s] = Tail(todo[s])]
    BY <1>4 DEF Yield
  <2>2. /\ Head(todo[s]) \in Frames /\ Head(todo[s]) = todo[s][1] /\ 1 \in DOMAIN todo[s]
        /\ Tail(todo[s]) \in Seq(Frames)
        /\ \A i \in DOMAIN Tail(todo[s]) :
              i + 1 \in DOMAIN todo[s] /\ Tail(todo[s])[i] = todo[s][i + 1]
    <3>1. todo[s] \in Seq(Frames) BY DEF Inv, TypeOK
    <3> QED BY <1>4, <3>1, TailElements
  <2>3. \A i \in DOMAIN todo[s] : todo[s][i] \in Facts => outcome[s] = "ok" /\ completed[s]
    BY DEF Inv, Ties, TodoTrue
  <2>4. Head(todo[s]) \in Facts => outcome[s] = "ok" /\ worker[s] \in {"completed", "gone"}
    BY <2>2, <2>3 DEF Inv, Ties, EventTrue
  <2>5. TypeOK' BY <1>1, <2>1, <2>2 DEF Inv, TypeOK, thread
  <2>6. FactsAreCommitted'
    BY <1>1, <2>1, <2>4 DEF Inv, TypeOK, FactsAreCommitted, thread
  <2>7. TodoTrue(s)' BY <1>1, <2>1, <2>2, <2>3 DEF Inv, TypeOK, TodoTrue, thread
  <2>8. ProgressFirst' /\ Ties'
    BY <1>1, <2>1, <2>7 DEF Inv, TypeOK, ProgressFirst, Ties, EventTrue, QueueTrue, TailTrue,
                            TodoTrue, thread
  <2> QED BY <1>2, <2>5, <2>6, <2>8 DEF Inv
<1> QED BY <1>3, <1>4

-----------------------------------------------------------------------------
(* Theorems *)

LEMMA InvStep == Inv /\ [Next]_vars => Inv'
<1> SUFFICES ASSUME Inv, [Next]_vars PROVE Inv' OBVIOUS
<1>1. ASSUME NEW s \in Streams, Acquire(s) \/ Work(s) PROVE Inv'
  BY <1>1, AcquireStep, StartThreadStep, ReportStep, EndTurnStep, ReleaseStep, CompleteStep,
     WakeStep DEF Work
<1>2. ASSUME NEW s \in Streams, Read(s) \/ Resume(s) \/ Disconnect(s) PROVE Inv'
  BY <1>2, QuietReaderStep, TestStep, GetStep, DeliverStep DEF Read
<1>3. CASE UNCHANGED vars
  <2>1. Holders' = Holders BY <1>3 DEF vars, Holders
  <2> QED BY <1>3, <2>1 DEF vars, Inv, TypeOK, SlotsExact, FactsAreCommitted, ProgressFirst,
                            Ties, EventTrue, QueueTrue, TailTrue, TodoTrue
<1> QED BY <1>1, <1>2, <1>3 DEF Next

LEMMA InvCorrect == Spec => []Inv
<1>1. Init => Inv BY InvInit
<1>2. Inv /\ [Next]_vars => Inv' BY InvStep
<1> QED BY <1>1, <1>2, PTL DEF Spec

\* Type correctness, with the bounds of the semaphore and the queue.
THEOREM StreamTypes == Spec => []TypeOK
<1>1. Inv => TypeOK BY DEF Inv
<1> QED BY <1>1, InvCorrect, PTL

\* No path of start_chat_stream and its worker loses a slot or gives one back
\* twice, for any capacity and any finite set of requests.
THEOREM SlotsAreExact == Spec => []SlotsExact
<1>1. Inv => SlotsExact BY DEF Inv
<1> QED BY <1>1, InvCorrect, PTL

\* Slots, reply and result are sent only after a turn that was committed and whose
\* worker gave its slot back, and a generator that reaches the outcome has sent all
\* progress that was queued.
THEOREM FramesAreInOrder == Spec => []FramesInOrder
<1>1. Inv => FramesInOrder BY DEF Inv, FramesInOrder
<1> QED BY <1>1, InvCorrect, PTL
=============================================================================
