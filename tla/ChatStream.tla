----------------------------- MODULE ChatStream -----------------------------
(***************************************************************************)
(* Streamed chat requests.  An accepted request occupies one of a bounded    *)
(* number of worker threads, which runs the whole turn and offers progress   *)
(* to a bounded queue; a generator, driven by the connection, sends the      *)
(* progress and then the committed result.  The client may be slow, or go    *)
(* away at any moment, without effect on the turn.                           *)
(*                                                                           *)
(*   src/src/web/chat_stream.py                                              *)
(***************************************************************************)
EXTENDS Naturals, Sequences, FiniteSets

CONSTANTS Streams,   \* requests
          Capacity,  \* worker threads (8 in the code)
          QueueSize, \* frames the progress queue holds (64 in the code)
          MaxSteps   \* bound on the events one turn reports

ASSUME StreamAssumption ==
         /\ IsFiniteSet(Streams)
         /\ Capacity \in Nat \ {0} /\ QueueSize \in Nat \ {0}
         /\ MaxSteps \in Nat

VARIABLES
  free,       \* the semaphore _STREAM_WORKERS
  worker,     \* worker[s]: where the request and its thread stand
  reader,     \* reader[s]: where the generator stands
  held,       \* held[s]: the generator is suspended at a yield
  progress,   \* progress[s]: the queue
  completed,  \* completed[s]: the event the worker sets
  left,       \* left[s]: the event disconnected
  outcome,    \* outcome[s]: how the turn ended
  todo,       \* todo[s]: the frames of the outcome still to be sent
  sent,       \* sent[s]: the kinds of frames given to the connection (history)
  reported    \* reported[s]: events the turn reported

vars == <<free, worker, reader, held, progress, completed, left, outcome, todo,
          sent, reported>>

thread     == <<free, worker, completed, outcome, reported>>
connection == <<reader, held, left, todo, sent>>

-----------------------------------------------------------------------------
(* Types *)

WorkerState == {"new", "refused", "accepted", "failed", "turn", "ended", "released",
                "completed", "gone"}
ReaderState == {"none", "hello", "queued", "loop", "get", "tail", "closed"}
Events      == {"step", "slot"}
Facts       == {"slot", "delta", "result", "end"}
Frames      == Events \cup {"ping", "delta", "result", "error", "end"}

\* Every variable is in its domain; the queue is bounded.
TypeOK ==
  /\ free \in 0..Capacity
  /\ worker \in [Streams -> WorkerState]
  /\ reader \in [Streams -> ReaderState]
  /\ held \in [Streams -> BOOLEAN]
  /\ progress \in [Streams -> Seq(Events \cup {"wake"})]
  /\ \A s \in Streams : Len(progress[s]) <= QueueSize
  /\ completed \in [Streams -> BOOLEAN]
  /\ left \in [Streams -> BOOLEAN]
  /\ outcome \in [Streams -> {"none", "ok", "error"}]
  /\ todo \in [Streams -> Seq(Frames)]
  /\ sent \in [Streams -> SUBSET Frames]
  /\ reported \in [Streams -> 0..MaxSteps]

-----------------------------------------------------------------------------
(* The request and its worker *)

Set(f, s, v) == [f EXCEPT ![s] = v]

\* acquire(blocking=False): a slot, or a 503 answer.
Acquire(s) ==
  /\ worker[s] = "new"
  /\ IF free > 0
     THEN free' = free - 1 /\ worker' = Set(worker, s, "accepted")
     ELSE worker' = Set(worker, s, "refused") /\ UNCHANGED free
  /\ UNCHANGED <<completed, outcome, reported, progress, connection>>

KeptOnFailure(n) == n  \* mutant: the slot is lost when the thread does not start
Returned(n) == n + 1

StartThread(s) ==
  /\ worker[s] = "accepted"
  /\ \/ /\ worker' = Set(worker, s, "turn") /\ reader' = Set(reader, s, "hello")
        /\ UNCHANGED free
     \/ /\ worker' = Set(worker, s, "failed") /\ free' = Returned(free)
        /\ UNCHANGED reader
  /\ UNCHANGED <<completed, outcome, reported, progress, held, left, todo, sent>>

Everything == Events  \* mutant: facts are forwarded before the turn is committed
Forwarded == {"step"}

\* A full queue drops the frame.
WaitForRoom(q, f) == IF Len(q) < QueueSize THEN {Append(q, f)} ELSE {}  \* mutant: put() waits
Offer(q, f) == IF Len(q) < QueueSize THEN {Append(q, f)} ELSE {q}

\* step_sink: a turn reports an event.
Report(s) ==
  /\ worker[s] = "turn" /\ reported[s] < MaxSteps
  /\ reported' = [reported EXCEPT ![s] = @ + 1]
  /\ \E e \in Events : IF e \in Forwarded /\ ~left[s]
                       THEN \E q \in Offer(progress[s], e) : progress' = Set(progress, s, q)
                       ELSE UNCHANGED progress
  /\ UNCHANGED <<free, worker, completed, outcome, connection>>

\* The turn has ended, and its locks are released; an answer that is not a success,
\* or cannot be serialized, becomes an error frame.
EndTurn(s) ==
  /\ worker[s] = "turn"
  /\ \E o \in {"ok", "error"} : outcome' = Set(outcome, s, o)
  /\ worker' = Set(worker, s, "ended")
  /\ UNCHANGED <<free, completed, reported, progress, connection>>

Release(s) ==
  /\ worker[s] = "ended"
  /\ free' = free + 1 /\ worker' = Set(worker, s, "released")
  /\ UNCHANGED <<completed, outcome, reported, progress, connection>>

OnlyOnSuccess(s) == outcome[s] = "ok"  \* mutant: not in a finally clause
Signalled(s) == TRUE

Complete(s) ==
  /\ worker[s] = "released"
  /\ completed' = Set(completed, s, Signalled(s)) /\ worker' = Set(worker, s, "completed")
  /\ UNCHANGED <<free, outcome, reported, progress, connection>>

Wake(s) ==
  /\ worker[s] = "completed"
  /\ \E q \in Offer(progress[s], "wake") : progress' = Set(progress, s, q)
  /\ worker' = Set(worker, s, "gone")
  /\ UNCHANGED <<free, completed, outcome, reported, connection>>

-----------------------------------------------------------------------------
(* The generator *)

\* yield: the generator is suspended until the connection asks for more.
Yield(s, f) == sent' = [sent EXCEPT ![s] = @ \cup {f}] /\ held' = Set(held, s, TRUE)
Silent      == UNCHANGED <<sent, held>>
Running(s, l) == reader[s] = l /\ ~held[s]

Hello(s) ==
  \/ /\ Running(s, "hello")
     /\ Yield(s, "ping") /\ reader' = Set(reader, s, "queued")
     /\ UNCHANGED <<progress, left, todo, thread>>
  \/ /\ Running(s, "queued")
     /\ Yield(s, "step") /\ reader' = Set(reader, s, "loop")
     /\ UNCHANGED <<progress, left, todo, thread>>

UntilCompleted(s) == ~completed[s]  \* mutant: what is queued is dropped
More(s) == ~completed[s] \/ progress[s] # <<>>

\* The frames of the outcome, in order: facts, reply, result, end.
Answer(s) == IF outcome[s] = "ok" THEN <<"slot", "delta", "result", "end">> ELSE <<"error">>

Test(s) ==
  /\ Running(s, "loop")
  /\ IF More(s) THEN reader' = Set(reader, s, "get") /\ UNCHANGED todo
     ELSE reader' = Set(reader, s, "tail") /\ todo' = Set(todo, s, Answer(s))
  /\ UNCHANGED <<progress, held, left, sent, thread>>

Get(s) ==
  /\ Running(s, "get") /\ progress[s] # <<>>
  /\ progress' = Set(progress, s, Tail(progress[s]))
  /\ reader' = Set(reader, s, "loop")
  /\ IF Head(progress[s]) = "wake" THEN Silent ELSE Yield(s, Head(progress[s]))
  /\ UNCHANGED <<left, todo, thread>>

\* The queue stayed empty for _STREAM_HEARTBEAT_SECONDS.
Heartbeat(s) ==
  /\ Running(s, "get") /\ progress[s] = <<>>
  /\ reader' = Set(reader, s, "loop")
  /\ IF completed[s] THEN Silent ELSE Yield(s, "ping")
  /\ UNCHANGED <<progress, left, todo, thread>>

Deliver(s) ==
  /\ Running(s, "tail")
  /\ IF todo[s] # <<>>
     THEN Yield(s, Head(todo[s])) /\ todo' = Set(todo, s, Tail(todo[s])) /\ UNCHANGED <<reader, left>>
     ELSE reader' = Set(reader, s, "closed") /\ left' = Set(left, s, TRUE) /\ UNCHANGED <<sent, held, todo>>
  /\ UNCHANGED <<progress, thread>>

\* The connection took the frame.
Resume(s) ==
  /\ held[s] /\ held' = Set(held, s, FALSE)
  /\ UNCHANGED <<progress, reader, left, todo, sent, thread>>

\* The connection is closed: the generator ends at its yield, or never starts.
Disconnect(s) ==
  /\ held[s] \/ reader[s] = "hello"
  /\ held' = Set(held, s, FALSE) /\ reader' = Set(reader, s, "closed")
  /\ left' = Set(left, s, TRUE)
  /\ UNCHANGED <<progress, todo, sent, thread>>

-----------------------------------------------------------------------------
(* Specification *)

Init ==
  /\ free = Capacity
  /\ worker = [s \in Streams |-> "new"]
  /\ reader = [s \in Streams |-> "none"]
  /\ held = [s \in Streams |-> FALSE]
  /\ progress = [s \in Streams |-> <<>>]
  /\ completed = [s \in Streams |-> FALSE]
  /\ left = [s \in Streams |-> FALSE]
  /\ outcome = [s \in Streams |-> "none"]
  /\ todo = [s \in Streams |-> <<>>]
  /\ sent = [s \in Streams |-> {}]
  /\ reported = [s \in Streams |-> 0]

Work(s) == \/ StartThread(s) \/ Report(s) \/ EndTurn(s) \/ Release(s) \/ Complete(s)
           \/ Wake(s)
Read(s) == \/ Hello(s) \/ Test(s) \/ Get(s) \/ Heartbeat(s) \/ Deliver(s)

Next == \E s \in Streams : \/ Acquire(s) \/ Work(s) \/ Read(s)
                           \/ Resume(s) \/ Disconnect(s)

Spec == Init /\ [][Next]_vars

\* The worker threads and the generators run, but a client need never take a frame
\* or close the connection.
FairSpec == Spec /\ \A s \in Streams : WF_vars(Work(s)) /\ WF_vars(Read(s))

-----------------------------------------------------------------------------
(* Properties *)

\* The semaphore counts the slots exactly: each accepted request holds one from its
\* acceptance to the end of its turn, and gives it back once, also when its thread
\* cannot be started.
Holders    == {s \in Streams : worker[s] \in {"accepted", "turn", "ended"}}
SlotsExact == free + Cardinality(Holders) = Capacity

\* Only progress is visible before the turn has ended: slots, reply and result wait
\* for the committed outcome.
FactsAreCommitted ==
  \A s \in Streams : sent[s] \cap Facts # {}
                     => outcome[s] = "ok" /\ worker[s] \in {"released", "completed", "gone"}

\* A reader that passes on to the outcome has left no progress behind.
ProgressFirst ==
  \A s \in Streams : reader[s] = "tail" => \A i \in DOMAIN progress[s] : progress[s][i] = "wake"

\* What a client sees: first all progress that was kept for it, then the outcome,
\* and facts only of a turn that was committed.
FramesInOrder == FactsAreCommitted /\ ProgressFirst

\* A slow observer never blocks a turn: whether or not frames are taken, each turn
\* ends and its thread goes away.
TurnsEnd == \A s \in Streams : worker[s] = "turn" ~> worker[s] = "gone"

\* A connection whose frames are taken comes to an end, with the answer of the turn
\* unless it was closed before: no generator waits for a worker that has gone.
StreamsEnd ==
  \A s \in Streams : []<>~held[s] => (reader[s] = "hello" ~> reader[s] = "closed")
=============================================================================
