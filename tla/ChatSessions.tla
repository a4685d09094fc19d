---------------------------- MODULE ChatSessions ----------------------------
(***************************************************************************)
(* The chat requests of one session id.  The registry maps the id to a live  *)
(* dialogue manager; a request finds or creates the manager, waits for its   *)
(* session lock, and must then check that it is still the registered one,    *)
(* because a reset removes it and a configuration reload replaces it.  Under *)
(* the session lock a turn is replayed from the manager's request cache, or  *)
(* refused when it confirms a summary that is no longer the current one, or  *)
(* processed and remembered.                                                 *)
(*                                                                           *)
(*   src/src/web/routes/chat.py         turns, reset                         *)
(*   src/src/web/chat_request_cache.py  replay of recent turns               *)
(*   src/src/web/state.py               the registry                         *)
(*   src/src/hot_reload.py              migration of live managers           *)
(*   src/src/session/ui_state_builder.py  the confirmation token             *)
(***************************************************************************)
EXTENDS Naturals, Sequences, FiniteSets

CONSTANTS Workers,     \* server threads
          NoOne,       \* holder of a free lock
          NoTok,       \* no token
          MaxReqs,     \* bound on the request ids clients use
          MaxSends,    \* bound on the requests sent, retries included
          MaxOps,      \* bound on resets, reloads and telemetry updates
          MaxEntries   \* entries a request cache keeps (128 in the code)

ASSUME ChatAssumption ==
         /\ NoOne \notin Workers /\ IsFiniteSet(Workers)
         /\ MaxReqs \in Nat \ {0} /\ MaxSends \in Nat /\ MaxOps \in Nat
         /\ MaxEntries \in Nat \ {0}

VARIABLES
  registry,   \* the registered manager, or 0 (_sessions_manager)
  regLock,    \* _sessions_lock
  made,       \* managers made so far; they are numbered
  lock,       \* lock[m]: the session lock of manager m
  draft,      \* draft[m]: what the summary of m shows
  cache,      \* cache[m]: the requests m can replay, oldest first
  prompt,     \* all happens within the time and size limits of the caches
  ask,        \* ask[r]: what request r asks for
  tok,        \* tok[r]: the token request r carries
  pc, job,    \* where worker w stands, and with what
  mgr,        \* mgr[w]: the manager worker w looked up
  sends, ops, \* the bounded counters
  root,       \* root[m]: the manager whose session m continues (history)
  turns,      \* turns[m]: the turns completed in that session (history)
  accepted,   \* accepted[m]: edits of session root m answered with success (history)
  published   \* published[r]: the summary request r published (history)

vars == <<registry, regLock, made, lock, draft, cache, prompt, ask, tok, pc, job,
          mgr, sends, ops, root, turns, accepted, published>>

books == <<prompt, root, turns, accepted, published>>

-----------------------------------------------------------------------------
(* Types *)

Reqs == 1..MaxReqs
Mgrs == 1..(MaxOps + 1)

\* The edits applied, the validation evidence, and whether the task is published.
Draft == [applied: [Reqs -> Nat], evidence: {0, 1}, done: BOOLEAN]
Empty == [applied |-> [r \in Reqs |-> 0], evidence |-> 0, done |-> FALSE]

\* A token is bound to one live manager (its epoch) and to what it shows.
Token      == [epoch: Mgrs, shown: Draft]
TokenOf(m) == [epoch |-> m, shown |-> draft[m]]

NoJob   == [kind |-> "turn", req |-> 0]
Jobs    == {"turn", "reset", "reload", "refresh"}
Asks    == {"none", "edit", "confirm"}
PcState == {"idle", "lookup", "find", "wait", "check", "work", "process"}

\* Every variable is in its domain, and a request cache keeps to its limit.
TypeOK ==
  /\ registry \in 0..made /\ made \in 0..(MaxOps + 1)
  /\ regLock \in Workers \cup {NoOne}
  /\ lock \in [Mgrs -> Workers \cup {NoOne}]
  /\ draft \in [Mgrs -> Draft]
  /\ cache \in [Mgrs -> Seq(Reqs)] /\ \A m \in Mgrs : Len(cache[m]) <= MaxEntries
  /\ prompt \in BOOLEAN
  /\ ask \in [Reqs -> Asks]
  /\ tok \in [Reqs -> Token \cup {NoTok}]
  /\ pc \in [Workers -> PcState]
  /\ job \in [Workers -> [kind: Jobs, req: 0..MaxReqs]]
  /\ mgr \in [Workers -> 0..(MaxOps + 1)]
  /\ sends \in 0..MaxSends /\ ops \in 0..MaxOps
  /\ root \in [Mgrs -> 0..(MaxOps + 1)]
  /\ turns \in [Mgrs -> Seq(Reqs)]
  /\ accepted \in [Mgrs -> SUBSET Reqs]
  /\ published \in [Reqs -> Token \cup {NoTok}]

-----------------------------------------------------------------------------
(* Clients *)

Goto(w, l) == pc' = [pc EXCEPT ![w] = l]

Begin(w, kind, r, l) ==
  /\ pc[w] = "idle"
  /\ job' = [job EXCEPT ![w] = [kind |-> kind, req |-> r]]
  /\ Goto(w, l)

End(w)   == Goto(w, "idle") /\ job' = [job EXCEPT ![w] = NoJob] /\ mgr' = [mgr EXCEPT ![w] = 0]
Leave(w) == End(w) /\ lock' = [lock EXCEPT ![mgr[w]] = NoOne]
Stay     == UNCHANGED <<lock, job, mgr>>

\* A new request id.  A confirmation carries the token of the summary that is
\* shown to its user when it is sent; it may arrive much later.
Send(w, r) ==
  /\ ask[r] = "none" /\ (r > 1 => ask[r - 1] # "none")
  /\ sends < MaxSends /\ sends' = sends + 1
  /\ Begin(w, "turn", r, "lookup")
  /\ \/ ask' = [ask EXCEPT ![r] = "edit"] /\ UNCHANGED tok
     \/ /\ ask' = [ask EXCEPT ![r] = "confirm"]
        /\ registry # 0 /\ lock[registry] = NoOne
        /\ tok' = [tok EXCEPT ![r] = TokenOf(registry)]
  /\ UNCHANGED <<registry, regLock, made, lock, draft, cache, mgr, ops, books>>

\* The response of a request was lost, and its client sends it again.
Resend(w, r) ==
  /\ ask[r] # "none"
  /\ sends < MaxSends /\ sends' = sends + 1
  /\ Begin(w, "turn", r, "lookup")
  /\ UNCHANGED <<registry, regLock, made, lock, draft, cache, ask, tok, mgr, ops, books>>

\* A reset, a configuration reload or a telemetry update.
Start(w, kind) ==
  /\ kind # "turn" /\ registry # 0
  /\ ops < MaxOps /\ ops' = ops + 1
  /\ Begin(w, kind, 0, "find")
  /\ UNCHANGED <<registry, regLock, made, lock, draft, cache, ask, tok, mgr, sends, books>>

-----------------------------------------------------------------------------
(* The registry and the session lock *)

\* get_or_create_manager: one section of the registry lock.
Lookup(w) ==
  /\ pc[w] = "lookup" /\ regLock = NoOne
  /\ IF registry # 0
     THEN mgr' = [mgr EXCEPT ![w] = registry] /\ UNCHANGED <<made, registry, root>>
     ELSE /\ made' = made + 1 /\ registry' = made + 1
          /\ root' = [root EXCEPT ![made + 1] = made + 1]
          /\ mgr' = [mgr EXCEPT ![w] = made + 1]
  /\ Goto(w, "wait")
  /\ UNCHANGED <<regLock, lock, draft, cache, ask, tok, job, sends, ops, prompt, turns,
                 accepted, published>>

\* The others list the registry, and give its lock back before they wait.
KeepsRegistry(w) == regLock' = w  \* mutant: the lock is kept while waiting
AfterFind(w) == UNCHANGED regLock

Find(w) ==
  /\ pc[w] = "find" /\ regLock = NoOne
  /\ IF registry = 0 THEN End(w) /\ UNCHANGED regLock
     ELSE /\ mgr' = [mgr EXCEPT ![w] = registry] /\ Goto(w, "wait") /\ AfterFind(w)
          /\ UNCHANGED job
  /\ UNCHANGED <<registry, made, lock, draft, cache, ask, tok, sends, ops, books>>

\* A telemetry update does not look at the registry again.
Enter(w) ==
  /\ pc[w] = "wait" /\ lock[mgr[w]] = NoOne
  /\ lock' = [lock EXCEPT ![mgr[w]] = w]
  /\ Goto(w, IF job[w].kind = "refresh" THEN "work" ELSE "check")
  /\ UNCHANGED <<registry, regLock, made, draft, cache, ask, tok, job, mgr, sends, ops, books>>


AnyManager(w) == TRUE  \* mutant: the registry is not checked again
Registered(w) == registry = mgr[w]

Check(w) ==
  /\ pc[w] = "check" /\ regLock = NoOne
  /\ IF Registered(w) THEN Goto(w, "work") /\ Stay ELSE Leave(w)
  /\ UNCHANGED <<registry, regLock, made, draft, cache, ask, tok, sends, ops, books>>

-----------------------------------------------------------------------------
(* A turn *)

Remembered(c, r) == \E i \in DOMAIN c : c[i] = r
Dropped(c, k)    == SubSeq(c, k + 1, Len(c))

\* Entries also expire, and give way to large ones, oldest first.
Expired(c) == {Dropped(c, k) : k \in IF prompt THEN {0} ELSE 0..Len(c)}

EpochOnly(r, m) == tok[r] # NoTok /\ tok[r].epoch = m  \* mutant
Reviewed(r, m) == tok[r] = TokenOf(m)

\* A remembered request is answered from the cache, whatever its outcome was.
\* A stale confirmation is refused, and not remembered.
Look(w) ==
  LET m == mgr[w]  r == job[w].req IN
  /\ pc[w] = "work" /\ job[w].kind = "turn"
  /\ \E c \in Expired(cache[m]) :
       /\ cache' = [cache EXCEPT ![m] = c]
       /\ IF Remembered(c, r) \/ (ask[r] = "confirm" /\ ~Reviewed(r, m))
          THEN Leave(w) ELSE Goto(w, "process") /\ Stay
  /\ UNCHANGED <<registry, regLock, made, draft, ask, tok, sends, ops, books>>

Kept(c) == IF Len(c) < MaxEntries THEN c ELSE Dropped(c, Len(c) - MaxEntries + 1)

\* An edit is applied, and may fail before or after it took effect; a confirmation
\* publishes, or is answered with what is missing.  Each outcome is remembered.
Process(w) ==
  LET m == mgr[w]  r == job[w].req IN
  /\ pc[w] = "process"
  /\ \/ /\ ask[r] = "edit"
        /\ draft' = [draft EXCEPT ![m].applied[r] = @ + 1, ![m].done = FALSE]
        /\ \/ accepted' = [accepted EXCEPT ![root[m]] = @ \cup {r}]
           \/ UNCHANGED accepted
        /\ UNCHANGED published
     \/ /\ ask[r] = "confirm" /\ ~draft[m].done
        /\ draft' = [draft EXCEPT ![m].done = TRUE]
        /\ published' = [published EXCEPT ![r] = TokenOf(m)]
        /\ UNCHANGED accepted
     \/ UNCHANGED <<draft, accepted, published>>
  /\ \E c \in Expired(cache[m]) : cache' = [cache EXCEPT ![m] = Append(Kept(c), r)]
  /\ turns' = [turns EXCEPT ![m] = Append(@, r)]
  /\ Leave(w)
  /\ UNCHANGED <<registry, regLock, made, ask, tok, sends, ops, prompt, root>>

-----------------------------------------------------------------------------
(* The other requests *)

Reset(w) ==
  /\ pc[w] = "work" /\ job[w].kind = "reset" /\ regLock = NoOne
  /\ registry' = 0
  /\ draft' = [draft EXCEPT ![mgr[w]] = Empty]
  /\ Leave(w)
  /\ UNCHANGED <<regLock, made, cache, ask, tok, sends, ops, books>>

\* refresh_external_state_constraints: only the evidence changes.
Refresh(w) ==
  /\ pc[w] = "work" /\ job[w].kind = "refresh"
  /\ draft' = [draft EXCEPT ![mgr[w]].evidence = 1 - @]
  /\ Leave(w)
  /\ UNCHANGED <<registry, regLock, made, cache, ask, tok, sends, ops, books>>

CacheLost(m) == <<>>  \* mutant: the new manager starts with an empty cache
Inherited(m) == cache[m]

\* A snapshot of the manager is loaded into a new one, which is validated again
\* and takes over the request cache; if anything fails the old one stays.
Migrate(w) ==
  LET old == mgr[w]  new == made + 1 IN
  /\ pc[w] = "work" /\ job[w].kind = "reload" /\ regLock = NoOne
  /\ \/ UNCHANGED <<registry, made, draft, cache, root, turns>>
     \/ /\ registry' = new /\ made' = new
        /\ \E e \in {0, 1} : draft' = [draft EXCEPT ![new] = [draft[old] EXCEPT !.evidence = e]]
        /\ cache' = [cache EXCEPT ![new] = Inherited(old)]
        /\ root' = [root EXCEPT ![new] = root[old]]
        /\ turns' = [turns EXCEPT ![new] = turns[old]]
  /\ Leave(w)
  /\ UNCHANGED <<regLock, ask, tok, sends, ops, prompt, accepted, published>>

-----------------------------------------------------------------------------
(* Specification *)

Init ==
  /\ registry = 0 /\ made = 0 /\ regLock = NoOne
  /\ lock = [m \in Mgrs |-> NoOne]
  /\ draft = [m \in Mgrs |-> Empty]
  /\ cache = [m \in Mgrs |-> <<>>]
  /\ prompt \in BOOLEAN
  /\ ask = [r \in Reqs |-> "none"]
  /\ tok = [r \in Reqs |-> NoTok]
  /\ pc = [w \in Workers |-> "idle"]
  /\ job = [w \in Workers |-> NoJob]
  /\ mgr = [w \in Workers |-> 0]
  /\ sends = 0 /\ ops = 0
  /\ root = [m \in Mgrs |-> 0]
  /\ turns = [m \in Mgrs |-> <<>>]
  /\ accepted = [m \in Mgrs |-> {}]
  /\ published = [r \in Reqs |-> NoTok]

Step(w) == \/ Lookup(w) \/ Find(w) \/ Enter(w) \/ Check(w)
           \/ Look(w) \/ Process(w) \/ Reset(w) \/ Refresh(w) \/ Migrate(w)

Next == \E w \in Workers :
  \/ \E r \in Reqs : Send(w, r) \/ Resend(w, r)
  \/ \E kind \in Jobs : Start(w, kind)
  \/ Step(w)

Spec == Init /\ [][Next]_vars

\* A thread that serves a request keeps running.
FairSpec == Spec /\ \A w \in Workers : WF_vars(Step(w))

-----------------------------------------------------------------------------
(* Properties *)

Recent(s) == {s[i] : i \in {j \in DOMAIN s : j + MaxEntries > Len(s)}}

\* ChatRequestCache: a repeated request is not applied again to a session that
\* still remembers it, although its first answer may have been a failure after
\* the edit took effect, two threads may serve it at once, and a reload may have
\* replaced the manager in between.
NotReapplied ==
  [][prompt => \A m \in 1..made, r \in Reqs :
       draft'[m].applied[r] > draft[m].applied[r] => r \notin Recent(turns[m])]_vars

\* confirmation_conflict: what a confirmation publishes is what was shown when it
\* was sent, on the same manager, with the same validation evidence.
ConfirmedAsShown == \A r \in Reqs : published[r] # NoTok => published[r] = tok[r]

\* An edit that was answered with success is part of the session, also when a
\* reload replaced the manager while the request was waiting for it.
AcceptedIsKept ==
  registry # 0 => \A r \in accepted[root[registry]] : draft[registry].applied[r] > 0

\* A removed manager publishes nothing: its task would be invisible to the user.
PublishedIsVisible ==
  [][\A r \in Reqs : published'[r] # published[r] => published'[r].epoch = registry']_vars

\* Every request ends: none waits for the session lock while it holds the lock of
\* the registry.
RequestsEnd == \A w \in Workers : pc[w] # "idle" ~> pc[w] = "idle"
=============================================================================
