-------------------------- MODULE InteractiveTurns --------------------------
(***************************************************************************)
(* The turn engine of cc-connect (core/engine.go) for one chat: the        *)
(* Session busy flag, the interactiveState objects that occupy the chat's  *)
(* slot in Engine.interactiveStates, their queues of pending messages, the *)
(* agent processes behind them, and the goroutines that run turns.         *)
(*                                                                         *)
(* A request is one incoming message or command, and names the goroutine   *)
(* that handles it.  A step is what a goroutine does under one lock, or    *)
(* between two waits.  A goroutine started by a message m that creates a   *)
(* placeholder, a state, or an agent process names it after m.             *)
(***************************************************************************)
EXTENDS Naturals, Sequences, FiniteSets

CONSTANTS
  Msg,            \* ordinary chat messages
  StopCmd,        \* /stop commands
  NewCmd,         \* /new commands
  CompressCmd,    \* /compress commands
  Answer,         \* allow / deny answers to a permission prompt
  First,          \* the Session that is active at the start
  None,           \* nil
  MaxQueue,       \* maxQueuedMessages (5 in the code)
  MaxAsks,        \* bound: permission requests per goroutine
  AutoCompress,   \* TRUE when auto_compress is configured
  MaxDepth,       \* bound: nested auto-compressions
  Faults          \* which failures of agents and platforms may happen

FaultKinds == {"start", "death", "send", "reply", "error", "idle", "shutdown"}

Request == Msg \cup StopCmd \cup NewCmd \cup CompressCmd \cup Answer
Runner  == Msg \cup CompressCmd          \* goroutines that may hold a Session
Session == {First} \cup NewCmd           \* NewSession of /new names its Session
State   == Msg \X {"slot", "live"}       \* placeholder and started states
Agent   == Msg                           \* agent processes, by who started them
Perm    == Runner \X (1 .. MaxAsks)      \* pendingPermission objects

ASSUME Disjoint ==
  /\ Msg \cap (StopCmd \cup NewCmd \cup CompressCmd \cup Answer) = {}
  /\ StopCmd \cap (NewCmd \cup CompressCmd \cup Answer) = {}
  /\ NewCmd \cap (CompressCmd \cup Answer) = {}
  /\ CompressCmd \cap Answer = {}
  /\ First \notin Request
  /\ None \notin Request \cup {First} \cup State \cup Perm
ASSUME Bounds == /\ MaxQueue \in Nat \ {0} /\ MaxAsks \in Nat /\ MaxDepth \in Nat
ASSUME Switches == AutoCompress \in BOOLEAN /\ Faults \subseteq FaultKinds

VARIABLES
  active,    \* the chat's active Session
  busy,      \* Session.busy
  sid,       \* Session.AgentSessionID: a conversation, or None
  entry,     \* Engine.interactiveStates[key]
  agentOf,   \* interactiveState.agentSession
  stopped,   \* interactiveState.stopped (and its stopCh)
  queue,     \* interactiveState.pendingMessages
  pending,   \* interactiveState.pending
  life,      \* agent process: not started, up, dead (events open), closed
  conv,      \* the conversation an agent process runs
  shown,     \* CurrentSessionID() is no longer empty
  phase,     \* of the engine: run, cancel (ctx canceled), swept by Stop
  pc,        \* where each goroutine is
  sess,      \* its session
  mine,      \* its state
  cur,       \* the message whose turn it runs
  on,        \* the agent whose event channel (or Close) it works on
  sent,      \* the Send of the current turn has returned
  depth,     \* runCompress frames below the current one
  asks,      \* permission requests it has made
  grip,      \* a pendingPermission it has read and will resolve
  tgt,       \* cleanupInteractiveState: the state it works on
  strict,    \* cleanupInteractiveState: called with an expected state
  ret,       \* cleanupInteractiveState: where the caller continues
  fate,      \* what became of each message, as its sender sees it (history)
  late,      \* states with a goroutine of Send that its turn has left behind
  panicked   \* a nil agentSession was dereferenced: the process is gone

sessVars  == <<active, busy, sid>>
stateVars == <<entry, agentOf, stopped, queue, pending>>
agentVars == <<life, conv, shown>>
turnVars  == <<sess, mine, cur, on, sent, depth, asks, grip>>
cleanVars == <<tgt, strict, ret>>
procVars  == <<late, panicked>>
vars == <<sessVars, stateVars, agentVars, phase, pc, turnVars, cleanVars,
          fate, procVars>>

-----------------------------------------------------------------------------
(* Helpers *)

ctxDone == phase # "run"      \* Engine.ctx.Err() != nil

\* agentSession != nil && agentSession.Alive()
Usable(q) == agentOf[q] # None /\ life[agentOf[q]] = "up"

Waiting(q) == {queue[q][i] : i \in DOMAIN queue[q]}

\* The fates after notifyDroppedQueuedMessages(q).
Dropped(q) == [m \in Msg |-> IF m \in Waiting(q) THEN "dropped" ELSE fate[m]]

\* The fates after the turn of goroutine r ends with the news f.
Told(f, r, news) == IF cur[r] = None THEN f ELSE [f EXCEPT ![cur[r]] = news]

\* Goroutine r is at p, and the process has not crashed.
At(r, p) == pc[r] = p /\ ~panicked

Go(r, p) == pc' = [pc EXCEPT ![r] = p]

\* Session.CompareAndSetAgentSessionID with the id of agent a.
Bind(s, a) == sid' = IF sid[s] = None THEN [sid EXCEPT ![s] = conv[a]] ELSE sid

\* pending.resolve() wakes the turn that waits for exactly this request.
Woken(p) == IF p # None /\ pc[p[1]] = "perm" /\ asks[p[1]] = p[2]
            THEN [pc EXCEPT ![p[1]] = "events"] ELSE pc

\* A method call on a nil agentSession.
NilCall(r) == /\ agentOf[mine[r]] = None
              /\ panicked' = TRUE
              /\ UNCHANGED <<sessVars, stateVars, agentVars, phase, pc,
                             turnVars, cleanVars, fate, late>>

Init ==
  /\ active = First
  /\ busy = [s \in Session |-> FALSE]
  /\ sid = [s \in Session |-> None]
  /\ entry = None
  /\ agentOf = [q \in State |-> None]
  /\ stopped = [q \in State |-> FALSE]
  /\ queue = [q \in State |-> <<>>]
  /\ pending = [q \in State |-> None]
  /\ life = [a \in Agent |-> "none"]
  /\ conv = [a \in Agent |-> a]
  /\ shown = [a \in Agent |-> FALSE]
  /\ phase = "run"
  /\ pc = [r \in Request |-> "idle"]
  /\ sess = [r \in Request |-> None]
  /\ mine = [r \in Request |-> None]
  /\ cur = [r \in Request |-> None]
  /\ on = [r \in Request |-> None]
  /\ sent = [r \in Request |-> FALSE]
  /\ depth = [r \in Request |-> 0]
  /\ asks = [r \in Request |-> 0]
  /\ grip = [r \in Request |-> None]
  /\ tgt = [r \in Request |-> None]
  /\ strict = [r \in Request |-> FALSE]
  /\ ret = [r \in Request |-> "done"]
  /\ fate = [m \in Msg |-> "none"]
  /\ late = {}
  /\ panicked = FALSE

-----------------------------------------------------------------------------
(* handleMessage *)

\* A message that is no answer while a permission is pending gets a hint.
HintPending(m) ==
  /\ At(m, "idle")
  /\ entry # None /\ pending[entry] # None /\ Usable(entry)
  /\ Go(m, "done")
  /\ fate' = [fate EXCEPT ![m] = "hinted"]
  /\ UNCHANGED <<sessVars, stateVars, agentVars, phase, turnVars, cleanVars,
                 procVars>>

\* GetOrCreateActive.
Arrive(m) ==
  /\ At(m, "idle")
  /\ ~(entry # None /\ pending[entry] # None /\ Usable(entry))
  /\ sess' = [sess EXCEPT ![m] = active]
  /\ Go(m, "try")
  /\ UNCHANGED <<sessVars, stateVars, agentVars, phase, mine, cur, on, sent,
                 depth, asks, grip, cleanVars, fate, procVars>>

\* session.TryLock().
TryLock(m) ==
  /\ At(m, "try")
  /\ \/ /\ ~busy[sess[m]]
        /\ busy' = [busy EXCEPT ![sess[m]] = TRUE]
        /\ Go(m, "slot")
        /\ cur' = [cur EXCEPT ![m] = m]
        /\ fate' = [fate EXCEPT ![m] = "turn"]
     \/ /\ busy[sess[m]]
        /\ Go(m, "enqueue")
        /\ UNCHANGED <<busy, cur, fate>>
  /\ UNCHANGED <<active, sid, stateVars, agentVars, phase, sess, mine, on,
                 sent, depth, asks, grip, cleanVars, procVars>>

\* Mutant: the limit is off by one.
CanQueueOneMore(q) == /\ agentOf[q] = None \/ Usable(q)
                      /\ Len(queue[q]) <= MaxQueue

CanQueue(q) == /\ agentOf[q] = None \/ Usable(q)
               /\ Len(queue[q]) < MaxQueue

\* queueMessageForBusySession, all of it under interactiveMu and state.mu.
QueueMessage(m) ==
  /\ At(m, "enqueue")
  /\ \/ /\ entry # None /\ CanQueue(entry)
        /\ queue' = [queue EXCEPT ![entry] = Append(@, m)]
        /\ fate' = [fate EXCEPT ![m] = "queued"]
        /\ Go(m, "retry")
     \/ /\ ~(entry # None /\ CanQueue(entry))
        /\ fate' = [fate EXCEPT ![m] = "rejected"]
        /\ Go(m, "done")
        /\ UNCHANGED queue
  /\ UNCHANGED <<sessVars, entry, agentOf, stopped, pending, agentVars, phase,
                 turnVars, cleanVars, procVars>>

\* Mutant: no second TryLock after queueing.
NoRetryLock(m) ==
  /\ At(m, "retry")
  /\ Go(m, "done")
  /\ UNCHANGED <<sessVars, stateVars, agentVars, phase, turnVars, cleanVars, fate,
                 procVars>>

\* Mutant: the second TryLock takes the lock whether it is free or not.
RetryLockAnyway(m) ==
  /\ At(m, "retry")
  /\ busy' = [busy EXCEPT ![sess[m]] = TRUE]
  /\ Go(m, "orphan")
  /\ UNCHANGED <<active, sid, stateVars, agentVars, phase, turnVars, cleanVars,
                 fate, procVars>>

\* The race guard: if the lock is free now, nobody drains the queue.
RetryLock(m) ==
  /\ At(m, "retry")
  /\ \/ /\ ~busy[sess[m]]
        /\ busy' = [busy EXCEPT ![sess[m]] = TRUE]
        /\ Go(m, "orphan")
     \/ /\ busy[sess[m]]
        /\ Go(m, "done")
        /\ UNCHANGED busy
  /\ UNCHANGED <<active, sid, stateVars, agentVars, phase, turnVars,
                 cleanVars, fate, procVars>>

\* drainOrphanedQueue, up to its call of drainPendingMessages.
DrainOrphaned(m) ==
  /\ At(m, "orphan")
  /\ \/ /\ entry # None /\ Usable(entry)
        /\ mine' = [mine EXCEPT ![m] = entry]
        /\ Go(m, "drain")
        /\ UNCHANGED <<queue, fate>>
     \/ /\ ~(entry # None /\ Usable(entry))
        /\ Go(m, "release")
        /\ IF entry = None
           THEN UNCHANGED <<queue, fate>>
           ELSE /\ fate' = Dropped(entry)
                /\ queue' = [queue EXCEPT ![entry] = <<>>]
        /\ UNCHANGED mine
  /\ UNCHANGED <<sessVars, entry, agentOf, stopped, pending, agentVars, phase,
                 sess, cur, on, sent, depth, asks, grip, cleanVars, procVars>>

\* ensureInteractiveStateForQueueing, then go processInteractiveMessageWith.
EnsureSlot(m) ==
  /\ At(m, "slot")
  /\ entry' = IF entry = None THEN <<m, "slot">> ELSE entry
  /\ Go(m, "start")
  /\ UNCHANGED <<sessVars, agentOf, stopped, queue, pending, agentVars, phase,
                 turnVars, cleanVars, fate, procVars>>

-----------------------------------------------------------------------------
(* processInteractiveMessageWith and getOrCreateInteractiveStateWith *)

\* Mutant: the early return forgets the lock.
AbandonLocked(m) ==
  /\ At(m, "start") /\ ctxDone
  /\ Go(m, "done")
  /\ fate' = [fate EXCEPT ![m] = "stopped"]
  /\ UNCHANGED <<sessVars, stateVars, agentVars, phase, turnVars, cleanVars,
                 procVars>>

\* The early return on a canceled context.
Abandon(m) ==
  /\ At(m, "start") /\ ctxDone
  /\ Go(m, "release")
  /\ fate' = [fate EXCEPT ![m] = "stopped"]
  /\ UNCHANGED <<sessVars, stateVars, agentVars, phase, turnVars, cleanVars,
                 procVars>>

\* The live agent reports another conversation than the Session wants.
Mismatch(m) == LET a == agentOf[entry]
               IN  shown[a] /\ conv[a] # sid[sess[m]]

\* The entry's agent is alive and fits the Session.
Fits(m) == entry # None /\ Usable(entry) /\ ~Mismatch(m)

Reuse(m) ==
  /\ At(m, "start") /\ ~ctxDone
  /\ Fits(m)
  /\ mine' = [mine EXCEPT ![m] = entry]
  /\ Go(m, "ready")
  /\ UNCHANGED <<sessVars, stateVars, agentVars, phase, sess, cur, on, sent,
                 depth, asks, grip, cleanVars, fate, procVars>>

\* Mutant: the queue of the replaced entry is copied and stays.
InstallCopy(m, recycle) ==
  LET new == <<m, "live">>
  IN  /\ entry' = new
      /\ mine' = [mine EXCEPT ![m] = new]
      /\ Go(m, "ready")
      /\ queue' = IF entry = None \/ recycle THEN queue
                  ELSE [queue EXCEPT ![new] = queue[entry]]
      /\ stopped' = IF recycle THEN [stopped EXCEPT ![entry] = TRUE] ELSE stopped

\* A new state <<m, "live">> replaces the entry.  It adopts the queue of the
\* entry it replaces, unless that entry was recycled.
Install(m, recycle) ==
  LET new == <<m, "live">>
  IN  /\ entry' = new
      /\ mine' = [mine EXCEPT ![m] = new]
      /\ Go(m, "ready")
      /\ queue' = IF entry = None \/ recycle THEN queue
                  ELSE [queue EXCEPT ![new] = queue[entry], ![entry] = <<>>]
      /\ stopped' = IF recycle THEN [stopped EXCEPT ![entry] = TRUE] ELSE stopped

\* StartSession succeeds: it resumes the wanted conversation, or starts a fresh
\* one when none is wanted or when the resume failed.  All under interactiveMu,
\* including the close of a recycled agent.
StartAgent(m) ==
  /\ At(m, "start") /\ ~ctxDone /\ ~Fits(m)
  /\ LET recycle == entry # None /\ Usable(entry)
         want    == sid[sess[m]]
         stale   == IF recycle THEN {agentOf[entry]} ELSE {}
     IN  \E c \in {want, m}, knows \in BOOLEAN :
           /\ c # None
           /\ c = m => want \in {None, m} \/ "start" \in Faults
           /\ Install(m, recycle)
           /\ agentOf' = [agentOf EXCEPT ![<<m, "live">>] = m]
           /\ life' = [a \in Agent |-> IF a = m THEN "up"
                                       ELSE IF a \in stale THEN "closed" ELSE life[a]]
           /\ conv' = [conv EXCEPT ![m] = c]
           /\ shown' = [shown EXCEPT ![m] = knows]
           /\ sid' = IF knows /\ want = None THEN [sid EXCEPT ![sess[m]] = c]
                     ELSE sid
  /\ UNCHANGED <<active, busy, pending, phase, sess, cur, on, sent, depth, asks,
                 grip, cleanVars, fate, procVars>>

\* StartSession fails, or the context is canceled before it is called: the
\* entry gets a state without an agent.
StartFails(m) ==
  /\ At(m, "start") /\ ~Fits(m)
  /\ ctxDone \/ "start" \in Faults
  /\ LET recycle == entry # None /\ Usable(entry)
     IN  /\ Install(m, recycle)
         /\ life' = IF recycle THEN [life EXCEPT ![agentOf[entry]] = "closed"]
                    ELSE life
  /\ UNCHANGED <<sessVars, agentOf, pending, conv, shown, phase, sess, cur, on,
                 sent, depth, asks, grip, cleanVars, fate, procVars>>

\* No agent: the sender is told, and the goroutine unlocks without draining.
Ready(m) ==
  /\ At(m, "ready")
  /\ \/ /\ agentOf[mine[m]] = None
        /\ fate' = [fate EXCEPT ![m] = "failed"]
        /\ Go(m, "release")
     \/ /\ agentOf[mine[m]] # None
        /\ Go(m, "send")
        /\ UNCHANGED fate
  /\ UNCHANGED <<sessVars, stateVars, agentVars, phase, turnVars, cleanVars,
                 procVars>>

\* drainEvents, go Send, and the start of processInteractiveEvents.
Dispatch(r) ==
  /\ At(r, "send")
  /\ \/ NilCall(r)
     \/ /\ agentOf[mine[r]] # None
        /\ on' = [on EXCEPT ![r] = agentOf[mine[r]]]
        /\ sent' = [sent EXCEPT ![r] = FALSE]
        /\ Go(r, "events")
        /\ UNCHANGED <<sessVars, stateVars, agentVars, phase, sess, mine, cur,
                       depth, asks, grip, cleanVars, fate, procVars>>

-----------------------------------------------------------------------------
(* processInteractiveEvents *)

\* Mutant: the result of Send can be handed over only while the loop selects.
SendReturnsInSelect(r) ==
  /\ At(r, "events") /\ ~sent[r] /\ agentOf[mine[r]] # None
  /\ sent' = [sent EXCEPT ![r] = TRUE]
  /\ UNCHANGED <<sessVars, stateVars, agentVars, phase, pc, sess, mine, cur, on,
                 depth, asks, grip, cleanVars, fate, procVars>>

\* The goroutine of Send evaluates state.agentSession and returns nil.
SendReturns(r) ==
  /\ \E p \in {"events", "event", "perm", "result", "next", "last"} : At(r, p)
  /\ ~sent[r]
  /\ \/ NilCall(r)
     \/ /\ agentOf[mine[r]] # None
        /\ sent' = [sent EXCEPT ![r] = TRUE]
        /\ UNCHANGED <<sessVars, stateVars, agentVars, phase, pc, sess, mine,
                       cur, on, depth, asks, grip, cleanVars, fate, procVars>>

\* Call cleanupInteractiveState(key, state) and continue at p.
Cleanup(r, p) == /\ Go(r, "detach")
                 /\ tgt' = [tgt EXCEPT ![r] = mine[r]]
                 /\ strict' = [strict EXCEPT ![r] = TRUE]
                 /\ ret' = [ret EXCEPT ![r] = p]

NoCleanup == UNCHANGED cleanVars

DropQueue(q) == queue' = [queue EXCEPT ![q] = <<>>]

SendFails(r) ==
  /\ At(r, "events") /\ ~sent[r] /\ agentOf[mine[r]] # None
  /\ "send" \in Faults \/ ~Usable(mine[r])
  /\ DropQueue(mine[r])
  /\ fate' = Told(Dropped(mine[r]), r, "failed")
  /\ sent' = [sent EXCEPT ![r] = TRUE]
  /\ IF Usable(mine[r]) THEN Go(r, "drain") /\ NoCleanup ELSE Cleanup(r, "drain")
  /\ UNCHANGED <<sessVars, entry, agentOf, stopped, pending, agentVars, phase,
                 sess, mine, cur, on, depth, asks, grip, procVars>>

\* The turn returns without a look at its Send: the goroutine of a Send that has
\* not returned is left behind.
LeaveSend(r) == /\ late' = IF sent[r] THEN late ELSE late \cup {mine[r]}
                /\ UNCHANGED panicked

\* stopCh is closed, or the context is canceled: the turn returns.
SeeStop(r) ==
  /\ At(r, "events")
  /\ stopped[mine[r]] \/ ctxDone
  /\ fate' = Told(fate, r, "stopped")
  /\ LeaveSend(r)
  /\ Go(r, "drain")
  /\ UNCHANGED <<sessVars, stateVars, agentVars, phase, turnVars, cleanVars>>

\* An event has arrived and isStopped() was false: it will be handled now,
\* whatever happens to the state meanwhile.
ReceiveEvent(r) ==
  /\ At(r, "events")
  /\ life[on[r]] \in {"up", "dead"}
  /\ ~stopped[mine[r]]
  /\ Go(r, "event")
  /\ UNCHANGED <<sessVars, stateVars, agentVars, phase, turnVars, cleanVars, fate,
                 procVars>>

\* EventText with a session id.
EventText(r) ==
  /\ At(r, "event") /\ ~shown[on[r]]
  /\ shown' = [shown EXCEPT ![on[r]] = TRUE]
  /\ Bind(sess[r], on[r])
  /\ Go(r, "events")
  /\ UNCHANGED <<active, busy, stateVars, life, conv, phase, turnVars, cleanVars,
                 fate, procVars>>

\* EventPermissionRequest, up to the wait for pending.Resolved.
EventPermission(r) ==
  /\ At(r, "event") /\ asks[r] < MaxAsks
  /\ asks' = [asks EXCEPT ![r] = @ + 1]
  /\ pending' = [pending EXCEPT ![mine[r]] = <<r, asks[r] + 1>>]
  /\ Go(r, "perm")
  /\ UNCHANGED <<sessVars, entry, agentOf, stopped, queue, agentVars, phase,
                 sess, mine, cur, on, sent, depth, grip, cleanVars, fate, procVars>>

\* EventResult: the Session learns the conversation id.
LearnID(r) == IF agentOf[mine[r]] # None /\ shown[agentOf[mine[r]]]
              THEN Bind(sess[r], agentOf[mine[r]]) ELSE UNCHANGED sid

\* The reply cannot be delivered: the turn returns at once.
ResultUnsent(r) ==
  /\ At(r, "event") /\ "reply" \in Faults
  /\ LearnID(r)
  /\ fate' = Told(fate, r, "failed")
  /\ LeaveSend(r)
  /\ Go(r, "drain")
  /\ UNCHANGED <<active, busy, stateVars, agentVars, phase, turnVars, cleanVars>>

\* The reply goes out.
ResultSent(r) ==
  /\ At(r, "event")
  /\ LearnID(r)
  /\ fate' = Told(fate, r, "answered")
  /\ Go(r, "result")
  /\ UNCHANGED <<active, busy, stateVars, agentVars, phase, turnVars,
                 cleanVars, procVars>>

\* Auto-compress: when the Send of this turn has returned, runCompress is called
\* inline.
ResultCompress(r) ==
  /\ At(r, "result") /\ sent[r]
  /\ AutoCompress /\ depth[r] < MaxDepth
  /\ depth' = [depth EXCEPT ![r] = @ + 1]
  /\ cur' = [cur EXCEPT ![r] = None]
  /\ Go(r, "compress")
  /\ UNCHANGED <<sessVars, stateVars, agentVars, phase, sess, mine, on, sent, asks,
                 grip, cleanVars, fate, procVars>>

\* Mutant: the youngest message is served first.
ResultNewest(r) ==
  /\ At(r, "result") /\ queue[mine[r]] # <<>>
  /\ LET last == Len(queue[mine[r]])
         next == queue[mine[r]][last]
     IN  /\ cur' = [cur EXCEPT ![r] = next]
         /\ fate' = [fate EXCEPT ![next] = "turn"]
         /\ queue' = [queue EXCEPT ![mine[r]] = SubSeq(@, 1, last - 1)]
  /\ Go(r, "next")
  /\ UNCHANGED <<sessVars, entry, agentOf, stopped, pending, agentVars, phase, sess,
                 mine, on, sent, depth, asks, grip, cleanVars, procVars>>

\* The next queued message becomes the turn of the same event loop.
ResultNext(r) ==
  /\ At(r, "result") /\ queue[mine[r]] # <<>>
  /\ LET next == Head(queue[mine[r]])
     IN  /\ cur' = [cur EXCEPT ![r] = next]
         /\ fate' = [fate EXCEPT ![next] = "turn"]
         /\ queue' = [queue EXCEPT ![mine[r]] = Tail(@)]
  /\ Go(r, "next")
  /\ UNCHANGED <<sessVars, entry, agentOf, stopped, pending, agentVars, phase, sess,
                 mine, on, sent, depth, asks, grip, cleanVars, procVars>>

\* drainEvents, the wait for the previous Send, and go Send.
SendNext(r) ==
  /\ At(r, "next")
  /\ \/ NilCall(r)
     \/ /\ agentOf[mine[r]] # None /\ sent[r]
        /\ sent' = [sent EXCEPT ![r] = FALSE]
        /\ Go(r, "events")
        /\ UNCHANGED <<sessVars, stateVars, agentVars, phase, sess, mine, cur, on,
                       depth, asks, grip, cleanVars, fate, procVars>>

\* Nothing is queued: the turn waits for its Send and returns.
ResultLast(r) ==
  /\ At(r, "result") /\ queue[mine[r]] = <<>>
  /\ Go(r, "last")
  /\ UNCHANGED <<sessVars, stateVars, agentVars, phase, turnVars, cleanVars, fate,
                 procVars>>

ReturnLast(r) ==
  /\ At(r, "last") /\ sent[r]
  /\ Go(r, "drain")
  /\ UNCHANGED <<sessVars, stateVars, agentVars, phase, turnVars, cleanVars, fate,
                 procVars>>

\* EventError: the queue is dropped only when the agent is gone.
EventError(r) ==
  /\ At(r, "event")
  /\ "error" \in Faults \/ life[on[r]] # "up"
  /\ LeaveSend(r)
  /\ Go(r, "drain")
  /\ IF Usable(mine[r])
     THEN /\ fate' = Told(fate, r, "failed")
          /\ UNCHANGED queue
     ELSE /\ fate' = Told(Dropped(mine[r]), r, "failed")
          /\ DropQueue(mine[r])
  /\ UNCHANGED <<sessVars, entry, agentOf, stopped, pending, agentVars, phase,
                 turnVars, cleanVars>>

\* The event channel is closed: the agent process exited.
ChannelClosed(r) ==
  /\ At(r, "events") /\ life[on[r]] = "closed"
  /\ fate' = Told(Dropped(mine[r]), r, "exited")
  /\ DropQueue(mine[r])
  /\ LeaveSend(r)
  /\ Cleanup(r, "drain")
  /\ UNCHANGED <<sessVars, entry, agentOf, stopped, pending, agentVars, phase,
                 turnVars>>

IdleTimeout(r) ==
  /\ At(r, "events") /\ "idle" \in Faults
  /\ fate' = Told(fate, r, "failed")
  /\ LeaveSend(r)
  /\ Cleanup(r, "drain")
  /\ UNCHANGED <<sessVars, stateVars, agentVars, phase, turnVars>>

\* A goroutine of Send that was left behind evaluates state.agentSession only now.
LateSend(q) ==
  /\ q \in late /\ ~panicked
  /\ \/ /\ agentOf[q] = None
        /\ panicked' = TRUE
        /\ UNCHANGED late
     \/ /\ agentOf[q] # None
        /\ late' = late \ {q}
        /\ UNCHANGED panicked
  /\ UNCHANGED <<sessVars, stateVars, agentVars, phase, pc, turnVars, cleanVars,
                 fate>>

-----------------------------------------------------------------------------
(* drainPendingMessages, and the deferred Unlock *)

\* Mutant: the deferred Unlock is missing.
ReturnLocked(r) ==
  /\ IF depth[r] = 0
     THEN Go(r, "done") /\ UNCHANGED depth
     ELSE Go(r, "drain") /\ depth' = [depth EXCEPT ![r] = @ - 1]
  /\ UNCHANGED <<sessVars, stateVars, agentVars, phase, sess, mine, cur, on, sent,
                 asks, grip, cleanVars, fate, procVars>>

\* Unlock, and return from the innermost runCompress or from the goroutine.
UnlockAndReturn(r) ==
  /\ busy' = [busy EXCEPT ![sess[r]] = FALSE]
  /\ IF depth[r] = 0
     THEN Go(r, "done") /\ UNCHANGED depth
     ELSE Go(r, "drain") /\ depth' = [depth EXCEPT ![r] = @ - 1]
  /\ UNCHANGED <<active, sid, stateVars, agentVars, phase, sess, mine, cur, on,
                 sent, asks, grip, cleanVars, fate, procVars>>

\* The queue is empty: unlock while state.mu is still held.
DrainEmpty(r) ==
  /\ At(r, "drain") /\ queue[mine[r]] = <<>>
  /\ UnlockAndReturn(r)

\* The deferred session.Unlock() of the paths that did not drain.
Release(r) ==
  /\ At(r, "release")
  /\ UnlockAndReturn(r)

\* Mutant: the next message runs a turn whatever became of the agent.
DrainUnchecked(r) ==
  /\ At(r, "drain") /\ queue[mine[r]] # <<>>
  /\ LET next == Head(queue[mine[r]])
     IN  /\ queue' = [queue EXCEPT ![mine[r]] = Tail(@)]
         /\ cur' = [cur EXCEPT ![r] = next]
         /\ fate' = [fate EXCEPT ![next] = "turn"]
  /\ Go(r, "send")
  /\ UNCHANGED <<sessVars, entry, agentOf, stopped, pending, agentVars, phase,
                 sess, mine, on, sent, depth, asks, grip, cleanVars, procVars>>

\* The next message runs a turn, or it and the rest are told the agent is gone.
DrainNext(r) ==
  /\ At(r, "drain") /\ queue[mine[r]] # <<>>
  /\ LET next == Head(queue[mine[r]])
     IN  \/ /\ Usable(mine[r])
            /\ queue' = [queue EXCEPT ![mine[r]] = Tail(@)]
            /\ cur' = [cur EXCEPT ![r] = next]
            /\ fate' = [fate EXCEPT ![next] = "turn"]
            /\ Go(r, "send")
         \/ /\ ~Usable(mine[r])
            /\ DropQueue(mine[r])
            /\ fate' = Dropped(mine[r])
            /\ Go(r, "release")
            /\ UNCHANGED cur
  /\ UNCHANGED <<sessVars, entry, agentOf, stopped, pending, agentVars, phase,
                 sess, mine, on, sent, depth, asks, grip, cleanVars, procVars>>

-----------------------------------------------------------------------------
(* cleanupInteractiveState *)

\* Under interactiveMu: take the agent away from the state.
Detach(r) ==
  /\ At(r, "detach")
  /\ \/ /\ strict[r] /\ entry # tgt[r]
        /\ Go(r, ret[r])
        /\ UNCHANGED <<agentOf, on, tgt>>
     \/ /\ entry = None /\ ~strict[r]
        /\ tgt' = [tgt EXCEPT ![r] = None]
        /\ Go(r, "unmap")
        /\ UNCHANGED <<agentOf, on>>
     \/ /\ entry # None /\ (strict[r] => entry = tgt[r])
        /\ tgt' = [tgt EXCEPT ![r] = entry]
        /\ on' = [on EXCEPT ![r] = agentOf[entry]]
        /\ agentOf' = [agentOf EXCEPT ![entry] = None]
        /\ Go(r, "notify")
  /\ UNCHANGED <<sessVars, entry, stopped, queue, pending, agentVars, phase, sess,
                 mine, cur, sent, depth, asks, grip, strict, ret, fate, procVars>>

\* markStopped and notifyDroppedQueuedMessages.
Notify(r) ==
  /\ At(r, "notify")
  /\ stopped' = [stopped EXCEPT ![tgt[r]] = TRUE]
  /\ fate' = Dropped(tgt[r])
  /\ DropQueue(tgt[r])
  /\ Go(r, "close")
  /\ UNCHANGED <<sessVars, entry, agentOf, pending, agentVars, phase, turnVars,
                 cleanVars, procVars>>

CloseAgent(a) == life' = IF a = None THEN life ELSE [life EXCEPT ![a] = "closed"]

\* closeAgentSessionWithTimeout has returned.
Close(r) ==
  /\ At(r, "close")
  /\ CloseAgent(on[r])
  /\ Go(r, "unmap")
  /\ UNCHANGED <<sessVars, stateVars, conv, shown, phase, turnVars, cleanVars,
                 fate, procVars>>

\* Under interactiveMu again: only a caller that named its state looks whether
\* the entry was replaced meanwhile.
Unmap(r) ==
  /\ At(r, "unmap")
  /\ entry' = IF strict[r] /\ entry # None /\ entry # tgt[r] THEN entry ELSE None
  /\ Go(r, ret[r])
  /\ UNCHANGED <<sessVars, agentOf, stopped, queue, pending, agentVars, phase,
                 turnVars, cleanVars, fate, procVars>>

-----------------------------------------------------------------------------
(* cmdCompress, runCompress and processCompressEvents *)

CmdCompress(c) ==
  /\ At(c, "idle")
  /\ \/ /\ entry # None /\ Usable(entry)
        /\ mine' = [mine EXCEPT ![c] = entry]
        /\ sess' = [sess EXCEPT ![c] = active]
        /\ Go(c, "ctry")
     \/ /\ ~(entry # None /\ Usable(entry))
        /\ Go(c, "done")
        /\ UNCHANGED <<mine, sess>>
  /\ UNCHANGED <<sessVars, stateVars, agentVars, phase, cur, on, sent, depth, asks,
                 grip, cleanVars, fate, procVars>>

CompressTryLock(c) ==
  /\ At(c, "ctry")
  /\ \/ /\ ~busy[sess[c]]
        /\ busy' = [busy EXCEPT ![sess[c]] = TRUE]
        /\ Go(c, "compress")
     \/ /\ busy[sess[c]]
        /\ Go(c, "done")
        /\ UNCHANGED busy
  /\ UNCHANGED <<active, sid, stateVars, agentVars, phase, turnVars, cleanVars,
                 fate, procVars>>

\* drainEvents and Send of the compress command, in this goroutine.
RunCompress(r) ==
  /\ At(r, "compress")
  /\ \/ NilCall(r)
     \/ /\ agentOf[mine[r]] # None
        /\ \/ /\ on' = [on EXCEPT ![r] = agentOf[mine[r]]]
              /\ Go(r, "cwait")
              /\ UNCHANGED cleanVars
           \/ /\ "send" \in Faults \/ ~Usable(mine[r])
              /\ IF Usable(mine[r])
                 THEN Go(r, "release") /\ UNCHANGED cleanVars
                 ELSE /\ Go(r, "detach")
                      /\ strict' = [strict EXCEPT ![r] = FALSE]
                      /\ ret' = [ret EXCEPT ![r] = "release"]
                      /\ UNCHANGED tgt
              /\ UNCHANGED on
        /\ UNCHANGED <<sessVars, stateVars, agentVars, phase, sess, mine, cur, sent,
                       depth, asks, grip, fate, procVars>>

CompressStopped(r) ==
  /\ At(r, "cwait")
  /\ stopped[mine[r]] \/ ctxDone
  /\ Go(r, "release")
  /\ UNCHANGED <<sessVars, stateVars, agentVars, phase, turnVars, cleanVars, fate,
                 procVars>>

\* The channel is closed, or no event came for too long.
CompressBroken(r) ==
  /\ At(r, "cwait")
  /\ life[on[r]] = "closed" \/ "idle" \in Faults
  /\ Cleanup(r, "cdrop")
  /\ UNCHANGED <<sessVars, stateVars, agentVars, phase, turnVars, fate, procVars>>

\* notifyDroppedQueuedMessages after that cleanup.
CompressDrop(r) ==
  /\ At(r, "cdrop")
  /\ fate' = Dropped(mine[r])
  /\ DropQueue(mine[r])
  /\ Go(r, "release")
  /\ UNCHANGED <<sessVars, entry, agentOf, stopped, pending, agentVars, phase,
                 turnVars, cleanVars, procVars>>

CompressEvent(r) == /\ At(r, "cwait")
                    /\ life[on[r]] \in {"up", "dead"}
                    /\ ~stopped[mine[r]]

\* EventResult, or an EventError the agent survives: drain the queue.
CompressEnds(r) ==
  /\ CompressEvent(r)
  /\ \/ TRUE                                    \* EventResult
     \/ "error" \in Faults /\ Usable(mine[r])   \* EventError
  /\ Go(r, "drain")
  /\ UNCHANGED <<sessVars, stateVars, agentVars, phase, turnVars, cleanVars, fate,
                 procVars>>

\* An EventError of an agent that is gone.
CompressDies(r) ==
  /\ CompressEvent(r)
  /\ \/ NilCall(r)
     \/ /\ agentOf[mine[r]] # None /\ ~Usable(mine[r])
        /\ fate' = Dropped(mine[r])
        /\ DropQueue(mine[r])
        /\ Go(r, "release")
        /\ UNCHANGED <<sessVars, entry, agentOf, stopped, pending, agentVars, phase,
                       turnVars, cleanVars, procVars>>

-----------------------------------------------------------------------------
(* /stop, /new and permission answers *)

\* Mutant: the pending request is cleared before it is read.
StopForgetsPending(c) ==
  /\ At(c, "idle")
  /\ \/ /\ entry # None
        /\ pending' = [pending EXCEPT ![entry] = None]
        /\ on' = [on EXCEPT ![c] = agentOf[entry]]
        /\ tgt' = [tgt EXCEPT ![c] = entry]
        /\ stopped' = [stopped EXCEPT ![entry] = TRUE]
        /\ entry' = None
        /\ Go(c, "resolve")
     \/ /\ entry = None
        /\ Go(c, "done")
        /\ UNCHANGED <<entry, pending, stopped, on, tgt>>
  /\ UNCHANGED <<sessVars, agentOf, queue, agentVars, phase, sess, mine, cur, sent,
                 depth, asks, grip, strict, ret, fate, procVars>>

\* Mutant: the stopped state stays in the map.
StopKeepsEntry(c) ==
  /\ At(c, "idle")
  /\ \/ /\ entry # None
        /\ grip' = [grip EXCEPT ![c] = pending[entry]]
        /\ pending' = [pending EXCEPT ![entry] = None]
        /\ on' = [on EXCEPT ![c] = agentOf[entry]]
        /\ tgt' = [tgt EXCEPT ![c] = entry]
        /\ stopped' = [stopped EXCEPT ![entry] = TRUE]
        /\ Go(c, "resolve")
     \/ /\ entry = None
        /\ Go(c, "done")
        /\ UNCHANGED <<pending, stopped, on, grip, tgt>>
  /\ UNCHANGED <<sessVars, entry, agentOf, queue, agentVars, phase, sess, mine, cur,
                 sent, depth, asks, strict, ret, fate, procVars>>

\* stopInteractiveSession under interactiveMu.
CmdStop(c) ==
  /\ At(c, "idle")
  /\ \/ /\ entry # None
        /\ grip' = [grip EXCEPT ![c] = pending[entry]]
        /\ pending' = [pending EXCEPT ![entry] = None]
        /\ on' = [on EXCEPT ![c] = agentOf[entry]]
        /\ tgt' = [tgt EXCEPT ![c] = entry]
        /\ stopped' = [stopped EXCEPT ![entry] = TRUE]
        /\ entry' = None
        /\ Go(c, "resolve")
     \/ /\ entry = None
        /\ Go(c, "done")
        /\ UNCHANGED <<entry, pending, stopped, on, grip, tgt>>
  /\ UNCHANGED <<sessVars, agentOf, queue, agentVars, phase, sess, mine, cur, sent,
                 depth, asks, strict, ret, fate, procVars>>

StopResolve(c) ==
  /\ At(c, "resolve")
  /\ pc' = [Woken(grip[c]) EXCEPT ![c] = "drop"]
  /\ UNCHANGED <<sessVars, stateVars, agentVars, phase, turnVars, cleanVars, fate,
                 procVars>>

StopDrop(c) ==
  /\ At(c, "drop")
  /\ fate' = Dropped(tgt[c])
  /\ DropQueue(tgt[c])
  /\ Go(c, "kill")
  /\ UNCHANGED <<sessVars, entry, agentOf, stopped, pending, agentVars, phase,
                 turnVars, cleanVars, procVars>>

\* closeAgentSessionAsync.
StopClose(c) ==
  /\ At(c, "kill")
  /\ CloseAgent(on[c])
  /\ Go(c, "done")
  /\ UNCHANGED <<sessVars, stateVars, conv, shown, phase, turnVars, cleanVars, fate,
                 procVars>>

\* cmdNew: cleanup without an expected state, then a new Session.
CmdNew(c) ==
  /\ At(c, "idle")
  /\ Go(c, "detach")
  /\ ret' = [ret EXCEPT ![c] = "swap"]
  /\ UNCHANGED <<sessVars, stateVars, agentVars, phase, turnVars, tgt, strict, fate,
                 procVars>>

NewSession(c) ==
  /\ At(c, "swap")
  /\ sid' = [sid EXCEPT ![active] = None]
  /\ active' = c
  /\ Go(c, "done")
  /\ UNCHANGED <<busy, stateVars, agentVars, phase, turnVars, cleanVars, fate,
                 procVars>>

\* handlePendingPermission reads state.pending and answers the agent.
AnswerRead(c) ==
  /\ At(c, "idle")
  /\ entry # None /\ pending[entry] # None /\ Usable(entry)
  /\ grip' = [grip EXCEPT ![c] = pending[entry]]
  /\ tgt' = [tgt EXCEPT ![c] = entry]
  /\ Go(c, "answer")
  /\ UNCHANGED <<sessVars, stateVars, agentVars, phase, sess, mine, cur, on, sent,
                 depth, asks, strict, ret, fate, procVars>>

\* state.pending = nil and pending.resolve().
AnswerResolve(c) ==
  /\ At(c, "answer")
  /\ pending' = [pending EXCEPT ![tgt[c]] = None]
  /\ pc' = [Woken(grip[c]) EXCEPT ![c] = "done"]
  /\ UNCHANGED <<sessVars, entry, agentOf, stopped, queue, agentVars, phase,
                 turnVars, cleanVars, fate, procVars>>

-----------------------------------------------------------------------------
(* The agent processes, and Engine.Stop *)

AgentDies(a) ==
  /\ "death" \in Faults /\ life[a] = "up" /\ ~panicked
  /\ life' = [life EXCEPT ![a] = "dead"]
  /\ UNCHANGED <<sessVars, stateVars, conv, shown, phase, pc, turnVars, cleanVars,
                 fate, procVars>>

\* A dead agent closes its event channel.
AgentCloses(a) ==
  /\ life[a] = "dead" /\ ~panicked
  /\ life' = [life EXCEPT ![a] = "closed"]
  /\ UNCHANGED <<sessVars, stateVars, conv, shown, phase, pc, turnVars, cleanVars,
                 fate, procVars>>

Cancel ==
  /\ "shutdown" \in Faults /\ phase = "run" /\ ~panicked
  /\ phase' = "cancel"
  /\ UNCHANGED <<sessVars, stateVars, agentVars, pc, turnVars, cleanVars, fate,
                 procVars>>

\* Mutant: Stop empties the map only.
SweepMapOnly ==
  /\ phase = "cancel" /\ ~panicked
  /\ phase' = "swept"
  /\ entry' = None
  /\ UNCHANGED <<sessVars, agentOf, stopped, queue, pending, agentVars, pc, turnVars,
                 cleanVars, fate, procVars>>

\* Stop empties the map and closes the agents it found there.
Sweep ==
  /\ phase = "cancel" /\ ~panicked
  /\ phase' = "swept"
  /\ entry' = None
  /\ IF entry = None THEN UNCHANGED life ELSE CloseAgent(agentOf[entry])
  /\ UNCHANGED <<sessVars, agentOf, stopped, queue, pending, conv, shown, pc,
                 turnVars, cleanVars, fate, procVars>>

-----------------------------------------------------------------------------
HandleMessage(m) ==
  \/ HintPending(m) \/ Arrive(m) \/ TryLock(m) \/ QueueMessage(m) \/ RetryLock(m)
  \/ DrainOrphaned(m) \/ EnsureSlot(m)

StartTurn(m) ==
  \/ Abandon(m) \/ Reuse(m) \/ StartAgent(m) \/ StartFails(m) \/ Ready(m)

RunTurn(r) ==
  \/ Dispatch(r) \/ SendReturns(r) \/ SendFails(r) \/ SeeStop(r) \/ ReceiveEvent(r)
  \/ EventText(r) \/ EventPermission(r) \/ ResultUnsent(r) \/ ResultSent(r)
  \/ ResultCompress(r) \/ ResultNext(r) \/ SendNext(r) \/ ResultLast(r) \/ ReturnLast(r)
  \/ EventError(r) \/ ChannelClosed(r) \/ IdleTimeout(r)
  \/ DrainEmpty(r) \/ DrainNext(r) \/ Release(r)

CleanUp(r) == Detach(r) \/ Notify(r) \/ Close(r) \/ Unmap(r)

Compress(r) ==
  \/ RunCompress(r) \/ CompressStopped(r) \/ CompressBroken(r) \/ CompressDrop(r)
  \/ CompressEnds(r) \/ CompressDies(r)

Next ==
  \/ \E m \in Msg : HandleMessage(m) \/ StartTurn(m)
  \/ \E r \in Runner : RunTurn(r) \/ Compress(r)
  \/ \E r \in Runner \cup NewCmd : CleanUp(r)
  \/ \E c \in CompressCmd : CmdCompress(c) \/ CompressTryLock(c)
  \/ \E c \in StopCmd : CmdStop(c) \/ StopResolve(c) \/ StopDrop(c) \/ StopClose(c)
  \/ \E c \in NewCmd : CmdNew(c) \/ NewSession(c)
  \/ \E c \in Answer : AnswerRead(c) \/ AnswerResolve(c)
  \/ \E a \in Agent : AgentDies(a) \/ AgentCloses(a)
  \/ Cancel \/ Sweep
  \/ \E q \in State : LateSend(q)

Spec == Init /\ [][Next]_vars

\* What the goroutine of request r does by itself, an agent that answers or that
\* the idle timeout ends, and the close of a dead agent's channel.  Arrivals,
\* deaths, permission requests and answers are left to the environment.
Work(r) ==
  \/ r \in Msg /\ (\/ TryLock(r) \/ QueueMessage(r) \/ RetryLock(r)
                   \/ DrainOrphaned(r) \/ EnsureSlot(r) \/ StartTurn(r))
  \/ r \in Runner /\ (Compress(r) \/ (RunTurn(r) /\ UNCHANGED asks))
  \/ r \in Runner \cup NewCmd /\ CleanUp(r)
  \/ r \in CompressCmd /\ CompressTryLock(r)
  \/ r \in StopCmd /\ (StopResolve(r) \/ StopDrop(r) \/ StopClose(r))
  \/ r \in NewCmd /\ NewSession(r)
  \/ r \in Answer /\ AnswerResolve(r)

FairSpec == /\ Spec
            /\ \A r \in Request : WF_vars(Work(r))
            /\ \A a \in Agent : WF_vars(AgentCloses(a))

-----------------------------------------------------------------------------
(* Properties *)

PCs == {"idle", "try", "slot", "enqueue", "retry", "orphan", "start", "ready",
        "send", "events", "event", "perm", "result", "next", "last", "drain",
        "release", "detach", "notify", "close", "unmap", "compress", "ctry",
        "cwait", "cdrop", "resolve", "drop", "kill", "swap", "answer", "done"}

Fates == {"none", "hinted", "rejected", "queued", "turn", "answered", "failed",
          "exited", "dropped", "stopped"}

SessionsOK == /\ active \in Session
              /\ busy \in [Session -> BOOLEAN]
              /\ sid \in [Session -> Agent \cup {None}]

StatesOK == /\ entry \in State \cup {None}
            /\ agentOf \in [State -> Agent \cup {None}]
            /\ stopped \in [State -> BOOLEAN]
            /\ pending \in [State -> Perm \cup {None}]

QueuesOK == /\ queue \in [State -> Seq(Msg)]
            /\ \A q \in State : Len(queue[q]) <= MaxQueue

AgentsOK == /\ life \in [Agent -> {"none", "up", "dead", "closed"}]
            /\ conv \in [Agent -> Agent]
            /\ shown \in [Agent -> BOOLEAN]

PlacesOK == /\ pc \in [Request -> PCs]
            /\ phase \in {"run", "cancel", "swept"}
            /\ late \subseteq State
            /\ panicked \in BOOLEAN

TurnsOK == /\ sess \in [Request -> Session \cup {None}]
           /\ mine \in [Request -> State \cup {None}]
           /\ cur \in [Request -> Msg \cup {None}]
           /\ on \in [Request -> Agent \cup {None}]
           /\ sent \in [Request -> BOOLEAN]
           /\ depth \in [Request -> 0 .. MaxDepth]
           /\ asks \in [Request -> 0 .. MaxAsks]
           /\ grip \in [Request -> Perm \cup {None}]

CleanupsOK == /\ tgt \in [Request -> State \cup {None}]
              /\ strict \in [Request -> BOOLEAN]
              /\ ret \in [Request -> {"drain", "release", "cdrop", "swap", "done"}]

NewsOK == fate \in [Msg -> Fates]

\* Every variable has its type, and no queue outgrows maxQueuedMessages, not even
\* when a state adopts the queue of the one it replaces.
TypeOK == /\ SessionsOK /\ StatesOK /\ QueuesOK /\ AgentsOK
          /\ PlacesOK /\ TurnsOK /\ CleanupsOK /\ NewsOK

\* Between its TryLock and its Unlock a goroutine is at one of these places.
HoldPC == {"slot", "orphan", "start", "ready", "send", "events", "event", "perm",
           "result", "next", "last", "drain", "release", "detach", "notify",
           "close", "unmap", "compress", "cwait", "cdrop"}

Holds(r) == r \in Runner /\ pc[r] \in HoldPC

\* At most one goroutine works on a Session between its TryLock and its Unlock,
\* whatever queues, orphan drains and compressions hand the lock along.
TurnExclusion ==
  \A r1, r2 \in Runner :
    Holds(r1) /\ Holds(r2) /\ sess[r1] = sess[r2] => r1 = r2

\* The busy flag of a Session is set exactly while some goroutine will clear it:
\* no path forgets the deferred Unlock and none unlocks for somebody else.
LockHeld == \A s \in Session :
  busy[s] <=> \E r \in Runner : Holds(r) /\ sess[r] = s

\* r will look at the queue of q again before its lock is free.
WillServe(r, q) ==
  \/ Holds(r) /\ pc[r] # "release" /\ mine[r] = q
  \/ pc[r] \in {"slot", "start", "orphan", "retry"} /\ entry = q

\* c will tell the senders in the queue of q.
WillDrop(c, q) == pc[c] \in {"resolve", "drop", "notify"} /\ tgt[c] = q

\* A queued message is never forgotten: some goroutine still has to look at the
\* queue it is in.  This is what the unlock under state.mu and the second
\* TryLock after queueing are for.  (Engine.Stop forgets the queues it finds.)
NoLostWakeup ==
  \A q \in State : ~ctxDone /\ queue[q] # <<>> =>
     \/ \E r \in Runner : WillServe(r, q)
     \/ \E c \in Request : WillDrop(c, q)

\* r will call a method of its state's agent without a look at it: in the event
\* loop, in its own Send that it has not heard of yet, or in a compression.
CallsAgent(r) ==
  \/ pc[r] \in {"send", "next", "compress", "cwait"}
  \/ pc[r] \in {"events", "event", "perm", "result", "last"} /\ ~sent[r]

\* While a turn lasts, neither it nor its Send meets an agentSession that a cleanup
\* has set to nil: what was checked when the turn began still holds at the calls.
NoNilCall == \A r \in Runner : CallsAgent(r) => agentOf[mine[r]] # None

\* The process never dies of a nil agentSession, not even in a goroutine of Send that
\* its turn has left behind.  The code does not keep this: LateSend violates it.
NeverPanics == ~panicked

Closing(c, a) == /\ on[c] = a
                 /\ pc[c] \in {"notify", "close", "resolve", "drop", "kill"}

\* A living agent process can still be found: through the chat's entry, or by
\* the goroutine that is about to close it.
AgentReachable == \A a \in Agent : life[a] = "up" =>
  \/ entry # None /\ agentOf[entry] = a
  \/ \E c \in Request : Closing(c, a)

\* Concurrent cleanups and stops never close the same agent session twice.
CloseOnce == \A a \in Agent, c1, c2 \in Request :
  Closing(c1, a) /\ Closing(c2, a) => c1 = c2

\* The permission request a turn waits for is not lost: it is still the pending
\* request of the turn's state, or somebody who took it will resolve it.
PermissionHeld == \A r \in Runner : pc[r] = "perm" =>
  \/ pending[mine[r]] = <<r, asks[r]>>
  \/ \E c \in Request : pc[c] \in {"answer", "resolve"} /\ grip[c] = <<r, asks[r]>>

\* A message is in exactly one queue, once, as long as its sender has only heard
\* that it is queued, and in none before and after that: the adoption of a queue
\* by the next state neither copies messages nor leaves any behind.
QueuedOnce == \A m \in Msg :
  Cardinality({p \in State \X (1 .. MaxQueue) :
                 p[2] \in DOMAIN queue[p[1]] /\ queue[p[1]][p[2]] = m})
    = IF fate[m] = "queued" THEN 1 ELSE 0

\* Every message that was queued, or got a turn, comes to an end.
EveryoneTold == \A m \in Msg :
  fate[m] \in {"queued", "turn"} ~> fate[m] \notin {"queued", "turn"}

\* A busy Session becomes free again.
LockReleased == \A s \in Session : busy[s] ~> ~busy[s]

\* A turn whose state was stopped comes to an end, whatever it was doing.
StopEnds == \A r \in Runner :
  (Holds(r) /\ mine[r] # None /\ stopped[mine[r]]) ~> ~Holds(r)
=============================================================================
