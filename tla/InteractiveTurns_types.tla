------------------------ MODULE InteractiveTurns_types ------------------------
(***************************************************************************)
(* Type correctness of InteractiveTurns, for any set of messages and       *)
(* commands, any queue limit and any set of faults.                        *)
(*                                                                         *)
(* TypeOK is not inductive: a goroutine follows its pointers to a Session, *)
(* a state or an agent, and the types allow all of them to be nil.  What   *)
(* keeps them from being nil is where the goroutine is.  Points says which *)
(* pointer is set at which place, and TypeOK /\ PointersOK is inductive.   *)
(***************************************************************************)
EXTENDS InteractiveTurns, TLAPS

\* The places where a goroutine uses its state, its agent, and the state it
\* cleans up, stops or answers for.
MinePC == {"ready", "send", "events", "event", "perm", "result", "next", "last",
           "drain", "detach", "notify", "close", "unmap", "compress", "ctry",
           "cwait", "cdrop"}
OnPC   == {"events", "event", "perm", "result", "next", "last", "cwait"}
TgtPC  == {"notify", "resolve", "drop", "kill", "answer"}
CleanPC == {"detach", "notify", "close", "unmap"}

\* The pointers that goroutine r has when it is at p.
Points(r, p) ==
  /\ r \in Runner /\ p \notin {"idle", "done"} => sess[r] \in Session
  /\ r \in Runner /\ p \in MinePC => mine[r] \in State
  /\ depth[r] > 0 => mine[r] \in State
  /\ r \in Runner /\ p \in OnPC => on[r] \in Agent
  /\ p \in TgtPC => tgt[r] \in State
  /\ r \in Runner /\ p \in CleanPC => ret[r] \in {"drain", "release", "cdrop"}
  /\ r \in NewCmd /\ p \in CleanPC => ret[r] = "swap"

PointersOK == \A r \in Request : Points(r, pc[r])

IInv == TypeOK /\ PointersOK

\* The pointers of q are the same after the step.
Same(q) == /\ pc'[q] = pc[q] /\ sess'[q] = sess[q] /\ mine'[q] = mine[q]
           /\ on'[q] = on[q] /\ tgt'[q] = tgt[q] /\ ret'[q] = ret[q]
           /\ depth'[q] = depth[q]

-----------------------------------------------------------------------------
(* Lemmas *)

\* The kinds of requests are disjoint, and nil is none of the objects.
LEMMA Kinds ==
  /\ Msg \subseteq Runner /\ CompressCmd \subseteq Runner
  /\ Runner \subseteq Request /\ Agent = Msg
  /\ StopCmd \cup NewCmd \cup Answer \subseteq Request \ Runner
  /\ NewCmd \cap (StopCmd \cup Answer) = {}
  /\ None \notin Session /\ None \notin State /\ None \notin Agent
  BY Disjoint DEF Runner, Request, Session, Agent

\* A step that moves one goroutine need only account for its pointers.
LEMMA OthersStay ==
  ASSUME PointersOK, NEW r \in Request, \A q \in Request \ {r} : Same(q),
         Points(r, pc[r])'
  PROVE  PointersOK'
  BY DEF PointersOK, Points, Same

\* Queues: a step that changes one queue to a short one, as when it is emptied,
\* loses its head, or gets one more message.
LEMMA OneQueue ==
  ASSUME QueuesOK, NEW q \in State, NEW s \in Seq(Msg), Len(s) <= MaxQueue,
         queue' = [queue EXCEPT ![q] = s]
  PROVE  QueuesOK'
<1>1. queue' \in [State -> Seq(Msg)]
  BY DEF QueuesOK
<1>2. ASSUME NEW x \in State PROVE Len(queue'[x]) <= MaxQueue
  <2>1. queue'[x] = IF x = q THEN s ELSE queue[x]
    BY DEF QueuesOK
  <2>2. QED
    BY <2>1 DEF QueuesOK
<1>3. QED
  BY <1>1, <1>2 DEF QueuesOK

LEMMA DropsQueue ==
  ASSUME QueuesOK, NEW q \in State, DropQueue(q)  PROVE QueuesOK'
<1>1. <<>> \in Seq(Msg) /\ Len(<<>>) <= MaxQueue
  BY Bounds
<1>2. QED
  BY <1>1, OneQueue DEF DropQueue

LEMMA TakesHead ==
  ASSUME QueuesOK, NEW q \in State, queue[q] # <<>>
  PROVE  /\ Head(queue[q]) \in Msg
         /\ queue' = [queue EXCEPT ![q] = Tail(@)] => QueuesOK'
<1>0. queue[q] \in Seq(Msg) /\ Len(queue[q]) <= MaxQueue /\ MaxQueue \in Nat
  BY Bounds DEF QueuesOK
<1>1. /\ Head(queue[q]) \in Msg /\ Tail(queue[q]) \in Seq(Msg)
      /\ Len(Tail(queue[q])) <= MaxQueue
  BY <1>0
<1>2. QED
  BY <1>1, OneQueue

LEMMA Appends ==
  ASSUME QueuesOK, NEW q \in State, NEW m \in Msg, Len(queue[q]) < MaxQueue,
         queue' = [queue EXCEPT ![q] = Append(@, m)]
  PROVE  QueuesOK'
<1>0. queue[q] \in Seq(Msg) /\ MaxQueue \in Nat
  BY Bounds DEF QueuesOK
<1>1. Append(queue[q], m) \in Seq(Msg) /\ Len(Append(queue[q], m)) <= MaxQueue
  BY <1>0
<1>2. QED
  BY <1>1, OneQueue

\* A new state adopts the queue of the entry it replaces.
LEMMA Adopts ==
  ASSUME QueuesOK, StatesOK, NEW m \in Msg, NEW recycle, Install(m, recycle)
  PROVE  QueuesOK'
<1>1. CASE entry = None \/ recycle
  BY <1>1 DEF Install, QueuesOK
<1>2. CASE ~(entry = None \/ recycle)
  <2> DEFINE new == <<m, "live">>
             mid == [queue EXCEPT ![new] = queue[entry]]
  <2>1. entry \in State /\ new \in State
    BY <1>2 DEF StatesOK, State
  <2>2. queue[entry] \in Seq(Msg) /\ Len(queue[entry]) <= MaxQueue
    BY <2>1 DEF QueuesOK
  <2>3. <<>> \in Seq(Msg) /\ Len(<<>>) <= MaxQueue
    BY Bounds
  <2>4. queue' = [queue EXCEPT ![new] = queue[entry], ![entry] = <<>>]
    BY <1>2 DEF Install
  <2> HIDE DEF new
  <2>5. /\ queue' \in [State -> Seq(Msg)]
        /\ \A x \in State : queue'[x] \in {queue[x], queue[entry], <<>>}
    BY <2>1, <2>2, <2>3, <2>4 DEF QueuesOK
  <2>6. QED
    BY <2>2, <2>3, <2>5 DEF QueuesOK
<1>3. QED BY <1>1, <1>2

\* What notifyDroppedQueuedMessages and the end of a turn tell the senders.
LEMMA DroppedFates == ASSUME NewsOK, NEW q PROVE Dropped(q) \in [Msg -> Fates]
  BY DEF NewsOK, Dropped, Fates

LEMMA ToldFates ==
  ASSUME NEW f \in [Msg -> Fates], TurnsOK, NEW r \in Request, NEW news \in Fates
  PROVE  Told(f, r, news) \in [Msg -> Fates]
  BY DEF TurnsOK, Told

\* A Session is bound to the conversation of an agent.
LEMMA Binds ==
  ASSUME SessionsOK, AgentsOK, NEW s \in Session, NEW a \in Agent, Bind(s, a)
  PROVE  sid' \in [Session -> Agent \cup {None}]
  BY DEF SessionsOK, AgentsOK, Bind

\* resolve() moves at most one goroutine, from "perm" back to "events".
LEMMA Wakes ==
  ASSUME PlacesOK, NEW p
  PROVE  /\ Woken(p) \in [Request -> PCs]
         /\ \A q \in Request : \/ Woken(p)[q] = pc[q]
                               \/ pc[q] = "perm" /\ Woken(p)[q] = "events"
  BY DEF PlacesOK, Woken, PCs

\* A nil dereference changes nothing else.
LEMMA Panics == ASSUME IInv, NEW r, NilCall(r) PROVE IInv'
  BY DEF IInv, TypeOK, PointersOK, Points, NilCall, SessionsOK, StatesOK, QueuesOK,
         AgentsOK, PlacesOK, TurnsOK, CleanupsOK, NewsOK, sessVars, stateVars,
         agentVars, turnVars, cleanVars

\* A turn that leaves its event loop leaves at most the Send of its state behind.
LEMMA Leaves ==
  ASSUME TypeOK, PointersOK, NEW r \in Runner, pc[r] \in MinePC, LeaveSend(r)
  PROVE  late' \subseteq State /\ panicked' = panicked
  BY Kinds DEF TypeOK, PlacesOK, PointersOK, Points, LeaveSend

-----------------------------------------------------------------------------
(* Every action, one by one.  The parts that a step leaves alone come first,
   then each part it touches, then the pointers of the goroutine that moves. *)

USE DEF At, Go, sessVars, stateVars, agentVars, turnVars, cleanVars, procVars

\* An incoming message: TryLock, the queue, and the slot.
LEMMA HandleMessageTypes ==
  ASSUME IInv, NEW m \in Msg, HandleMessage(m)
  PROVE  IInv'
<1>. m \in Runner /\ m \in Request /\ m \in Agent
  BY Kinds
<1>. TypeOK /\ PointersOK
  BY DEF IInv
<1>1. CASE HintPending(m)
  <2>1. TypeOK'
    BY <1>1 DEF TypeOK, HintPending, SessionsOK, StatesOK, QueuesOK, AgentsOK,
       PlacesOK, TurnsOK, CleanupsOK, NewsOK, PCs, Fates
  <2>2. \A q \in Request \ {m} : Same(q)
    BY <1>1 DEF TypeOK, PlacesOK, TurnsOK, CleanupsOK, Same, HintPending
  <2>3. Points(m, pc[m])'
    BY <1>1 DEF TypeOK, PlacesOK, TurnsOK, CleanupsOK, PointersOK, Points, MinePC,
       OnPC, TgtPC, CleanPC, HintPending
  <2>4. QED
    BY <2>1, <2>2, <2>3, OthersStay DEF IInv
<1>2. CASE Arrive(m)
  <2>1. TypeOK'
    BY <1>2 DEF TypeOK, Arrive, SessionsOK, StatesOK, QueuesOK, AgentsOK, PlacesOK,
       TurnsOK, CleanupsOK, NewsOK, PCs, PointersOK, Points, MinePC
  <2>2. \A q \in Request \ {m} : Same(q)
    BY <1>2 DEF TypeOK, PlacesOK, TurnsOK, CleanupsOK, Same, Arrive
  <2>3. Points(m, pc[m])'
    BY <1>2 DEF TypeOK, PlacesOK, TurnsOK, CleanupsOK, PointersOK, Points, MinePC,
       OnPC, TgtPC, CleanPC, SessionsOK, Arrive
  <2>4. QED
    BY <2>1, <2>2, <2>3, OthersStay DEF IInv
<1>3. CASE TryLock(m)
  <2>1. StatesOK' /\ QueuesOK' /\ AgentsOK' /\ CleanupsOK'
    BY <1>3 DEF TypeOK, TryLock, StatesOK, QueuesOK, AgentsOK, CleanupsOK
  <2>2. SessionsOK'
    BY <1>3 DEF TypeOK, TryLock, SessionsOK, PointersOK, Points
  <2>3. PlacesOK'
    BY <1>3 DEF TypeOK, TryLock, PlacesOK, PCs
  <2>4. TurnsOK'
    BY <1>3 DEF TypeOK, TryLock, TurnsOK, SessionsOK, StatesOK, PointersOK, Points,
       MinePC
  <2>5. NewsOK'
    BY <1>3 DEF TypeOK, TryLock, NewsOK, Fates
  <2>6. \A q \in Request \ {m} : Same(q)
    BY <1>3 DEF TypeOK, PlacesOK, TurnsOK, CleanupsOK, Same, TryLock
  <2>7. Points(m, pc[m])'
    BY <1>3 DEF TypeOK, PlacesOK, TurnsOK, CleanupsOK, PointersOK, Points, MinePC,
       OnPC, TgtPC, CleanPC, TryLock
  <2>8. QED
    BY <2>1, <2>2, <2>3, <2>4, <2>5, <2>6, <2>7, OthersStay DEF IInv, TypeOK
<1>4. CASE QueueMessage(m)
  <2>1. SessionsOK' /\ StatesOK' /\ AgentsOK' /\ TurnsOK' /\ CleanupsOK'
    BY <1>4 DEF TypeOK, QueueMessage, SessionsOK, StatesOK, AgentsOK, TurnsOK,
       CleanupsOK
  <2>2. QueuesOK'
    BY <1>4, Appends DEF TypeOK, QueueMessage, CanQueue, StatesOK, QueuesOK
  <2>3. PlacesOK'
    BY <1>4 DEF TypeOK, QueueMessage, PlacesOK, PCs
  <2>4. NewsOK'
    BY <1>4, SMTT(30) DEF TypeOK, QueueMessage, NewsOK, Fates
  <2>5. \A q \in Request \ {m} : Same(q)
    BY <1>4 DEF TypeOK, PlacesOK, TurnsOK, CleanupsOK, Same, QueueMessage
  <2>6. Points(m, pc[m])'
    BY <1>4 DEF TypeOK, PlacesOK, TurnsOK, CleanupsOK, PointersOK, Points, MinePC,
       OnPC, TgtPC, CleanPC, QueueMessage
  <2>7. QED
    BY <2>1, <2>2, <2>3, <2>4, <2>5, <2>6, OthersStay DEF IInv, TypeOK
<1>5. CASE RetryLock(m)
  <2>1. TypeOK'
    BY <1>5, ZenonT(60) DEF TypeOK, RetryLock, SessionsOK, StatesOK, QueuesOK, AgentsOK, PlacesOK,
       TurnsOK, CleanupsOK, NewsOK, PointersOK, Points, PCs
  <2>2. \A q \in Request \ {m} : Same(q)
    BY <1>5 DEF TypeOK, PlacesOK, TurnsOK, CleanupsOK, Same, RetryLock
  <2>3. Points(m, pc[m])'
    BY <1>5 DEF TypeOK, PlacesOK, TurnsOK, CleanupsOK, PointersOK, Points, MinePC,
       OnPC, TgtPC, CleanPC, RetryLock
  <2>4. QED
    BY <2>1, <2>2, <2>3, OthersStay DEF IInv
<1>6. CASE DrainOrphaned(m)
  <2>1. SessionsOK' /\ StatesOK' /\ AgentsOK' /\ CleanupsOK'
    BY <1>6 DEF TypeOK, DrainOrphaned, SessionsOK, StatesOK, AgentsOK, CleanupsOK
  <2>2. QueuesOK'
    BY <1>6, DropsQueue DEF TypeOK, DrainOrphaned, DropQueue, StatesOK, QueuesOK
  <2>3. PlacesOK'
    BY <1>6 DEF TypeOK, DrainOrphaned, PlacesOK, PCs
  <2>4. TurnsOK'
    BY <1>6, ZenonT(60) DEF TypeOK, DrainOrphaned, TurnsOK, SessionsOK, StatesOK, PointersOK,
       Points, MinePC
  <2>5. NewsOK'
    BY <1>6, DroppedFates DEF TypeOK, DrainOrphaned, NewsOK, Fates
  <2>6. \A q \in Request \ {m} : Same(q)
    BY <1>6 DEF TypeOK, PlacesOK, TurnsOK, CleanupsOK, Same, DrainOrphaned
  <2>7. Points(m, pc[m])'
    BY <1>6 DEF TypeOK, PlacesOK, TurnsOK, CleanupsOK, PointersOK, Points, MinePC,
       OnPC, TgtPC, CleanPC, StatesOK, DrainOrphaned
  <2>8. QED
    BY <2>1, <2>2, <2>3, <2>4, <2>5, <2>6, <2>7, OthersStay DEF IInv, TypeOK
<1>7. CASE EnsureSlot(m)
  <2>1. SessionsOK' /\ QueuesOK' /\ AgentsOK' /\ PlacesOK' /\ TurnsOK' /\ CleanupsOK'
          /\ NewsOK'
    BY <1>7 DEF TypeOK, EnsureSlot, SessionsOK, QueuesOK, AgentsOK, PlacesOK, TurnsOK,
       CleanupsOK, NewsOK, PCs
  <2>2. StatesOK'
    BY <1>7 DEF TypeOK, EnsureSlot, StatesOK, State
  <2>3. \A q \in Request \ {m} : Same(q)
    BY <1>7 DEF TypeOK, PlacesOK, TurnsOK, CleanupsOK, Same, EnsureSlot
  <2>4. Points(m, pc[m])'
    BY <1>7 DEF TypeOK, PlacesOK, TurnsOK, CleanupsOK, PointersOK, Points, MinePC,
       OnPC, TgtPC, CleanPC, EnsureSlot
  <2>5. QED
    BY <2>1, <2>2, <2>3, <2>4, OthersStay DEF IInv, TypeOK
<1>8. QED
  BY <1>1, <1>2, <1>3, <1>4, <1>5, <1>6, <1>7 DEF HandleMessage

\* The state and the agent of a turn.
LEMMA StartTurnTypes ==
  ASSUME IInv, NEW m \in Msg, StartTurn(m)
  PROVE  IInv'
<1>. m \in Runner /\ m \in Request /\ m \in Agent
  BY Kinds
<1>. TypeOK /\ PointersOK
  BY DEF IInv
<1>1. CASE Abandon(m)
  <2>1. TypeOK'
    BY <1>1 DEF TypeOK, Abandon, SessionsOK, StatesOK, QueuesOK, AgentsOK, PlacesOK,
       TurnsOK, CleanupsOK, NewsOK, PCs, Fates
  <2>2. \A q \in Request \ {m} : Same(q)
    BY <1>1 DEF TypeOK, PlacesOK, TurnsOK, CleanupsOK, Same, Abandon
  <2>3. Points(m, pc[m])'
    BY <1>1 DEF TypeOK, PlacesOK, TurnsOK, CleanupsOK, PointersOK, Points, MinePC,
       OnPC, TgtPC, CleanPC, Abandon
  <2>4. QED
    BY <2>1, <2>2, <2>3, OthersStay DEF IInv
<1>2. CASE Reuse(m)
  <2>1. TypeOK'
    BY <1>2 DEF TypeOK, Reuse, SessionsOK, StatesOK, QueuesOK, AgentsOK, PlacesOK,
       TurnsOK, CleanupsOK, NewsOK, PCs, PointersOK, Points, MinePC
  <2>2. \A q \in Request \ {m} : Same(q)
    BY <1>2 DEF TypeOK, PlacesOK, TurnsOK, CleanupsOK, Same, Reuse
  <2>3. Points(m, pc[m])'
    BY <1>2 DEF TypeOK, PlacesOK, TurnsOK, CleanupsOK, PointersOK, Points, MinePC,
       OnPC, TgtPC, CleanPC, StatesOK, Fits, Reuse
  <2>4. QED
    BY <2>1, <2>2, <2>3, OthersStay DEF IInv
<1>3. CASE StartAgent(m)
  <2>1. CleanupsOK' /\ NewsOK'
    BY <1>3 DEF TypeOK, StartAgent, Install, CleanupsOK, NewsOK
  <2>2. SessionsOK'
    BY <1>3 DEF TypeOK, StartAgent, Install, SessionsOK, PointersOK, Points
  <2>3. StatesOK'
    BY <1>3 DEF TypeOK, StartAgent, Install, StatesOK, State, Agent
  <2>4. QueuesOK'
    BY <1>3, Adopts DEF TypeOK, StartAgent
  <2>5. AgentsOK'
    BY <1>3 DEF TypeOK, StartAgent, AgentsOK, SessionsOK, PointersOK, Points, Agent
  <2>6. PlacesOK'
    BY <1>3 DEF TypeOK, StartAgent, Install, PlacesOK, PCs
  <2>7. TurnsOK'
    BY <1>3 DEF TypeOK, StartAgent, Install, TurnsOK, State
  <2>8. \A q \in Request \ {m} : Same(q)
    BY <1>3 DEF TypeOK, PlacesOK, TurnsOK, CleanupsOK, Same, StartAgent, Install
  <2>9. /\ pc'[m] = "ready" /\ mine'[m] \in State
        /\ UNCHANGED <<sess, depth>>
    BY <1>3 DEF TypeOK, PlacesOK, TurnsOK, State, StartAgent, Install
  <2>10. Points(m, pc[m])'
    BY <1>3, <2>9 DEF StartAgent, PointersOK, Points, MinePC, OnPC, TgtPC, CleanPC
  <2>11. QED
    BY <2>1, <2>2, <2>3, <2>4, <2>5, <2>6, <2>7, <2>8, <2>9, <2>10, OthersStay DEF
       IInv, TypeOK
<1>4. CASE StartFails(m)
  <2>1. SessionsOK' /\ AgentsOK' /\ PlacesOK' /\ CleanupsOK' /\ NewsOK'
    BY <1>4 DEF TypeOK, StartFails, Install, SessionsOK, AgentsOK, PlacesOK,
       CleanupsOK, NewsOK, TurnsOK, StatesOK, PCs
  <2>2. StatesOK'
    BY <1>4 DEF TypeOK, StartFails, Install, StatesOK, State
  <2>3. QueuesOK'
    BY <1>4, Adopts DEF TypeOK, StartFails
  <2>4. TurnsOK'
    BY <1>4 DEF TypeOK, StartFails, Install, TurnsOK, State
  <2>5. \A q \in Request \ {m} : Same(q)
    BY <1>4 DEF TypeOK, PlacesOK, TurnsOK, CleanupsOK, Same, StartFails, Install
  <2>6. Points(m, pc[m])'
    BY <1>4 DEF TypeOK, PlacesOK, TurnsOK, CleanupsOK, PointersOK, Points, MinePC,
       OnPC, TgtPC, CleanPC, State, StartFails, Install
  <2>7. QED
    BY <2>1, <2>2, <2>3, <2>4, <2>5, <2>6, OthersStay DEF IInv, TypeOK
<1>5. CASE Ready(m)
  <2>1. TypeOK'
    BY <1>5 DEF TypeOK, Ready, SessionsOK, StatesOK, QueuesOK, AgentsOK, PlacesOK,
       TurnsOK, CleanupsOK, NewsOK, PCs, Fates
  <2>2. \A q \in Request \ {m} : Same(q)
    BY <1>5 DEF TypeOK, PlacesOK, TurnsOK, CleanupsOK, Same, Ready
  <2>3. Points(m, pc[m])'
    BY <1>5 DEF TypeOK, PlacesOK, TurnsOK, CleanupsOK, PointersOK, Points, MinePC,
       OnPC, TgtPC, CleanPC, Ready
  <2>4. QED
    BY <2>1, <2>2, <2>3, OthersStay DEF IInv
<1>6. QED
  BY <1>1, <1>2, <1>3, <1>4, <1>5 DEF StartTurn

\* UnlockAndReturn gives the lock of the goroutine's Session back and moves the
\* goroutine, and leaves all but the locals of the turn in their types.
LEMMA Unlocks ==
  ASSUME TypeOK, NEW r \in Runner, UnlockAndReturn(r)
  PROVE  SessionsOK' /\ StatesOK' /\ QueuesOK' /\ AgentsOK' /\ PlacesOK' /\ CleanupsOK'
           /\ NewsOK'
<1>1. /\ UNCHANGED <<active, sid, entry, agentOf, stopped, queue, pending>>
      /\ UNCHANGED <<life, conv, shown, phase, tgt, strict, ret>>
      /\ UNCHANGED <<fate, late, panicked>>
  BY DEF UnlockAndReturn
<1>2. PICK place \in PCs : pc' = [pc EXCEPT ![r] = place]
  BY DEF UnlockAndReturn, PCs
<1>3. busy' = [busy EXCEPT ![sess[r]] = FALSE]
  BY DEF UnlockAndReturn
<1>4. PlacesOK'
  BY <1>1, <1>2 DEF TypeOK, PlacesOK
<1>5. SessionsOK'
  BY <1>1, <1>3 DEF TypeOK, SessionsOK
<1>6. QED
  BY <1>1, <1>4, <1>5 DEF TypeOK, StatesOK, QueuesOK, AgentsOK, CleanupsOK, NewsOK

\* The event loop, the drain of the queue, and the Unlock.
LEMMA RunTurnTypes ==
  ASSUME IInv, NEW r \in Runner, RunTurn(r)
  PROVE  IInv'
<1>. r \in Request /\ r \notin NewCmd
  BY Kinds
<1>. TypeOK /\ PointersOK
  BY DEF IInv
<1>1. CASE Dispatch(r)
  <2>1. CASE NilCall(r)
    BY <2>1, Panics
  <2>2. CASE ~NilCall(r)
    <3>1. SessionsOK' /\ StatesOK' /\ QueuesOK' /\ AgentsOK' /\ CleanupsOK' /\ NewsOK'
      BY <1>1, <2>2 DEF TypeOK, Dispatch, SessionsOK, StatesOK, QueuesOK, AgentsOK,
         CleanupsOK, NewsOK
    <3>2. PlacesOK'
      BY <1>1, <2>2 DEF TypeOK, Dispatch, PlacesOK, PCs
    <3>3. TurnsOK'
      BY <1>1, <2>2 DEF TypeOK, Dispatch, TurnsOK, SessionsOK, StatesOK, PointersOK,
         Points, MinePC
    <3>4. \A q \in Request \ {r} : Same(q)
      BY <1>1, <2>2 DEF TypeOK, PlacesOK, TurnsOK, CleanupsOK, Same, Dispatch
    <3>5. Points(r, pc[r])'
      BY <1>1, <2>2 DEF TypeOK, PlacesOK, TurnsOK, CleanupsOK, PointersOK, Points,
         MinePC, OnPC, TgtPC, CleanPC, StatesOK, Dispatch
    <3>6. QED
      BY <3>1, <3>2, <3>3, <3>4, <3>5, OthersStay DEF IInv, TypeOK
  <2>3. QED BY <2>1, <2>2
<1>2. CASE SendReturns(r)
  <2>1. CASE NilCall(r)
    BY <2>1, Panics
  <2>2. CASE ~NilCall(r)
    <3>1. TypeOK'
      BY <1>2, <2>2, ZenonT(60) DEF TypeOK, SendReturns, SessionsOK, StatesOK, QueuesOK, AgentsOK,
         PlacesOK, TurnsOK, CleanupsOK, NewsOK, PointersOK, Points, MinePC
    <3>2. \A q \in Request \ {r} : Same(q)
      BY <1>2, <2>2 DEF TypeOK, PlacesOK, TurnsOK, CleanupsOK, Same, SendReturns
    <3>3. Points(r, pc[r])'
      BY <1>2, <2>2 DEF TypeOK, PlacesOK, TurnsOK, CleanupsOK, PointersOK, Points,
         MinePC, OnPC, TgtPC, CleanPC, SendReturns
    <3>4. QED
      BY <3>1, <3>2, <3>3, OthersStay DEF IInv
  <2>3. QED BY <2>1, <2>2
<1>3. CASE SendFails(r)
  <2>1. SessionsOK' /\ StatesOK' /\ AgentsOK'
    BY <1>3 DEF TypeOK, SendFails, Cleanup, DropQueue, NoCleanup, SessionsOK,
       StatesOK, AgentsOK
  <2>2. QueuesOK'
    BY <1>3, DropsQueue DEF TypeOK, SendFails, Cleanup, NoCleanup, QueuesOK, StatesOK,
       PointersOK, Points, MinePC, TgtPC
  <2>3. PlacesOK'
    BY <1>3 DEF TypeOK, SendFails, Cleanup, DropQueue, NoCleanup, PlacesOK, PCs
  <2>4. TurnsOK'
    BY <1>3 DEF TypeOK, SendFails, Cleanup, DropQueue, NoCleanup, TurnsOK, SessionsOK,
       StatesOK, PointersOK, Points, MinePC
  <2>5. CleanupsOK'
    BY <1>3 DEF TypeOK, SendFails, Cleanup, DropQueue, NoCleanup, CleanupsOK, TurnsOK,
       StatesOK
  <2>6. NewsOK'
    BY <1>3, ToldFates, DroppedFates DEF TypeOK, SendFails, Cleanup, DropQueue,
       NoCleanup, NewsOK, Fates
  <2>7. \A q \in Request \ {r} : Same(q)
    BY <1>3 DEF TypeOK, PlacesOK, TurnsOK, CleanupsOK, Same, SendFails, Cleanup,
       DropQueue, NoCleanup
  <2>8. Points(r, pc[r])'
    BY <1>3 DEF TypeOK, PlacesOK, TurnsOK, CleanupsOK, PointersOK, Points, MinePC,
       OnPC, TgtPC, CleanPC, SendFails, Cleanup, DropQueue, NoCleanup
  <2>9. QED
    BY <2>1, <2>2, <2>3, <2>4, <2>5, <2>6, <2>7, <2>8, OthersStay DEF IInv, TypeOK
<1>4. CASE SeeStop(r)
  <2>1. SessionsOK' /\ StatesOK' /\ QueuesOK' /\ AgentsOK' /\ PlacesOK' /\ TurnsOK' /\
          CleanupsOK'
    BY <1>4, Leaves DEF TypeOK, SeeStop, SessionsOK, StatesOK, QueuesOK, AgentsOK, PlacesOK,
       TurnsOK, CleanupsOK, PCs, MinePC
  <2>2. NewsOK'
    BY <1>4, ToldFates DEF TypeOK, SeeStop, NewsOK, Fates
  <2>3. \A q \in Request \ {r} : Same(q)
    BY <1>4 DEF TypeOK, PlacesOK, TurnsOK, CleanupsOK, Same, SeeStop
  <2>4. Points(r, pc[r])'
    BY <1>4 DEF TypeOK, PlacesOK, TurnsOK, CleanupsOK, PointersOK, Points, MinePC,
       OnPC, TgtPC, CleanPC, SeeStop
  <2>5. QED
    BY <2>1, <2>2, <2>3, <2>4, OthersStay DEF IInv, TypeOK
<1>5. CASE ReceiveEvent(r)
  <2>1. TypeOK'
    BY <1>5 DEF TypeOK, ReceiveEvent, SessionsOK, StatesOK, QueuesOK, AgentsOK,
       PlacesOK, TurnsOK, CleanupsOK, NewsOK, PCs
  <2>2. \A q \in Request \ {r} : Same(q)
    BY <1>5 DEF TypeOK, PlacesOK, TurnsOK, CleanupsOK, Same, ReceiveEvent
  <2>3. Points(r, pc[r])'
    BY <1>5 DEF TypeOK, PlacesOK, TurnsOK, CleanupsOK, PointersOK, Points, MinePC,
       OnPC, TgtPC, CleanPC, ReceiveEvent
  <2>4. QED
    BY <2>1, <2>2, <2>3, OthersStay DEF IInv
<1>6. CASE EventText(r)
  <2>1. StatesOK' /\ QueuesOK' /\ AgentsOK' /\ PlacesOK' /\ TurnsOK' /\ CleanupsOK' /\
          NewsOK'
    BY <1>6 DEF TypeOK, EventText, Bind, StatesOK, QueuesOK, AgentsOK, PlacesOK,
       TurnsOK, CleanupsOK, NewsOK, PCs
  <2>2. SessionsOK'
    BY <1>6, Binds DEF TypeOK, EventText, SessionsOK, PointersOK, Points, OnPC
  <2>3. \A q \in Request \ {r} : Same(q)
    BY <1>6 DEF TypeOK, PlacesOK, TurnsOK, CleanupsOK, Same, EventText, Bind
  <2>4. Points(r, pc[r])'
    BY <1>6 DEF TypeOK, PlacesOK, TurnsOK, CleanupsOK, PointersOK, Points, MinePC,
       OnPC, TgtPC, CleanPC, EventText, Bind
  <2>5. QED
    BY <2>1, <2>2, <2>3, <2>4, OthersStay DEF IInv, TypeOK
<1>7. CASE EventPermission(r)
  <2>1. SessionsOK' /\ QueuesOK' /\ AgentsOK' /\ PlacesOK' /\ CleanupsOK' /\ NewsOK'
    BY <1>7 DEF TypeOK, EventPermission, SessionsOK, QueuesOK, AgentsOK, PlacesOK,
       CleanupsOK, NewsOK, PCs
  <2>2. asks'[r] \in 1 .. MaxAsks /\ asks'[r] = asks[r] + 1
    BY <1>7, Bounds DEF TypeOK, EventPermission, TurnsOK
  <2>3. StatesOK'
    BY <1>7, <2>2 DEF TypeOK, EventPermission, StatesOK, Perm
  <2>4. TurnsOK'
    BY <1>7, Bounds DEF TypeOK, EventPermission, TurnsOK
  <2>5. \A q \in Request \ {r} : Same(q)
    BY <1>7 DEF TypeOK, PlacesOK, TurnsOK, CleanupsOK, Same, EventPermission
  <2>6. Points(r, pc[r])'
    BY <1>7 DEF TypeOK, PlacesOK, TurnsOK, CleanupsOK, PointersOK, Points, MinePC,
       OnPC, TgtPC, CleanPC, EventPermission
  <2>7. QED
    BY <2>1, <2>2, <2>3, <2>4, <2>5, <2>6, OthersStay DEF IInv, TypeOK
<1>8. CASE ResultUnsent(r)
  <2>1. StatesOK' /\ QueuesOK' /\ AgentsOK' /\ PlacesOK' /\ TurnsOK' /\ CleanupsOK'
    BY <1>8, Leaves DEF TypeOK, ResultUnsent, Bind, LearnID, StatesOK, QueuesOK, AgentsOK,
       PlacesOK, TurnsOK, CleanupsOK, PCs, MinePC
  <2>2. SessionsOK'
    BY <1>8, Binds DEF TypeOK, ResultUnsent, LearnID, SessionsOK, StatesOK,
       PointersOK, Points, MinePC
  <2>3. NewsOK'
    BY <1>8, ToldFates DEF TypeOK, ResultUnsent, Bind, LearnID, NewsOK, Fates
  <2>4. \A q \in Request \ {r} : Same(q)
    BY <1>8 DEF TypeOK, PlacesOK, TurnsOK, CleanupsOK, Same, ResultUnsent, Bind,
       LearnID
  <2>5. Points(r, pc[r])'
    BY <1>8 DEF TypeOK, PlacesOK, TurnsOK, CleanupsOK, PointersOK, Points, MinePC,
       OnPC, TgtPC, CleanPC, ResultUnsent, Bind, LearnID
  <2>6. QED
    BY <2>1, <2>2, <2>3, <2>4, <2>5, OthersStay DEF IInv, TypeOK
<1>9. CASE ResultSent(r)
  <2>1. StatesOK' /\ QueuesOK' /\ AgentsOK' /\ PlacesOK' /\ TurnsOK' /\ CleanupsOK'
    BY <1>9 DEF TypeOK, ResultSent, Bind, LearnID, StatesOK, QueuesOK, AgentsOK,
       PlacesOK, TurnsOK, CleanupsOK, PCs
  <2>2. SessionsOK'
    BY <1>9, Binds DEF TypeOK, ResultSent, LearnID, SessionsOK, StatesOK, PointersOK,
       Points, MinePC
  <2>3. NewsOK'
    BY <1>9, ToldFates DEF TypeOK, ResultSent, Bind, LearnID, NewsOK, Fates
  <2>4. \A q \in Request \ {r} : Same(q)
    BY <1>9 DEF TypeOK, PlacesOK, TurnsOK, CleanupsOK, Same, ResultSent, Bind, LearnID
  <2>5. Points(r, pc[r])'
    BY <1>9 DEF TypeOK, PlacesOK, TurnsOK, CleanupsOK, PointersOK, Points, MinePC,
       OnPC, TgtPC, CleanPC, ResultSent, Bind, LearnID
  <2>6. QED
    BY <2>1, <2>2, <2>3, <2>4, <2>5, OthersStay DEF IInv, TypeOK
<1>10. CASE ResultCompress(r)
  <2>1. SessionsOK' /\ StatesOK' /\ QueuesOK' /\ AgentsOK' /\ PlacesOK' /\ CleanupsOK'
          /\ NewsOK'
    BY <1>10 DEF TypeOK, ResultCompress, SessionsOK, StatesOK, QueuesOK, AgentsOK,
       PlacesOK, CleanupsOK, NewsOK, PCs
  <2>2. TurnsOK'
    BY <1>10, Bounds DEF TypeOK, ResultCompress, TurnsOK
  <2>3. \A q \in Request \ {r} : Same(q)
    BY <1>10 DEF TypeOK, PlacesOK, TurnsOK, CleanupsOK, Same, ResultCompress
  <2>4. Points(r, pc[r])'
    BY <1>10 DEF TypeOK, PlacesOK, TurnsOK, CleanupsOK, PointersOK, Points, MinePC,
       OnPC, TgtPC, CleanPC, ResultCompress
  <2>5. QED
    BY <2>1, <2>2, <2>3, <2>4, OthersStay DEF IInv, TypeOK
<1>11. CASE ResultNext(r)
  <2>1. SessionsOK' /\ StatesOK' /\ AgentsOK' /\ PlacesOK' /\ CleanupsOK' /\ NewsOK'
    BY <1>11 DEF TypeOK, ResultNext, SessionsOK, StatesOK, AgentsOK, PlacesOK,
       CleanupsOK, NewsOK, PCs, Fates
  <2>2. QueuesOK'
    BY <1>11, TakesHead DEF TypeOK, ResultNext, PointersOK, Points, MinePC
  <2>3. TurnsOK'
    BY <1>11, TakesHead DEF TypeOK, ResultNext, TurnsOK, PointersOK, Points, MinePC
  <2>4. \A q \in Request \ {r} : Same(q)
    BY <1>11 DEF TypeOK, PlacesOK, TurnsOK, CleanupsOK, Same, ResultNext
  <2>5. Points(r, pc[r])'
    BY <1>11 DEF TypeOK, PlacesOK, TurnsOK, CleanupsOK, PointersOK, Points, MinePC,
       OnPC, TgtPC, CleanPC, ResultNext
  <2>6. QED
    BY <2>1, <2>2, <2>3, <2>4, <2>5, OthersStay DEF IInv, TypeOK
<1>12. CASE SendNext(r)
  <2>1. CASE NilCall(r)
    BY <2>1, Panics
  <2>2. CASE ~NilCall(r)
    <3>1. SessionsOK' /\ StatesOK' /\ QueuesOK' /\ AgentsOK' /\ CleanupsOK' /\ NewsOK'
      BY <1>12, <2>2 DEF TypeOK, SendNext, SessionsOK, StatesOK, QueuesOK, AgentsOK,
         CleanupsOK, NewsOK
    <3>2. PlacesOK'
      BY <1>12, <2>2 DEF TypeOK, SendNext, PlacesOK, PCs
    <3>3. TurnsOK'
      BY <1>12, <2>2 DEF TypeOK, SendNext, TurnsOK, SessionsOK, StatesOK, PointersOK,
         Points, MinePC
    <3>4. \A q \in Request \ {r} : Same(q)
      BY <1>12, <2>2 DEF TypeOK, PlacesOK, TurnsOK, CleanupsOK, Same, SendNext
    <3>5. Points(r, pc[r])'
      BY <1>12, <2>2 DEF TypeOK, PlacesOK, TurnsOK, CleanupsOK, PointersOK, Points,
         MinePC, OnPC, TgtPC, CleanPC, SendNext
    <3>6. QED
      BY <3>1, <3>2, <3>3, <3>4, <3>5, OthersStay DEF IInv, TypeOK
  <2>3. QED BY <2>1, <2>2
<1>13. CASE ResultLast(r)
  <2>1. TypeOK'
    BY <1>13 DEF TypeOK, ResultLast, SessionsOK, StatesOK, QueuesOK, AgentsOK,
       PlacesOK, TurnsOK, CleanupsOK, NewsOK, PCs
  <2>2. \A q \in Request \ {r} : Same(q)
    BY <1>13 DEF TypeOK, PlacesOK, TurnsOK, CleanupsOK, Same, ResultLast
  <2>3. Points(r, pc[r])'
    BY <1>13 DEF TypeOK, PlacesOK, TurnsOK, CleanupsOK, PointersOK, Points, MinePC,
       OnPC, TgtPC, CleanPC, ResultLast
  <2>4. QED
    BY <2>1, <2>2, <2>3, OthersStay DEF IInv
<1>14. CASE ReturnLast(r)
  <2>1. TypeOK'
    BY <1>14 DEF TypeOK, ReturnLast, SessionsOK, StatesOK, QueuesOK, AgentsOK,
       PlacesOK, TurnsOK, CleanupsOK, NewsOK, PCs
  <2>2. \A q \in Request \ {r} : Same(q)
    BY <1>14 DEF TypeOK, PlacesOK, TurnsOK, CleanupsOK, Same, ReturnLast
  <2>3. Points(r, pc[r])'
    BY <1>14 DEF TypeOK, PlacesOK, TurnsOK, CleanupsOK, PointersOK, Points, MinePC,
       OnPC, TgtPC, CleanPC, ReturnLast
  <2>4. QED
    BY <2>1, <2>2, <2>3, OthersStay DEF IInv
<1>15. CASE EventError(r)
  <2>1. SessionsOK' /\ StatesOK' /\ AgentsOK' /\ PlacesOK' /\ TurnsOK' /\ CleanupsOK'
    BY <1>15, Leaves DEF TypeOK, EventError, DropQueue, SessionsOK, StatesOK, AgentsOK,
       PlacesOK, TurnsOK, CleanupsOK, PCs, MinePC
  <2>2. QueuesOK'
    BY <1>15, DropsQueue DEF TypeOK, EventError, QueuesOK, StatesOK, PointersOK,
       Points, MinePC, TgtPC
  <2>3. \A f \in [Msg -> Fates] : Told(f, r, "failed") \in [Msg -> Fates]
    BY ToldFates DEF TypeOK, Fates
  <2>4. NewsOK'
    BY <1>15, <2>3, DroppedFates DEF TypeOK, EventError, NewsOK
  <2>5. \A q \in Request \ {r} : Same(q)
    BY <1>15 DEF TypeOK, PlacesOK, TurnsOK, CleanupsOK, Same, EventError, DropQueue
  <2>6. Points(r, pc[r])'
    BY <1>15 DEF TypeOK, PlacesOK, TurnsOK, CleanupsOK, PointersOK, Points, MinePC,
       OnPC, TgtPC, CleanPC, EventError, DropQueue
  <2>7. QED
    BY <2>1, <2>2, <2>3, <2>4, <2>5, <2>6, OthersStay DEF IInv, TypeOK
<1>16. CASE ChannelClosed(r)
  <2>1. SessionsOK' /\ StatesOK' /\ AgentsOK' /\ PlacesOK' /\ TurnsOK' /\ CleanupsOK'
    BY <1>16, Leaves DEF TypeOK, ChannelClosed, Cleanup, DropQueue, SessionsOK, StatesOK,
       AgentsOK, PlacesOK, TurnsOK, CleanupsOK, PCs, MinePC
  <2>2. QueuesOK'
    BY <1>16, DropsQueue DEF TypeOK, ChannelClosed, Cleanup, QueuesOK, StatesOK,
       PointersOK, Points, MinePC, TgtPC
  <2>3. NewsOK'
    BY <1>16, ToldFates, DroppedFates DEF TypeOK, ChannelClosed, Cleanup, DropQueue,
       NewsOK, Fates
  <2>4. \A q \in Request \ {r} : Same(q)
    BY <1>16 DEF TypeOK, PlacesOK, TurnsOK, CleanupsOK, Same, ChannelClosed, Cleanup,
       DropQueue
  <2>5. Points(r, pc[r])'
    BY <1>16 DEF TypeOK, PlacesOK, TurnsOK, CleanupsOK, PointersOK, Points, MinePC,
       OnPC, TgtPC, CleanPC, ChannelClosed, Cleanup, DropQueue
  <2>6. QED
    BY <2>1, <2>2, <2>3, <2>4, <2>5, OthersStay DEF IInv, TypeOK
<1>17. CASE IdleTimeout(r)
  <2>1. SessionsOK' /\ StatesOK' /\ QueuesOK' /\ AgentsOK' /\ PlacesOK' /\ TurnsOK' /\
          CleanupsOK'
    BY <1>17, Leaves DEF TypeOK, IdleTimeout, Cleanup, SessionsOK, StatesOK, QueuesOK,
       AgentsOK, PlacesOK, TurnsOK, CleanupsOK, PCs, MinePC
  <2>2. NewsOK'
    BY <1>17, ToldFates DEF TypeOK, IdleTimeout, Cleanup, NewsOK, Fates
  <2>3. \A q \in Request \ {r} : Same(q)
    BY <1>17 DEF TypeOK, PlacesOK, TurnsOK, CleanupsOK, Same, IdleTimeout, Cleanup
  <2>4. Points(r, pc[r])'
    BY <1>17 DEF TypeOK, PlacesOK, TurnsOK, CleanupsOK, PointersOK, Points, MinePC,
       OnPC, TgtPC, CleanPC, IdleTimeout, Cleanup
  <2>5. QED
    BY <2>1, <2>2, <2>3, <2>4, OthersStay DEF IInv, TypeOK
<1>18. CASE DrainEmpty(r)
  <2>1. SessionsOK' /\ StatesOK' /\ QueuesOK' /\ AgentsOK' /\ PlacesOK' /\ CleanupsOK'
          /\ NewsOK'
    BY <1>18, Unlocks DEF DrainEmpty
  <2>2. depth[r] = 0 \/ depth[r] - 1 \in 0 .. MaxDepth
    BY Bounds DEF TypeOK, TurnsOK
  <2>3. TurnsOK'
    BY <1>18, <2>2 DEF TypeOK, DrainEmpty, UnlockAndReturn, TurnsOK
  <2>4. \A q \in Request \ {r} : Same(q)
    BY <1>18 DEF TypeOK, PlacesOK, TurnsOK, CleanupsOK, Same, DrainEmpty,
       UnlockAndReturn
  <2>5. Points(r, pc[r])'
    BY <1>18 DEF TypeOK, PlacesOK, TurnsOK, CleanupsOK, PointersOK, Points, MinePC,
       OnPC, TgtPC, CleanPC, DrainEmpty, UnlockAndReturn
  <2>6. QED
    BY <2>1, <2>2, <2>3, <2>4, <2>5, OthersStay DEF IInv, TypeOK
<1>19. CASE DrainNext(r)
  <2>1. SessionsOK' /\ StatesOK' /\ AgentsOK' /\ PlacesOK' /\ CleanupsOK'
    BY <1>19 DEF TypeOK, DrainNext, DropQueue, SessionsOK, StatesOK, AgentsOK,
       PlacesOK, CleanupsOK, PCs
  <2>2. QueuesOK'
    BY <1>19, TakesHead, DropsQueue DEF TypeOK, DrainNext, PointersOK, Points, MinePC
  <2>3. TurnsOK'
    <3>1. /\ cur' = cur \/ cur' = [cur EXCEPT ![r] = Head(queue[mine[r]])]
          /\ UNCHANGED <<sess, mine, on, sent, depth, asks, grip>>
          /\ mine[r] \in State /\ queue[mine[r]] # <<>>
      BY <1>19 DEF DrainNext, PointersOK, Points, MinePC
    <3>2. Head(queue[mine[r]]) \in Msg
      BY <3>1, TakesHead DEF TypeOK
    <3> QED BY <3>1, <3>2 DEF TypeOK, TurnsOK
  <2>4. NewsOK'
    BY <1>19, DroppedFates DEF TypeOK, DrainNext, DropQueue, NewsOK, Fates
  <2>5. \A q \in Request \ {r} : Same(q)
    BY <1>19 DEF TypeOK, PlacesOK, TurnsOK, CleanupsOK, Same, DrainNext, DropQueue
  <2>6. Points(r, pc[r])'
    BY <1>19 DEF TypeOK, PlacesOK, TurnsOK, CleanupsOK, PointersOK, Points, MinePC,
       OnPC, TgtPC, CleanPC, DrainNext, DropQueue
  <2>7. QED
    BY <2>1, <2>2, <2>3, <2>4, <2>5, <2>6, OthersStay DEF IInv, TypeOK
<1>20. CASE Release(r)
  <2>1. SessionsOK' /\ StatesOK' /\ QueuesOK' /\ AgentsOK' /\ PlacesOK' /\ CleanupsOK'
          /\ NewsOK'
    BY <1>20, Unlocks DEF Release
  <2>2. depth[r] = 0 \/ depth[r] - 1 \in 0 .. MaxDepth
    BY Bounds DEF TypeOK, TurnsOK
  <2>3. TurnsOK'
    BY <1>20, <2>2 DEF TypeOK, Release, UnlockAndReturn, TurnsOK
  <2>4. \A q \in Request \ {r} : Same(q)
    BY <1>20 DEF TypeOK, PlacesOK, TurnsOK, CleanupsOK, Same, Release, UnlockAndReturn
  <2>5. Points(r, pc[r])'
    BY <1>20 DEF TypeOK, PlacesOK, TurnsOK, CleanupsOK, PointersOK, Points, MinePC,
       OnPC, TgtPC, CleanPC, Release, UnlockAndReturn
  <2>6. QED
    BY <2>1, <2>2, <2>3, <2>4, <2>5, OthersStay DEF IInv, TypeOK
<1>21. QED
  BY <1>1, <1>2, <1>3, <1>4, <1>5, <1>6, <1>7, <1>8, <1>9, <1>10, <1>11, <1>12, <1>13,
     <1>14, <1>15, <1>16, <1>17, <1>18, <1>19, <1>20 DEF RunTurn

\* cleanupInteractiveState.
LEMMA CleanUpTypes ==
  ASSUME IInv, NEW r \in Runner \cup NewCmd, CleanUp(r)
  PROVE  IInv'
<1>. r \in Request
  BY Kinds
<1>. TypeOK /\ PointersOK
  BY DEF IInv
<1>1. CASE Detach(r)
  <2>1. SessionsOK' /\ QueuesOK' /\ AgentsOK' /\ NewsOK'
    BY <1>1 DEF TypeOK, Detach, SessionsOK, QueuesOK, AgentsOK, NewsOK
  <2>2. StatesOK'
    BY <1>1 DEF TypeOK, Detach, StatesOK, PointersOK, Points, MinePC, TgtPC, Perm
  <2>3. PlacesOK'
    BY <1>1 DEF TypeOK, Detach, PlacesOK, PCs, CleanupsOK
  <2>4. TurnsOK'
    BY <1>1 DEF TypeOK, Detach, TurnsOK, SessionsOK, StatesOK, PointersOK, Points,
       MinePC
  <2>5. CleanupsOK'
    BY <1>1 DEF TypeOK, Detach, CleanupsOK, TurnsOK, StatesOK
  <2>6. \A q \in Request \ {r} : Same(q)
    BY <1>1 DEF TypeOK, PlacesOK, TurnsOK, CleanupsOK, Same, Detach
  <2>7. Points(r, pc[r])'
    BY <1>1 DEF TypeOK, PlacesOK, TurnsOK, CleanupsOK, PointersOK, Points, MinePC,
       OnPC, TgtPC, CleanPC, StatesOK, Detach
  <2>8. QED
    BY <2>1, <2>2, <2>3, <2>4, <2>5, <2>6, <2>7, OthersStay DEF IInv, TypeOK
<1>2. CASE Notify(r)
  <2>1. SessionsOK' /\ StatesOK' /\ AgentsOK' /\ PlacesOK' /\ TurnsOK' /\ CleanupsOK'
    BY <1>2 DEF TypeOK, Notify, DropQueue, SessionsOK, StatesOK, AgentsOK, PlacesOK,
       TurnsOK, CleanupsOK, PointersOK, Points, MinePC, TgtPC, Perm, PCs
  <2>2. QueuesOK'
    BY <1>2, DropsQueue DEF TypeOK, Notify, QueuesOK, StatesOK, PointersOK, Points,
       MinePC, TgtPC
  <2>3. NewsOK'
    BY <1>2, DroppedFates DEF TypeOK, Notify, DropQueue, NewsOK, Fates
  <2>4. \A q \in Request \ {r} : Same(q)
    BY <1>2 DEF TypeOK, PlacesOK, TurnsOK, CleanupsOK, Same, Notify, DropQueue
  <2>5. Points(r, pc[r])'
    BY <1>2 DEF TypeOK, PlacesOK, TurnsOK, CleanupsOK, PointersOK, Points, MinePC,
       OnPC, TgtPC, CleanPC, Notify, DropQueue
  <2>6. QED
    BY <2>1, <2>2, <2>3, <2>4, <2>5, OthersStay DEF IInv, TypeOK
<1>3. CASE Close(r)
  <2>1. TypeOK'
    BY <1>3 DEF TypeOK, Close, CloseAgent, SessionsOK, StatesOK, QueuesOK, AgentsOK,
       PlacesOK, TurnsOK, CleanupsOK, NewsOK, PCs
  <2>2. \A q \in Request \ {r} : Same(q)
    BY <1>3 DEF TypeOK, PlacesOK, TurnsOK, CleanupsOK, Same, Close, CloseAgent
  <2>3. Points(r, pc[r])'
    BY <1>3 DEF TypeOK, PlacesOK, TurnsOK, CleanupsOK, PointersOK, Points, MinePC,
       OnPC, TgtPC, CleanPC, Close, CloseAgent
  <2>4. QED
    BY <2>1, <2>2, <2>3, OthersStay DEF IInv
<1>4. CASE Unmap(r)
  <2>1. TypeOK'
    BY <1>4 DEF TypeOK, Unmap, SessionsOK, StatesOK, QueuesOK, AgentsOK, PlacesOK,
       TurnsOK, CleanupsOK, NewsOK, PointersOK, Points, MinePC, TgtPC, Perm, PCs
  <2>2. \A q \in Request \ {r} : Same(q)
    BY <1>4 DEF TypeOK, PlacesOK, TurnsOK, CleanupsOK, Same, Unmap
  <2>3. Points(r, pc[r])'
    BY <1>4 DEF TypeOK, PlacesOK, TurnsOK, CleanupsOK, PointersOK, Points, MinePC,
       OnPC, TgtPC, CleanPC, Unmap
  <2>4. QED
    BY <2>1, <2>2, <2>3, OthersStay DEF IInv
<1>5. QED
  BY <1>1, <1>2, <1>3, <1>4 DEF CleanUp

\* runCompress and its event loop.
LEMMA CompressTypes ==
  ASSUME IInv, NEW r \in Runner, Compress(r)
  PROVE  IInv'
<1>. r \in Request /\ r \notin NewCmd
  BY Kinds
<1>. TypeOK /\ PointersOK
  BY DEF IInv
<1>1. CASE RunCompress(r)
  <2>1. CASE NilCall(r)
    BY <2>1, Panics
  <2>2. CASE ~NilCall(r)
    <3>1. SessionsOK' /\ StatesOK' /\ QueuesOK' /\ AgentsOK' /\ NewsOK'
      BY <1>1, <2>2 DEF TypeOK, RunCompress, SessionsOK, StatesOK, QueuesOK, AgentsOK,
         NewsOK
    <3>2. PlacesOK'
      BY <1>1, <2>2 DEF TypeOK, RunCompress, PlacesOK, PCs
    <3>3. TurnsOK'
      BY <1>1, <2>2 DEF TypeOK, RunCompress, TurnsOK, SessionsOK, StatesOK,
         PointersOK, Points, MinePC
    <3>4. CleanupsOK'
      BY <1>1, <2>2 DEF TypeOK, RunCompress, CleanupsOK, TurnsOK, StatesOK
    <3>5. \A q \in Request \ {r} : Same(q)
      BY <1>1, <2>2 DEF TypeOK, PlacesOK, TurnsOK, CleanupsOK, Same, RunCompress
    <3>6. Points(r, pc[r])'
      BY <1>1, <2>2 DEF TypeOK, PlacesOK, TurnsOK, CleanupsOK, PointersOK, Points,
         MinePC, OnPC, TgtPC, CleanPC, StatesOK, RunCompress
    <3>7. QED
      BY <3>1, <3>2, <3>3, <3>4, <3>5, <3>6, OthersStay DEF IInv, TypeOK
  <2>3. QED BY <2>1, <2>2
<1>2. CASE CompressStopped(r)
  <2>1. TypeOK'
    BY <1>2 DEF TypeOK, CompressStopped, SessionsOK, StatesOK, QueuesOK, AgentsOK,
       PlacesOK, TurnsOK, CleanupsOK, NewsOK, PCs
  <2>2. \A q \in Request \ {r} : Same(q)
    BY <1>2 DEF TypeOK, PlacesOK, TurnsOK, CleanupsOK, Same, CompressStopped
  <2>3. Points(r, pc[r])'
    BY <1>2 DEF TypeOK, PlacesOK, TurnsOK, CleanupsOK, PointersOK, Points, MinePC,
       OnPC, TgtPC, CleanPC, CompressStopped
  <2>4. QED
    BY <2>1, <2>2, <2>3, OthersStay DEF IInv
<1>3. CASE CompressBroken(r)
  <2>1. TypeOK'
    BY <1>3 DEF TypeOK, CompressBroken, Cleanup, SessionsOK, StatesOK, QueuesOK,
       AgentsOK, PlacesOK, TurnsOK, CleanupsOK, NewsOK, PCs
  <2>2. \A q \in Request \ {r} : Same(q)
    BY <1>3 DEF TypeOK, PlacesOK, TurnsOK, CleanupsOK, Same, CompressBroken, Cleanup
  <2>3. Points(r, pc[r])'
    BY <1>3 DEF TypeOK, PlacesOK, TurnsOK, CleanupsOK, PointersOK, Points, MinePC,
       OnPC, TgtPC, CleanPC, CompressBroken, Cleanup
  <2>4. QED
    BY <2>1, <2>2, <2>3, OthersStay DEF IInv
<1>4. CASE CompressDrop(r)
  <2>1. SessionsOK' /\ StatesOK' /\ AgentsOK' /\ PlacesOK' /\ TurnsOK' /\ CleanupsOK'
    BY <1>4 DEF TypeOK, CompressDrop, DropQueue, SessionsOK, StatesOK, AgentsOK,
       PlacesOK, TurnsOK, CleanupsOK, PCs
  <2>2. QueuesOK'
    BY <1>4, DropsQueue DEF TypeOK, CompressDrop, QueuesOK, StatesOK, PointersOK,
       Points, MinePC, TgtPC
  <2>3. NewsOK'
    BY <1>4, DroppedFates DEF TypeOK, CompressDrop, DropQueue, NewsOK, Fates
  <2>4. \A q \in Request \ {r} : Same(q)
    BY <1>4 DEF TypeOK, PlacesOK, TurnsOK, CleanupsOK, Same, CompressDrop, DropQueue
  <2>5. Points(r, pc[r])'
    BY <1>4 DEF TypeOK, PlacesOK, TurnsOK, CleanupsOK, PointersOK, Points, MinePC,
       OnPC, TgtPC, CleanPC, CompressDrop, DropQueue
  <2>6. QED
    BY <2>1, <2>2, <2>3, <2>4, <2>5, OthersStay DEF IInv, TypeOK
<1>5. CASE CompressEnds(r)
  <2>1. TypeOK'
    BY <1>5 DEF TypeOK, CompressEnds, CompressEvent, SessionsOK, StatesOK, QueuesOK,
       AgentsOK, PlacesOK, TurnsOK, CleanupsOK, NewsOK, PCs
  <2>2. \A q \in Request \ {r} : Same(q)
    BY <1>5 DEF TypeOK, PlacesOK, TurnsOK, CleanupsOK, Same, CompressEnds,
       CompressEvent
  <2>3. Points(r, pc[r])'
    BY <1>5 DEF TypeOK, PlacesOK, TurnsOK, CleanupsOK, PointersOK, Points, MinePC,
       OnPC, TgtPC, CleanPC, CompressEnds, CompressEvent
  <2>4. QED
    BY <2>1, <2>2, <2>3, OthersStay DEF IInv
<1>6. CASE CompressDies(r)
  <2>1. CASE NilCall(r)
    BY <2>1, Panics
  <2>2. CASE ~NilCall(r)
    <3>1. SessionsOK' /\ StatesOK' /\ AgentsOK' /\ PlacesOK' /\ TurnsOK' /\ CleanupsOK'
      BY <1>6, <2>2, ZenonT(60) DEF TypeOK, CompressDies, CompressEvent, DropQueue, SessionsOK,
         StatesOK, AgentsOK, PlacesOK, TurnsOK, CleanupsOK, PCs
    <3>2. QueuesOK'
      BY <1>6, <2>2, DropsQueue DEF TypeOK, CompressDies, CompressEvent, QueuesOK,
         StatesOK, PointersOK, Points, MinePC, TgtPC
    <3>3. NewsOK'
      BY <1>6, <2>2, DroppedFates DEF TypeOK, CompressDies, CompressEvent, DropQueue,
         NewsOK, Fates
    <3>4. \A q \in Request \ {r} : Same(q)
      BY <1>6, <2>2 DEF TypeOK, PlacesOK, TurnsOK, CleanupsOK, Same, CompressDies,
         CompressEvent, DropQueue
    <3>5. Points(r, pc[r])'
      BY <1>6, <2>2 DEF TypeOK, PlacesOK, TurnsOK, CleanupsOK, PointersOK, Points,
         MinePC, OnPC, TgtPC, CleanPC, CompressDies, CompressEvent, DropQueue
    <3>6. QED
      BY <3>1, <3>2, <3>3, <3>4, <3>5, OthersStay DEF IInv, TypeOK
  <2>3. QED BY <2>1, <2>2
<1>7. QED
  BY <1>1, <1>2, <1>3, <1>4, <1>5, <1>6 DEF Compress

\* /compress up to runCompress.
LEMMA CmdCompressesTypes ==
  ASSUME IInv, NEW c \in CompressCmd, CmdCompress(c) \/ CompressTryLock(c)
  PROVE  IInv'
<1>. c \in Runner /\ c \in Request
  BY Kinds
<1>. TypeOK /\ PointersOK
  BY DEF IInv
<1>1. CASE CmdCompress(c)
  <2>1. SessionsOK' /\ StatesOK' /\ QueuesOK' /\ AgentsOK' /\ CleanupsOK' /\ NewsOK'
    BY <1>1 DEF TypeOK, CmdCompress, SessionsOK, StatesOK, QueuesOK, AgentsOK,
       CleanupsOK, NewsOK
  <2>2. PlacesOK'
    BY <1>1 DEF TypeOK, CmdCompress, PlacesOK, PCs
  <2>3. TurnsOK'
    BY <1>1 DEF TypeOK, CmdCompress, TurnsOK, SessionsOK, StatesOK, PointersOK,
       Points, MinePC
  <2>4. \A q \in Request \ {c} : Same(q)
    BY <1>1 DEF TypeOK, PlacesOK, TurnsOK, CleanupsOK, Same, CmdCompress
  <2>5. Points(c, pc[c])'
    BY <1>1 DEF TypeOK, PlacesOK, TurnsOK, CleanupsOK, PointersOK, Points, MinePC,
       OnPC, TgtPC, CleanPC, StatesOK, SessionsOK, CmdCompress
  <2>6. QED
    BY <2>1, <2>2, <2>3, <2>4, <2>5, OthersStay DEF IInv, TypeOK
<1>2. CASE CompressTryLock(c)
  <2>1. TypeOK'
    BY <1>2, ZenonT(60) DEF TypeOK, CompressTryLock, SessionsOK, StatesOK, QueuesOK, AgentsOK,
       PlacesOK, TurnsOK, CleanupsOK, NewsOK, PointersOK, Points, PCs
  <2>2. \A q \in Request \ {c} : Same(q)
    BY <1>2 DEF TypeOK, PlacesOK, TurnsOK, CleanupsOK, Same, CompressTryLock
  <2>3. Points(c, pc[c])'
    BY <1>2 DEF TypeOK, PlacesOK, TurnsOK, CleanupsOK, PointersOK, Points, MinePC,
       OnPC, TgtPC, CleanPC, CompressTryLock
  <2>4. QED
    BY <2>1, <2>2, <2>3, OthersStay DEF IInv
<1>3. QED
  BY <1>1, <1>2

\* /stop.
LEMMA StopsTypes ==
  ASSUME IInv, NEW c \in StopCmd, CmdStop(c) \/ StopResolve(c) \/ StopDrop(c) \/ StopClose(c)
  PROVE  IInv'
<1>. c \in Request /\ c \notin Runner /\ c \notin NewCmd
  BY Kinds
<1>. TypeOK /\ PointersOK
  BY DEF IInv
<1>1. CASE CmdStop(c)
  <2>1. SessionsOK' /\ QueuesOK' /\ AgentsOK' /\ NewsOK'
    BY <1>1 DEF TypeOK, CmdStop, SessionsOK, QueuesOK, AgentsOK, NewsOK
  <2>2. StatesOK'
    BY <1>1 DEF TypeOK, CmdStop, StatesOK, PointersOK, Points, MinePC, TgtPC, Perm
  <2>3. PlacesOK'
    BY <1>1 DEF TypeOK, CmdStop, PlacesOK, PCs
  <2>4. TurnsOK'
    BY <1>1 DEF TypeOK, CmdStop, TurnsOK, SessionsOK, StatesOK, PointersOK, Points,
       MinePC
  <2>5. CleanupsOK'
    BY <1>1 DEF TypeOK, CmdStop, CleanupsOK, TurnsOK, StatesOK
  <2>6. \A q \in Request \ {c} : Same(q)
    BY <1>1 DEF TypeOK, PlacesOK, TurnsOK, CleanupsOK, Same, CmdStop
  <2>7. Points(c, pc[c])'
    BY <1>1 DEF TypeOK, PlacesOK, TurnsOK, CleanupsOK, PointersOK, Points, MinePC,
       OnPC, TgtPC, CleanPC, StatesOK, CmdStop
  <2>8. QED
    BY <2>1, <2>2, <2>3, <2>4, <2>5, <2>6, <2>7, OthersStay DEF IInv, TypeOK
<1>2. CASE StopResolve(c)
  <2>1. SessionsOK' /\ StatesOK' /\ QueuesOK' /\ AgentsOK' /\ TurnsOK' /\ CleanupsOK'
          /\ NewsOK'
    BY <1>2 DEF TypeOK, StopResolve, SessionsOK, StatesOK, QueuesOK, AgentsOK,
       TurnsOK, CleanupsOK, NewsOK
  <2>2. PlacesOK'
    BY <1>2, Wakes DEF TypeOK, StopResolve, PlacesOK, PCs
  <2>3. \A q \in Request \ {c} : Points(q, pc[q])'
    BY <1>2, Wakes DEF TypeOK, PointersOK, Points, PlacesOK, MinePC, OnPC, TgtPC,
       CleanPC, StopResolve
  <2>4. Points(c, pc[c])'
    BY <1>2, Wakes DEF TypeOK, PlacesOK, PointersOK, Points, MinePC, OnPC, TgtPC,
       CleanPC, StopResolve
  <2>5. QED
    BY <2>1, <2>2, <2>3, <2>4 DEF IInv, TypeOK, PointersOK
<1>3. CASE StopDrop(c)
  <2>1. SessionsOK' /\ StatesOK' /\ AgentsOK' /\ PlacesOK' /\ TurnsOK' /\ CleanupsOK'
    BY <1>3 DEF TypeOK, StopDrop, DropQueue, SessionsOK, StatesOK, AgentsOK, PlacesOK,
       TurnsOK, CleanupsOK, PCs
  <2>2. QueuesOK'
    BY <1>3, DropsQueue DEF TypeOK, StopDrop, QueuesOK, StatesOK, PointersOK, Points,
       MinePC, TgtPC
  <2>3. NewsOK'
    BY <1>3, DroppedFates DEF TypeOK, StopDrop, DropQueue, NewsOK, Fates
  <2>4. \A q \in Request \ {c} : Same(q)
    BY <1>3 DEF TypeOK, PlacesOK, TurnsOK, CleanupsOK, Same, StopDrop, DropQueue
  <2>5. Points(c, pc[c])'
    BY <1>3 DEF TypeOK, PlacesOK, TurnsOK, CleanupsOK, PointersOK, Points, MinePC,
       OnPC, TgtPC, CleanPC, StopDrop, DropQueue
  <2>6. QED
    BY <2>1, <2>2, <2>3, <2>4, <2>5, OthersStay DEF IInv, TypeOK
<1>4. CASE StopClose(c)
  <2>1. TypeOK'
    BY <1>4 DEF TypeOK, StopClose, CloseAgent, SessionsOK, StatesOK, QueuesOK,
       AgentsOK, PlacesOK, TurnsOK, CleanupsOK, NewsOK, PCs
  <2>2. \A q \in Request \ {c} : Same(q)
    BY <1>4 DEF TypeOK, PlacesOK, TurnsOK, CleanupsOK, Same, StopClose, CloseAgent
  <2>3. Points(c, pc[c])'
    BY <1>4 DEF TypeOK, PlacesOK, TurnsOK, CleanupsOK, PointersOK, Points, MinePC,
       OnPC, TgtPC, CleanPC, StopClose, CloseAgent
  <2>4. QED
    BY <2>1, <2>2, <2>3, OthersStay DEF IInv
<1>5. QED
  BY <1>1, <1>2, <1>3, <1>4

\* /new.
LEMMA NewsTypes ==
  ASSUME IInv, NEW c \in NewCmd, CmdNew(c) \/ NewSession(c)
  PROVE  IInv'
<1>. c \in Request /\ c \notin Runner
  BY Kinds
<1>. TypeOK /\ PointersOK
  BY DEF IInv
<1>1. CASE CmdNew(c)
  <2>1. TypeOK'
    BY <1>1 DEF TypeOK, CmdNew, SessionsOK, StatesOK, QueuesOK, AgentsOK, PlacesOK,
       TurnsOK, CleanupsOK, NewsOK, PCs
  <2>2. \A q \in Request \ {c} : Same(q)
    BY <1>1 DEF TypeOK, PlacesOK, TurnsOK, CleanupsOK, Same, CmdNew
  <2>3. Points(c, pc[c])'
    BY <1>1 DEF TypeOK, PlacesOK, TurnsOK, CleanupsOK, PointersOK, Points, MinePC,
       OnPC, TgtPC, CleanPC, CmdNew
  <2>4. QED
    BY <2>1, <2>2, <2>3, OthersStay DEF IInv
<1>2. CASE NewSession(c)
  <2>1. StatesOK' /\ QueuesOK' /\ AgentsOK' /\ PlacesOK' /\ TurnsOK' /\ CleanupsOK' /\
          NewsOK'
    BY <1>2 DEF TypeOK, NewSession, StatesOK, QueuesOK, AgentsOK, PlacesOK, TurnsOK,
       CleanupsOK, NewsOK, PCs
  <2>2. SessionsOK'
    BY <1>2 DEF TypeOK, NewSession, SessionsOK, Session
  <2>3. \A q \in Request \ {c} : Same(q)
    BY <1>2 DEF TypeOK, PlacesOK, TurnsOK, CleanupsOK, Same, NewSession
  <2>4. Points(c, pc[c])'
    BY <1>2 DEF TypeOK, PlacesOK, TurnsOK, CleanupsOK, PointersOK, Points, MinePC,
       OnPC, TgtPC, CleanPC, NewSession
  <2>5. QED
    BY <2>1, <2>2, <2>3, <2>4, OthersStay DEF IInv, TypeOK
<1>3. QED
  BY <1>1, <1>2

\* Answers to a permission prompt.
LEMMA AnswersTypes ==
  ASSUME IInv, NEW c \in Answer, AnswerRead(c) \/ AnswerResolve(c)
  PROVE  IInv'
<1>. c \in Request /\ c \notin Runner /\ c \notin NewCmd
  BY Kinds
<1>. TypeOK /\ PointersOK
  BY DEF IInv
<1>1. CASE AnswerRead(c)
  <2>1. TypeOK'
    BY <1>1 DEF TypeOK, AnswerRead, SessionsOK, StatesOK, QueuesOK, AgentsOK,
       PlacesOK, TurnsOK, CleanupsOK, NewsOK, PCs, PointersOK, Points, MinePC
  <2>2. \A q \in Request \ {c} : Same(q)
    BY <1>1 DEF TypeOK, PlacesOK, TurnsOK, CleanupsOK, Same, AnswerRead
  <2>3. Points(c, pc[c])'
    BY <1>1 DEF TypeOK, PlacesOK, TurnsOK, CleanupsOK, PointersOK, Points, MinePC,
       OnPC, TgtPC, CleanPC, StatesOK, AnswerRead
  <2>4. QED
    BY <2>1, <2>2, <2>3, OthersStay DEF IInv
<1>2. CASE AnswerResolve(c)
  <2>1. SessionsOK' /\ StatesOK' /\ QueuesOK' /\ AgentsOK' /\ TurnsOK' /\ CleanupsOK'
          /\ NewsOK'
    BY <1>2 DEF TypeOK, AnswerResolve, SessionsOK, StatesOK, QueuesOK, AgentsOK,
       TurnsOK, CleanupsOK, NewsOK, PointersOK, Points, MinePC, TgtPC, Perm
  <2>2. PlacesOK'
    BY <1>2, Wakes DEF TypeOK, AnswerResolve, PlacesOK, PCs
  <2>3. \A q \in Request \ {c} : Points(q, pc[q])'
    BY <1>2, Wakes DEF TypeOK, PointersOK, Points, PlacesOK, MinePC, OnPC, TgtPC,
       CleanPC, AnswerResolve
  <2>4. Points(c, pc[c])'
    BY <1>2, Wakes DEF TypeOK, PlacesOK, PointersOK, Points, MinePC, OnPC, TgtPC,
       CleanPC, AnswerResolve
  <2>5. QED
    BY <2>1, <2>2, <2>3, <2>4 DEF IInv, TypeOK, PointersOK
<1>3. QED
  BY <1>1, <1>2

\* The agent processes.
LEMMA AgentsTypes ==
  ASSUME IInv, NEW a \in Agent, AgentDies(a) \/ AgentCloses(a)
  PROVE  IInv'
<1>. TypeOK /\ PointersOK
  BY DEF IInv
<1>1. CASE AgentDies(a)
  <2>1. TypeOK'
    BY <1>1 DEF TypeOK, AgentDies, SessionsOK, StatesOK, QueuesOK, AgentsOK, PlacesOK,
       TurnsOK, CleanupsOK, NewsOK
  <2>2. PointersOK'
    BY <1>1 DEF PointersOK, Points, AgentDies
  <2>3. QED
    BY <2>1, <2>2 DEF IInv
<1>2. CASE AgentCloses(a)
  <2>1. TypeOK'
    BY <1>2 DEF TypeOK, AgentCloses, SessionsOK, StatesOK, QueuesOK, AgentsOK,
       PlacesOK, TurnsOK, CleanupsOK, NewsOK
  <2>2. PointersOK'
    BY <1>2 DEF PointersOK, Points, AgentCloses
  <2>3. QED
    BY <2>1, <2>2 DEF IInv
<1>3. QED
  BY <1>1, <1>2

\* Engine.Stop.
LEMMA ShutdownTypes ==
  ASSUME IInv, Cancel \/ Sweep
  PROVE  IInv'
<1>. TypeOK /\ PointersOK
  BY DEF IInv
<1>1. CASE Cancel
  <2>1. TypeOK'
    BY <1>1 DEF TypeOK, Cancel, SessionsOK, StatesOK, QueuesOK, AgentsOK, PlacesOK,
       TurnsOK, CleanupsOK, NewsOK, PCs
  <2>2. PointersOK'
    BY <1>1 DEF PointersOK, Points, Cancel
  <2>3. QED
    BY <2>1, <2>2 DEF IInv
<1>2. CASE Sweep
  <2>1. TypeOK'
    BY <1>2 DEF TypeOK, Sweep, CloseAgent, SessionsOK, StatesOK, QueuesOK, AgentsOK,
       PlacesOK, TurnsOK, CleanupsOK, NewsOK, PointersOK, Points, MinePC, TgtPC, Perm,
       PCs
  <2>2. PointersOK'
    BY <1>2 DEF PointersOK, Points, Sweep, CloseAgent
  <2>3. QED
    BY <2>1, <2>2 DEF IInv
<1>3. QED
  BY <1>1, <1>2

\* The goroutine of a Send that its turn left behind.
LEMMA LateSendTypes ==
  ASSUME IInv, NEW q \in State, LateSend(q)
  PROVE  IInv'
<1>. TypeOK /\ PointersOK
  BY DEF IInv
<1>1. TypeOK'
  BY DEF TypeOK, LateSend, SessionsOK, StatesOK, QueuesOK, AgentsOK, PlacesOK, TurnsOK,
     CleanupsOK, NewsOK
<1>2. PointersOK'
  BY DEF PointersOK, Points, LateSend
<1>3. QED
  BY <1>1, <1>2 DEF IInv

-----------------------------------------------------------------------------
HIDE DEF At, Go, sessVars, stateVars, agentVars, turnVars, cleanVars, procVars

\* Every goroutine starts idle, with no pointer set.
LEMMA InitTypes == Init => IInv
<1>. SUFFICES ASSUME Init PROVE IInv
  OBVIOUS
<1>1. SessionsOK /\ StatesOK /\ CleanupsOK
  BY DEF Init, SessionsOK, StatesOK, CleanupsOK, Session
<1>2. AgentsOK /\ PlacesOK
  BY DEF Init, AgentsOK, PlacesOK, PCs
<1>3. NewsOK
  BY DEF Init, NewsOK, Fates
<1>4. QueuesOK
  BY Bounds DEF Init, QueuesOK
<1>5. TurnsOK
  BY Bounds DEF Init, TurnsOK
<1>6. PointersOK
  BY DEF Init, PointersOK, Points, MinePC, OnPC, TgtPC, CleanPC
<1>7. QED
  BY <1>1, <1>2, <1>3, <1>4, <1>5, <1>6 DEF IInv, TypeOK

\* Type correctness and the pointers are inductive.
LEMMA NextTypes == IInv /\ [Next]_vars => IInv'
<1>. SUFFICES ASSUME IInv, [Next]_vars PROVE IInv'
  OBVIOUS
<1>1. CASE \E m \in Msg : HandleMessage(m) \/ StartTurn(m)
  BY <1>1, HandleMessageTypes, StartTurnTypes
<1>2. CASE \E r \in Runner : RunTurn(r) \/ Compress(r)
  BY <1>2, RunTurnTypes, CompressTypes
<1>3. CASE \E r \in Runner \cup NewCmd : CleanUp(r)
  BY <1>3, CleanUpTypes
<1>4. CASE \E c \in CompressCmd : CmdCompress(c) \/ CompressTryLock(c)
  BY <1>4, CmdCompressesTypes
<1>5. CASE \E c \in StopCmd : CmdStop(c) \/ StopResolve(c) \/ StopDrop(c) \/ StopClose(c)
  BY <1>5, StopsTypes
<1>6. CASE \E c \in NewCmd : CmdNew(c) \/ NewSession(c)
  BY <1>6, NewsTypes
<1>7. CASE \E c \in Answer : AnswerRead(c) \/ AnswerResolve(c)
  BY <1>7, AnswersTypes
<1>8. CASE \E a \in Agent : AgentDies(a) \/ AgentCloses(a)
  BY <1>8, AgentsTypes
<1>9. CASE Cancel \/ Sweep
  BY <1>9, ShutdownTypes
<1>10. CASE UNCHANGED vars
  BY <1>10 DEF vars, sessVars, stateVars, agentVars, turnVars, cleanVars, procVars, IInv,
               TypeOK, PointersOK, Points, SessionsOK, StatesOK, QueuesOK, AgentsOK,
               PlacesOK, TurnsOK, CleanupsOK, NewsOK
<1>11. CASE \E q \in State : LateSend(q)
  BY <1>11, LateSendTypes
<1>12. QED
  BY <1>1, <1>2, <1>3, <1>4, <1>5, <1>6, <1>7, <1>8, <1>9, <1>10, <1>11 DEF Next

\* Every variable has its type in every reachable state, and no queue ever holds
\* more than maxQueuedMessages messages, whatever adoptions and drains do.
THEOREM Types == Spec => []TypeOK
<1>1. IInv /\ [Next]_vars => IInv'
  BY NextTypes
<1>2. IInv => TypeOK
  BY DEF IInv
<1>3. QED
  BY InitTypes, <1>1, <1>2, PTL DEF Spec
=============================================================================
