------------------------ MODULE InteractiveTurns_safety ------------------------
(***************************************************************************)
(* The safety of the turn engine, for any number of messages, commands and *)
(* failures.                                                               *)
(*                                                                         *)
(* Each section states an inductive invariant, proves that every action    *)
(* keeps it, and ends in the theorem of a property of InteractiveTurns.    *)
(* Most actions touch little of what an invariant speaks of: a section     *)
(* begins with what such a step may do (Frame, Still, UsesAgent, ...), and *)
(* the lemmas on the actions show which of them do no more.  IInv, the     *)
(* types and pointers, is the invariant of InteractiveTurns_types, and     *)
(* LockInv, who holds which Session, that of InteractiveTurns_proofs.      *)
(***************************************************************************)
EXTENDS InteractiveTurns_types, InteractiveTurns_proofs, InteractiveTurns_line,
        FiniteSetTheorems

-----------------------------------------------------------------------------
(* The closing of agents *)

\* Where the goroutine of a message is before it may create a state <<m, "live">>.
Early == {"idle", "try", "slot", "start"}
\* The state that the goroutine of m creates in getOrCreateInteractiveStateWith.
Live(m) == <<m, "live">>

\* An agent is never handed from one state to another.
Home == \A q \in State : agentOf[q] # None => q = Live(agentOf[q])

\* Nothing knows the state, or the agent, that the goroutine of m has not
\* created yet.
Unborn(m) ==
  /\ entry # Live(m) /\ agentOf[Live(m)] = None /\ queue[Live(m)] = <<>>
  /\ \A c \in Request : mine[c] # Live(m) /\ tgt[c] # Live(m) /\ on[c] # m

Fresh == \A m \in Msg : pc[m] \in Early => Unborn(m)

\* Who is about to close an agent has taken it from the entry before: the next
\* who looks there does not find it.
TakenOnce == entry # None =>
  \A a \in Agent, c \in Request : Closing(c, a) => agentOf[entry] # a

\* The inductive invariant of CloseOnce.
CloseInv == IInv /\ Home /\ Fresh /\ TakenOnce /\ CloseOnce

\* What all steps but the creation of a state leave alone.
Frame ==
  /\ entry' \in {entry, None} \cup (Msg \X {"slot"})
  /\ \A q \in State : agentOf'[q] \in {agentOf[q], None}
  /\ \A q \in State : queue'[q] # <<>> => queue[q] # <<>> \/ q = entry
  /\ \A c \in Request :
       /\ pc'[c] \in Early => pc[c] \in Early
       /\ mine'[c] \in {mine[c], entry}
       /\ tgt'[c] \in {tgt[c], mine[c], entry, None}
       /\ on'[c] = on[c] \/ \E q \in State : on'[c] = agentOf[q]

\* Nobody new is about to close an agent.
Quiet == \A c \in Request, a \in Agent : Closing(c, a)' => Closing(c, a)

USE DEF At, Go, sessVars, stateVars, agentVars, turnVars, cleanVars, procVars

\* States and agents that do not exist yet stay unknown in such a step.
LEMMA FrameFresh == ASSUME IInv, Home, Fresh, Frame PROVE Home' /\ Fresh'
<1>. USE DEF IInv, TypeOK, PlacesOK, TurnsOK, CleanupsOK, StatesOK
<1>1. Home'
  BY DEF Home, Frame
<1>2. ASSUME NEW m \in Msg, pc'[m] \in Early PROVE Unborn(m)'
  <2>1. /\ m \in Request /\ Live(m) \in State /\ pc[m] \in Early
        /\ m # None /\ Live(m) # None
    BY <1>2, Kinds DEF Frame, Live, State, Agent
  <2>2. Unborn(m)
    BY <2>1 DEF Fresh
  <2>3. entry' # Live(m) /\ agentOf'[Live(m)] = None /\ queue'[Live(m)] = <<>>
    BY <2>1, <2>2 DEF Frame, Unborn, Live
  <2>4. ASSUME NEW c \in Request
        PROVE mine'[c] # Live(m) /\ tgt'[c] # Live(m) /\ on'[c] # m
    <3>1. \A q \in State : agentOf[q] # m
      BY <2>1, <2>2 DEF Unborn, Home
    <3>2. on'[c] = on[c] \/ \E q \in State : on'[c] = agentOf[q]
      BY DEF Frame
    <3>3. on'[c] # m
      BY <2>2, <3>1, <3>2 DEF Unborn
    <3>4. QED
      BY <2>1, <2>2, <3>3 DEF Frame, Unborn
  <2>5. QED
    BY <2>3, <2>4 DEF Unborn, Live
<1>3. QED
  BY <1>1, <1>2 DEF Fresh

\* When nobody takes an agent, the agents about to be closed stay distinct.
LEMMA QuietClose ==
  ASSUME IInv, Home, TakenOnce, CloseOnce, Frame, Quiet
  PROVE  TakenOnce' /\ CloseOnce'
<1>1. CloseOnce'
  BY DEF CloseOnce, Quiet
<1>2. ASSUME entry' # None, NEW a \in Agent, NEW c \in Request, Closing(c, a)'
      PROVE  agentOf'[entry'] # a
  <2>1. a # None /\ Closing(c, a)
    BY <1>2, Kinds DEF Quiet
  <2>2. CASE entry' = entry
    BY <1>2, <2>1, <2>2 DEF TakenOnce, Frame, IInv, TypeOK, StatesOK
  <2>3. CASE entry' \in Msg \X {"slot"}
    <3>1. entry' \in State /\ agentOf[entry'] = None
      BY <2>3 DEF Home, Live, State, IInv, TypeOK, StatesOK
    <3>2. QED
      BY <2>1, <3>1 DEF Frame
  <2>4. QED
    BY <1>2, <2>2, <2>3 DEF Frame
<1>3. QED
  BY <1>1, <1>2 DEF TakenOnce

\* Handling a message, before the agent is there, takes no agent.
LEMMA HandleMessageFrame ==
  ASSUME IInv, NEW m \in Msg, HandleMessage(m) PROVE Frame /\ Quiet
<1>. m \in Runner /\ m \in Request
  BY Kinds
<1>. USE DEF Frame, Quiet, Closing, IInv, TypeOK, PlacesOK, TurnsOK, CleanupsOK, StatesOK,
             QueuesOK, Early
<1>1. CASE HintPending(m)
  BY <1>1 DEF HintPending
<1>2. CASE Arrive(m)
  BY <1>2 DEF Arrive
<1>3. CASE TryLock(m)
  BY <1>3 DEF TryLock
<1>4. CASE QueueMessage(m)
  BY <1>4 DEF QueueMessage
<1>5. CASE RetryLock(m)
  BY <1>5 DEF RetryLock
<1>6. CASE DrainOrphaned(m)
  BY <1>6 DEF DrainOrphaned
<1>7. CASE EnsureSlot(m)
  BY <1>7 DEF EnsureSlot
<1>8. QED
  BY <1>1, <1>2, <1>3, <1>4, <1>5, <1>6, <1>7 DEF HandleMessage

\* Nor does a turn.
LEMMA RunTurnFrame ==
  ASSUME IInv, NEW r \in Runner, RunTurn(r) PROVE Frame /\ Quiet
<1>. r \in Request
  BY Kinds
<1>. USE DEF Frame, Quiet, Closing, IInv, TypeOK, PlacesOK, TurnsOK, CleanupsOK, StatesOK,
             QueuesOK, Early, DropQueue
<1>0. mine[r] \in State \/ ~(pc[r] \in MinePC)
  BY DEF PointersOK, Points
<1>. USE DEF MinePC
<1>1. CASE Dispatch(r)
  BY <1>0, <1>1 DEF Dispatch, NilCall
<1>2. CASE SendReturns(r)
  BY <1>0, <1>2 DEF SendReturns, NilCall
<1>3. CASE SendFails(r)
  BY <1>0, <1>3 DEF SendFails, Cleanup, NoCleanup
<1>4. CASE SeeStop(r)
  BY <1>4 DEF SeeStop
<1>5. CASE ReceiveEvent(r)
  BY <1>5 DEF ReceiveEvent
<1>6. CASE EventText(r)
  BY <1>6 DEF EventText
<1>7. CASE EventPermission(r)
  BY <1>7 DEF EventPermission
<1>8. CASE ResultUnsent(r) \/ ResultSent(r)
  BY <1>8 DEF ResultUnsent, ResultSent
<1>9. CASE ResultCompress(r)
  BY <1>9 DEF ResultCompress
<1>10. CASE ResultNext(r)
  BY <1>0, <1>10 DEF ResultNext
<1>11. CASE SendNext(r)
  BY <1>11 DEF SendNext, NilCall
<1>12. CASE ResultLast(r) \/ ReturnLast(r)
  BY <1>12 DEF ResultLast, ReturnLast
<1>13. CASE EventError(r)
  BY <1>0, <1>13 DEF EventError
<1>14. CASE ChannelClosed(r) \/ IdleTimeout(r)
  BY <1>0, <1>14 DEF ChannelClosed, IdleTimeout, Cleanup
<1>15. CASE DrainEmpty(r) \/ Release(r)
  BY <1>15 DEF DrainEmpty, Release, UnlockAndReturn
<1>16. CASE DrainNext(r)
  BY <1>0, <1>16 DEF DrainNext
<1>17. QED
  BY <1>1, <1>2, <1>3, <1>4, <1>5, <1>6, <1>7, <1>8, <1>9, <1>10, <1>11, <1>12, <1>13,
     <1>14, <1>15, <1>16 DEF RunTurn

\* Nor does a goroutine that finds the entry's agent usable, or is told to stop.
LEMMA ReuseFrame ==
  ASSUME IInv, NEW m \in Msg, Abandon(m) \/ Reuse(m) \/ Ready(m) PROVE Frame /\ Quiet
<1>. m \in Runner /\ m \in Request
  BY Kinds
<1>. USE DEF Frame, Quiet, Closing, IInv, TypeOK, PlacesOK, TurnsOK, CleanupsOK, StatesOK,
             QueuesOK, Early
<1>1. CASE Abandon(m)
  BY <1>1 DEF Abandon
<1>2. CASE Reuse(m)
  BY <1>2 DEF Reuse
<1>3. CASE Ready(m)
  BY <1>3 DEF Ready
<1>4. QED
  BY <1>1, <1>2, <1>3

\* Nor does a compression.
LEMMA CompressFrame ==
  ASSUME IInv, NEW r \in Runner, Compress(r) PROVE Frame /\ Quiet
<1>. r \in Request
  BY Kinds
<1>0. mine[r] \in State \/ ~(pc[r] \in MinePC)
  BY DEF IInv, PointersOK, Points
<1>. USE DEF Frame, Quiet, Closing, IInv, TypeOK, PlacesOK, TurnsOK, CleanupsOK, StatesOK,
             QueuesOK, Early, DropQueue, MinePC, CompressEvent
<1>1. CASE RunCompress(r)
  BY <1>0, <1>1 DEF RunCompress, NilCall
<1>2. CASE CompressStopped(r)
  BY <1>2 DEF CompressStopped
<1>3. CASE CompressBroken(r)
  BY <1>3 DEF CompressBroken, Cleanup
<1>4. CASE CompressDrop(r)
  BY <1>0, <1>4 DEF CompressDrop
<1>5. CASE CompressEnds(r)
  BY <1>5 DEF CompressEnds
<1>6. CASE CompressDies(r)
  BY <1>0, <1>6 DEF CompressDies, NilCall
<1>7. QED
  BY <1>1, <1>2, <1>3, <1>4, <1>5, <1>6 DEF Compress

\* Detach takes the agent of the entry only on its last way through.
Takes(c) == /\ entry # None
            /\ on' = [on EXCEPT ![c] = agentOf[entry]]
            /\ \/ agentOf' = [agentOf EXCEPT ![entry] = None] /\ entry' = entry
               \/ agentOf' = agentOf /\ entry' = None

\* Nobody but r is new among those about to close an agent.
OthersQuiet(r) ==
  \A c \in Request \ {r}, a \in Agent : Closing(c, a)' => Closing(c, a)

\* A cleanup takes at most the agent of the entry, for its own goroutine.
LEMMA CleanUpFrame ==
  ASSUME IInv, NEW r \in Runner \cup NewCmd, CleanUp(r)
  PROVE  /\ Frame
         /\ \/ Quiet
            \/ Takes(r) /\ OthersQuiet(r)
<1>. r \in Request
  BY Kinds
<1>0. /\ tgt[r] \in State \/ ~(pc[r] \in TgtPC)
      /\ pc[r] \in CleanPC => ret[r] \in {"drain", "release", "cdrop", "swap"}
  BY DEF IInv, PointersOK, Points
<1>. USE DEF Frame, Quiet, Closing, IInv, TypeOK, PlacesOK, TurnsOK, CleanupsOK, StatesOK,
             QueuesOK, Early, DropQueue, CleanPC, TgtPC
<1>1. CASE Detach(r)
  BY <1>0, <1>1 DEF Detach, Takes, OthersQuiet
<1>2. CASE Notify(r)
  BY <1>0, <1>2 DEF Notify
<1>3. CASE Close(r)
  BY <1>3 DEF Close
<1>4. CASE Unmap(r)
  BY <1>0, <1>4 DEF Unmap
<1>5. QED
  BY <1>1, <1>2, <1>3, <1>4 DEF CleanUp

\* A /compress command takes no agent.
LEMMA CommandFrame ==
  ASSUME IInv, NEW c \in CompressCmd, CmdCompress(c) \/ CompressTryLock(c)
  PROVE  Frame /\ Quiet
<1>. c \in Runner /\ c \in Request
  BY Kinds
<1>. USE DEF Frame, Quiet, Closing, IInv, TypeOK, PlacesOK, TurnsOK, CleanupsOK, StatesOK,
             QueuesOK, Early
<1>1. CASE CmdCompress(c)
  BY <1>1 DEF CmdCompress
<1>2. CASE CompressTryLock(c)
  BY <1>2 DEF CompressTryLock
<1>3. QED
  BY <1>1, <1>2

\* A /stop takes the agent of the entry together with the entry.
LEMMA StopFrame ==
  ASSUME IInv, NEW c \in StopCmd,
         CmdStop(c) \/ StopResolve(c) \/ StopDrop(c) \/ StopClose(c)
  PROVE  /\ Frame
         /\ \/ Quiet
            \/ Takes(c) /\ OthersQuiet(c)
<1>. c \in Request
  BY Kinds
<1>0. tgt[c] \in State \/ ~(pc[c] \in TgtPC)
  BY DEF IInv, PointersOK, Points
<1>. USE DEF Frame, Quiet, Closing, IInv, TypeOK, TurnsOK, CleanupsOK, StatesOK,
             QueuesOK, DropQueue, TgtPC
<1>1. CASE CmdStop(c)
  BY <1>1 DEF CmdStop, Takes, OthersQuiet, Early, PlacesOK
<1>2. CASE StopResolve(c)
  <2>1. pc' = [Woken(grip[c]) EXCEPT ![c] = "drop"] /\ pc[c] = "resolve"
    BY <1>2 DEF StopResolve
  <2>2. /\ \A q \in Request : pc'[q] \in Early => pc[q] \in Early
        /\ \A q \in Request \ {c} : \/ pc'[q] = pc[q]
                                    \/ pc[q] = "perm" /\ pc'[q] = "events"
        /\ pc'[c] = "drop"
    BY <2>1, Wakes DEF Early, PlacesOK
  <2>3. QED
    BY <1>2, <2>1, <2>2 DEF StopResolve
<1>3. CASE StopDrop(c)
  BY <1>0, <1>3 DEF StopDrop, Early, PlacesOK
<1>4. CASE StopClose(c)
  BY <1>4 DEF StopClose, Early, PlacesOK
<1>5. QED
  BY <1>1, <1>2, <1>3, <1>4

\* A /new takes none beyond what its cleanup does.
LEMMA NewFrame ==
  ASSUME IInv, NEW c \in NewCmd, CmdNew(c) \/ NewSession(c)  PROVE Frame /\ Quiet
<1>. c \in Request
  BY Kinds
<1>. USE DEF Frame, Quiet, Closing, IInv, TypeOK, PlacesOK, TurnsOK, CleanupsOK, StatesOK,
             QueuesOK, Early
<1>1. CASE CmdNew(c)
  BY <1>1 DEF CmdNew
<1>2. CASE NewSession(c)
  BY <1>2 DEF NewSession
<1>3. QED
  BY <1>1, <1>2

\* The answer to a permission request takes none.
LEMMA AnswerFrame ==
  ASSUME IInv, NEW c \in Answer, AnswerRead(c) \/ AnswerResolve(c)  PROVE Frame /\ Quiet
<1>. c \in Request
  BY Kinds
<1>. USE DEF Frame, Quiet, Closing, IInv, TypeOK, TurnsOK, CleanupsOK, StatesOK,
             QueuesOK
<1>1. CASE AnswerRead(c)
  BY <1>1 DEF AnswerRead, Early, PlacesOK
<1>2. CASE AnswerResolve(c)
  <2>1. pc' = [Woken(grip[c]) EXCEPT ![c] = "done"]
    BY <1>2 DEF AnswerResolve
  <2>2. /\ \A q \in Request : pc'[q] \in Early => pc[q] \in Early
        /\ \A q \in Request \ {c} : \/ pc'[q] = pc[q]
                                    \/ pc[q] = "perm" /\ pc'[q] = "events"
        /\ pc'[c] = "done"
    BY <2>1, Wakes DEF Early, PlacesOK
  <2>3. QED
    BY <1>2, <2>2 DEF AnswerResolve
<1>3. QED
  BY <1>1, <1>2

\* Agents that die, and Engine.Stop, take none.
LEMMA AgentFrame ==
  ASSUME IInv,
         (\E a \in Agent : AgentDies(a) \/ AgentCloses(a)) \/ Cancel \/ Sweep
         \/ (\E q \in State : LateSend(q))
  PROVE  Frame /\ Quiet
  BY DEF AgentDies, AgentCloses, Cancel, Sweep, LateSend, Frame, Quiet, Closing, IInv, TypeOK,
     TurnsOK, CleanupsOK, StatesOK, QueuesOK

\* A state that is created is new, and so is its agent, whatever it replaces.
LEMMA StartsFresh ==
  ASSUME CloseInv, NEW m \in Msg, StartAgent(m) \/ StartFails(m)  PROVE CloseInv'
<1>. USE DEF CloseInv
<1>0. m \in Request /\ m \in Runner /\ Live(m) \in State /\ IInv /\ m # None
  BY Kinds DEF Live, State
<1>1. /\ pc[m] = "start" /\ pc' = [pc EXCEPT ![m] = "ready"] /\ Unborn(m)
      /\ mine' = [mine EXCEPT ![m] = Live(m)] /\ entry' = Live(m)
      /\ agentOf' = agentOf \/ agentOf' = [agentOf EXCEPT ![Live(m)] = m]
      /\ UNCHANGED <<on, tgt>>
  BY <1>0 DEF StartAgent, StartFails, Install, Fresh, Early, Live
<1>2. \A q \in State : queue'[q] # <<>> => queue[q] # <<>> \/ q = Live(m)
  BY <1>0 DEF StartAgent, StartFails, Install, IInv, TypeOK, QueuesOK, StatesOK, Live
<1>3. IInv'
  BY <1>0, StartTurnTypes DEF StartTurn
<1>4. Home'
  BY <1>0, <1>1 DEF Home, IInv, TypeOK, StatesOK, Live
<1>5. Fresh'
  <2>1. ASSUME NEW n \in Msg, pc'[n] \in Early PROVE Unborn(n)'
    <3>1. n # m /\ pc[n] \in Early /\ Live(n) # Live(m) /\ Live(n) \in State
      BY <1>0, <1>1, <2>1 DEF Early, IInv, TypeOK, PlacesOK, Live, State
    <3>2. Unborn(n)
      BY <3>1 DEF Fresh
    <3>3. QED
      BY <1>0, <1>1, <1>2, <3>1, <3>2 DEF Unborn, IInv, TypeOK, StatesOK, TurnsOK, Live
  <2>2. QED
    BY <2>1 DEF Fresh
<1>6. \A c \in Request, a \in Agent : Closing(c, a)' => Closing(c, a) /\ a # m
  BY <1>0, <1>1 DEF Closing, Unborn, IInv, TypeOK, PlacesOK
<1>7. TakenOnce' /\ CloseOnce'
  BY <1>0, <1>1, <1>6, Kinds DEF TakenOnce, CloseOnce, Unborn, IInv, TypeOK, StatesOK
<1>8. QED
  BY <1>3, <1>4, <1>5, <1>7

\* Taking the agent of the entry keeps those about to be closed distinct:
\* nobody had taken it before, and nobody finds it again.
LEMMA TakesClose ==
  ASSUME IInv, TakenOnce, CloseOnce, NEW r \in Request, Takes(r), OthersQuiet(r)
  PROVE  TakenOnce' /\ CloseOnce'
<1>1. entry \in State
  BY DEF Takes, IInv, TypeOK, StatesOK
<1>2. TakenOnce'
  BY <1>1, Kinds DEF Takes, TakenOnce, IInv, TypeOK, StatesOK
<1>3. \A a \in Agent : Closing(r, a)' => a = agentOf[entry]
  BY DEF Closing, Takes, IInv, TypeOK, TurnsOK
<1>4. \A a \in Agent, c \in Request : Closing(c, a) => agentOf[entry] # a
  BY DEF TakenOnce, Takes
<1>5. CloseOnce'
  BY <1>3, <1>4 DEF CloseOnce, OthersQuiet
<1>6. QED
  BY <1>2, <1>5

\* Every step keeps the invariant.
LEMMA NextClose == ASSUME CloseInv, [Next]_vars PROVE CloseInv'
<1>. USE DEF CloseInv
<1>1. IInv'
  BY NextTypes
<1>2. ASSUME Frame, Quiet PROVE CloseInv'
  BY <1>1, <1>2, FrameFresh, QuietClose
<1>3. ASSUME NEW r \in Request, Frame, Takes(r), OthersQuiet(r)
      PROVE  CloseInv'
  BY <1>1, <1>3, FrameFresh, TakesClose
<1>4. CASE UNCHANGED vars
  BY <1>1, <1>4 DEF vars, Home, Fresh, Unborn, TakenOnce, CloseOnce, Closing
<1>5. CASE \E m \in Msg : HandleMessage(m) \/ StartTurn(m)
  BY <1>2, <1>5, HandleMessageFrame, ReuseFrame, StartsFresh DEF StartTurn
<1>6. CASE \E r \in Runner : RunTurn(r) \/ Compress(r)
  BY <1>2, <1>6, RunTurnFrame, CompressFrame
<1>7. CASE \E r \in Runner \cup NewCmd : CleanUp(r)
  <2>1. PICK r \in Runner \cup NewCmd : CleanUp(r)
    BY <1>7
  <2>2. r \in Request
    BY Kinds
  <2>3. QED
    BY <1>2, <1>3, <2>1, <2>2, CleanUpFrame
<1>8. CASE \E c \in StopCmd : CmdStop(c) \/ StopResolve(c) \/ StopDrop(c) \/ StopClose(c)
  <2>1. PICK c \in StopCmd : CmdStop(c) \/ StopResolve(c) \/ StopDrop(c) \/ StopClose(c)
    BY <1>8
  <2>2. c \in Request
    BY Kinds
  <2>3. QED
    BY <1>2, <1>3, <2>1, <2>2, StopFrame
<1>9. CASE Next
  BY <1>2, <1>5, <1>6, <1>7, <1>8, <1>9, CommandFrame, NewFrame, AnswerFrame, AgentFrame
     DEF Next
<1>10. QED
  BY <1>4, <1>9

LEMMA InitClose == Init => CloseInv
<1>1. Init => Home /\ Fresh /\ TakenOnce /\ CloseOnce
  BY Kinds DEF Init, Home, Fresh, Unborn, TakenOnce, CloseOnce, Closing, Live, State, Agent
<1>2. QED
  BY <1>1, InitTypes DEF CloseInv

\* CloseOnce, for every number of messages and commands, with every feature and
\* failure: the goroutines that clean up, /stop and /new never close one agent
\* twice, since each takes it from the entry under interactiveMu before.
THEOREM ClosedByOne == Spec => []CloseOnce
<1>1. CloseInv /\ [Next]_vars => CloseInv'
  BY NextClose
<1>2. CloseInv => CloseOnce
  BY DEF CloseInv
<1>3. QED
  BY <1>1, <1>2, InitClose, PTL DEF Spec

-----------------------------------------------------------------------------
(* The queues *)

\* A message is queued, for its sender, exactly while it is in a queue.
QueuedIsThere == \A m \in Msg :
  fate[m] = "queued" <=> \E q \in State : m \in Waiting(q)

\* No message is in a queue twice, or in two queues.
OnePlace == \A q1, q2 \in State :
  \A i1 \in DOMAIN queue[q1], i2 \in DOMAIN queue[q2] :
    queue[q1][i1] = queue[q2][i2] => q1 = q2 /\ i1 = i2

Seats == QueuedIsThere /\ OnePlace

\* The sender of m has been told something, or its turn has begun.
Heard(m) == fate[m] \notin {"none", "queued"}

\* What a sender has heard when its goroutine, or the turn of its message, is
\* about to tell it something.
News == /\ \A m \in Msg : pc[m] \in {"idle", "try", "enqueue"} => fate[m] = "none"
        /\ \A m \in Msg : pc[m] \in {"slot", "start", "ready"} => Heard(m)
        /\ \A r \in Request : cur[r] # None => Heard(cur[r])

\* The inductive invariant of QueuedOnce.
LineInv == CloseInv /\ Seats /\ News

\* A step that moves nobody in the queues.
LEMMA SeatsKept ==
  ASSUME Seats, UNCHANGED queue, \A m \in Msg : fate'[m] = "queued" <=> fate[m] = "queued"
  PROVE  Seats'
  BY DEF Seats, QueuedIsThere, OnePlace, Waiting

\* A queue that is dropped, with everybody in it told.
LEMMA SeatsDropped ==
  ASSUME Seats, QueuesOK, NEW q \in State, DropQueue(q),
         \A m \in Msg : fate'[m] = "queued" <=> fate[m] = "queued" /\ m \notin Waiting(q)
  PROVE  Seats'
<1>1. \A x \in State : queue'[x] = IF x = q THEN <<>> ELSE queue[x]
  BY DEF DropQueue, QueuesOK
<1>2. DOMAIN queue'[q] = {}
  BY <1>1
<1>3. \A x \in State : Waiting(x)' = IF x = q THEN {} ELSE Waiting(x)
  BY <1>1, <1>2 DEF Waiting
<1>4. OnePlace'
  BY <1>1, <1>2 DEF Seats, OnePlace
<1>5. ASSUME NEW m \in Msg
      PROVE  fate'[m] = "queued" <=> \E x \in State : m \in Waiting(x)'
  <2>1. \A x \in State : m \in Waiting(x) /\ m \in Waiting(q) => x = q
    BY DEF Waiting, Seats, OnePlace
  <2>2. QED
    BY <1>3, <2>1 DEF Seats, QueuedIsThere
<1>6. QED
  BY <1>4, <1>5 DEF Seats, QueuedIsThere

\* The first of a queue gets its turn.
LEMMA SeatsTaken ==
  ASSUME Seats, QueuesOK, NEW q \in State, queue[q] # <<>>,
         queue' = [queue EXCEPT ![q] = Tail(@)],
         \A m \in Msg : fate'[m] = "queued" <=> fate[m] = "queued" /\ m # Head(queue[q])
  PROVE  Seats'
<1>1. \A x \in State : queue'[x] = IF x = q THEN Tail(queue[q]) ELSE queue[x]
  BY DEF QueuesOK
<1>2. queue[q] \in Seq(Msg) /\ Head(queue[q]) = queue[q][1] /\ 1 \in DOMAIN queue[q]
  BY DEF QueuesOK
<1>3. \A i \in DOMAIN Tail(queue[q]) : /\ i + 1 \in DOMAIN queue[q] /\ i \in Nat
                                       /\ Tail(queue[q])[i] = queue[q][i + 1]
                                       /\ i + 1 # 1
  BY <1>2
<1>4. \A i \in DOMAIN queue[q] : i # 1 => /\ i - 1 \in DOMAIN Tail(queue[q])
                                          /\ Tail(queue[q])[i - 1] = queue[q][i]
  BY <1>2
<1>5. OnePlace'
  <2>1. ASSUME NEW q1 \in State, NEW q2 \in State, NEW i1 \in DOMAIN queue'[q1],
               NEW i2 \in DOMAIN queue'[q2], queue'[q1][i1] = queue'[q2][i2]
        PROVE  q1 = q2 /\ i1 = i2
    <3>1. PICK j1 \in DOMAIN queue[q1] : /\ queue[q1][j1] = queue'[q1][i1]
                                         /\ j1 = IF q1 = q THEN i1 + 1 ELSE i1
      BY <1>1, <1>3
    <3>2. PICK j2 \in DOMAIN queue[q2] : /\ queue[q2][j2] = queue'[q2][i2]
                                         /\ j2 = IF q2 = q THEN i2 + 1 ELSE i2
      BY <1>1, <1>3
    <3>3. q1 = q2 /\ j1 = j2
      BY <2>1, <3>1, <3>2 DEF Seats, OnePlace
    <3>4. CASE q1 = q
      <4>1. i1 \in Nat /\ i2 \in Nat /\ i1 + 1 = i2 + 1
        BY <1>1, <1>3, <3>1, <3>2, <3>3, <3>4
      <4>2. QED
        BY <3>3, <4>1
    <3>5. CASE q1 # q
      BY <3>1, <3>2, <3>3, <3>5
    <3>6. QED
      BY <3>4, <3>5
  <2>2. QED
    BY <2>1 DEF OnePlace
<1>6. ASSUME NEW m \in Msg, NEW x \in State
      PROVE  m \in Waiting(x)' <=> m \in Waiting(x) /\ m # Head(queue[q])
  <2>1. CASE x = q
    <3>1. ASSUME m \in Waiting(x)' PROVE m \in Waiting(x) /\ m # Head(queue[q])
      <4>1. PICK i \in DOMAIN Tail(queue[q]) : Tail(queue[q])[i] = m
        BY <1>1, <2>1, <3>1 DEF Waiting
      <4>2. i + 1 \in DOMAIN queue[q] /\ queue[q][i + 1] = m /\ i + 1 # 1
        BY <1>3, <4>1
      <4>3. m # queue[q][1]
        BY <1>2, <4>2 DEF Seats, OnePlace
      <4>4. QED
        BY <1>2, <2>1, <4>2, <4>3 DEF Waiting
    <3>2. ASSUME m \in Waiting(x), m # Head(queue[q]) PROVE m \in Waiting(x)'
      <4>1. PICK i \in DOMAIN queue[q] : queue[q][i] = m
        BY <2>1, <3>2 DEF Waiting
      <4>2. i # 1
        BY <1>2, <3>2, <4>1
      <4>3. i - 1 \in DOMAIN Tail(queue[q]) /\ Tail(queue[q])[i - 1] = m
        BY <1>4, <4>1, <4>2
      <4>4. QED
        BY <1>1, <2>1, <4>3 DEF Waiting
    <3>3. QED
      BY <3>1, <3>2
  <2>2. CASE x # q
    BY <1>1, <1>2, <2>2 DEF Waiting, Seats, OnePlace
  <2>3. QED
    BY <2>1, <2>2
<1>7. QED
  BY <1>5, <1>6 DEF Seats, QueuedIsThere

\* A message that waits nowhere joins a queue.
LEMMA SeatsAdded ==
  ASSUME Seats, QueuesOK, NEW q \in State, NEW n \in Msg, fate[n] # "queued",
         queue' = [queue EXCEPT ![q] = Append(@, n)],
         \A m \in Msg : fate'[m] = "queued" <=> fate[m] = "queued" \/ m = n
  PROVE  Seats'
<1> DEFINE k == Len(queue[q]) + 1
           s == Append(queue[q], n)
<1>1. \A x \in State : queue'[x] = IF x = q THEN s ELSE queue[x]
  BY DEF QueuesOK
<1>2. /\ queue[q] \in Seq(Msg) /\ DOMAIN s = DOMAIN queue[q] \cup {k} /\ s[k] = n
      /\ k \notin DOMAIN queue[q]
      /\ \A i \in DOMAIN queue[q] : s[i] = queue[q][i]
  BY DEF QueuesOK
<1>3. \A x \in State : \A i \in DOMAIN queue[x] : queue[x][i] # n
  BY DEF Seats, QueuedIsThere, Waiting
<1> HIDE DEF k, s
<1>4. OnePlace'
  BY <1>1, <1>2, <1>3 DEF Seats, OnePlace
<1>5. \A m \in Msg, x \in State : m \in Waiting(x)' <=> m \in Waiting(x) \/ (m = n /\ x = q)
  BY <1>1, <1>2 DEF Waiting
<1>6. QED
  BY <1>4, <1>5 DEF Seats, QueuedIsThere

\* A new state adopts the queue of the state it replaces.
LEMMA SeatsAdopted ==
  ASSUME Seats, QueuesOK, StatesOK, NEW m \in Msg, NEW recycle, Install(m, recycle),
         queue[Live(m)] = <<>>, entry # Live(m), UNCHANGED fate \/ fate' = fate
  PROVE  Seats'
<1>1. CASE entry = None \/ recycle
  BY <1>1, SeatsKept DEF Install
<1>2. CASE ~(entry = None \/ recycle)
  <2>1. entry \in State /\ Live(m) \in State
    BY <1>2 DEF StatesOK, State, Live
  <2>2. \A x \in State : queue'[x] = IF x = entry THEN <<>>
                                     ELSE IF x = Live(m) THEN queue[entry] ELSE queue[x]
    BY <1>2, <2>1 DEF Install, Live, QueuesOK
  <2>3. DOMAIN queue'[entry] = {} /\ DOMAIN queue[Live(m)] = {}
    BY <2>1, <2>2
  <2>4. OnePlace'
    BY <2>1, <2>2, <2>3 DEF Seats, OnePlace
  <2>5. \A x \in State : Waiting(x)' = IF x = entry THEN {}
                                     ELSE IF x = Live(m) THEN Waiting(entry)
                                     ELSE Waiting(x)
    BY <2>1, <2>2, <2>3 DEF Waiting
  <2>6. Waiting(Live(m)) = {}
    BY <2>3 DEF Waiting
  <2>7. QED
    BY <2>1, <2>4, <2>5, <2>6 DEF Seats, QueuedIsThere
<1>3. QED
  BY <1>1, <1>2

\* With one place per queued message, QueuedOnce holds: the sum over the queues
\* counts no message twice.
LEMMA CountQueued ==
  ASSUME QueuesOK, Seats  PROVE QueuedOnce
<1> SUFFICES ASSUME NEW m \in Msg
             PROVE Cardinality({p \in State \X (1 .. MaxQueue) :
                      p[2] \in DOMAIN queue[p[1]] /\ queue[p[1]][p[2]] = m})
                       = IF fate[m] = "queued" THEN 1 ELSE 0
  BY DEF QueuedOnce
<1> DEFINE S == {p \in State \X (1 .. MaxQueue) :
                   p[2] \in DOMAIN queue[p[1]] /\ queue[p[1]][p[2]] = m}
<1>1. CASE fate[m] = "queued"
  <2>1. PICK q \in State : \E i \in DOMAIN queue[q] : queue[q][i] = m
    BY <1>1 DEF Seats, QueuedIsThere, Waiting
  <2>2. PICK i \in DOMAIN queue[q] : queue[q][i] = m
    BY <2>1
  <2>3. i \in 1 .. MaxQueue
    BY Bounds DEF QueuesOK
  <2>4. S = {<<q, i>>}
    BY <2>2, <2>3 DEF Seats, OnePlace
  <2>5. QED
    BY <1>1, <2>4, FS_Singleton
<1>2. CASE fate[m] # "queued"
  <2>1. S = {}
    BY <1>2 DEF Seats, QueuedIsThere, Waiting
  <2>2. QED
    BY <1>2, <2>1, FS_EmptySet
<1>3. QED
  BY <1>1, <1>2

\* What most steps do to the news: they tell something to some who have been
\* heard of, and move goroutines past the start of their turn.
Tells == \A m \in Msg : fate'[m] = fate[m] \/ (fate[m] # "none" /\ Heard(m)')

\* Goroutines move past the start of their turn, if they move.
Later == \A m \in Msg : \/ pc'[m] = pc[m]
                        \/ pc'[m] \notin Early \cup {"enqueue", "ready"}

HeardOf(m) == m \in Msg /\ fate'[m] \notin {"none", "queued"}

\* Such steps keep the news.
LEMMA NewsKept ==
  ASSUME News, Tells, Later,
         \A r \in Request : cur'[r] \in {cur[r], None} \/ HeardOf(cur'[r]),
         \A r \in Request : cur[r] \in Msg \cup {None}
  PROVE  News'
<1>1. \A m \in Msg : Heard(m) => Heard(m)'
  BY DEF Tells, Heard
<1>2. ASSUME NEW m \in Msg, pc'[m] \in {"idle", "try", "enqueue"} PROVE fate'[m] = "none"
  BY <1>2 DEF News, Tells, Later, Early
<1>3. ASSUME NEW m \in Msg, pc'[m] \in {"slot", "start", "ready"} PROVE Heard(m)'
  BY <1>1, <1>3 DEF News, Later, Early
<1>4. ASSUME NEW r \in Request, cur'[r] # None PROVE Heard(cur[r])'
  BY <1>1, <1>4 DEF News, Heard, HeardOf
<1>5. QED
  BY <1>2, <1>3, <1>4 DEF News

\* The end of a turn tells something to the message whose turn it was.
LEMMA ToldOne ==
  ASSUME NEW f \in [Msg -> Fates], TurnsOK, NEW r \in Request, NEW news, NEW m \in Msg
  PROVE  Told(f, r, news)[m] = IF m = cur[r] THEN news ELSE f[m]
  BY Kinds DEF TurnsOK, Told, Agent

\* notifyDroppedQueuedMessages tells something to those in the queue.
LEMMA DroppedOnes ==
  ASSUME LineInv, NEW q \in State, NEW m \in Msg
  PROVE  /\ Dropped(q)[m] = IF m \in Waiting(q) THEN "dropped" ELSE fate[m]
         /\ m \in Waiting(q) => fate[m] = "queued"
  BY DEF Dropped, LineInv, Seats, QueuedIsThere

\* A step that drops the queue of q, and may end the turn of r.
LEMMA DropLine ==
  ASSUME LineInv, NEW q \in State, DropQueue(q), fate' = Dropped(q)
  PROVE  Seats' /\ Tells
<1>1. QueuesOK
  BY DEF LineInv, CloseInv, IInv, TypeOK
<1>2. \A m \in Msg : /\ fate'[m] = IF m \in Waiting(q) THEN "dropped" ELSE fate[m]
                     /\ m \in Waiting(q) => fate[m] = "queued"
  BY DroppedOnes
<1>3. QED
  BY <1>1, <1>2, SeatsDropped DEF LineInv, Tells, Heard

\* The same when the turn of r has begun before.
LEMMA DropAndTell ==
  ASSUME LineInv, NEW q \in State, DropQueue(q), NEW r \in Request,
         NEW news \in Fates \ {"none", "queued"}, fate' = Told(Dropped(q), r, news)
  PROVE  Seats' /\ Tells
<1>1. QueuesOK /\ TurnsOK /\ NewsOK
  BY DEF LineInv, CloseInv, IInv, TypeOK
<1>2. Dropped(q) \in [Msg -> Fates]
  BY <1>1, DroppedFates
<1>3. \A m \in Msg : fate'[m] = IF m = cur[r] THEN news ELSE Dropped(q)[m]
  BY <1>1, <1>2, ToldOne
<1>4. \A m \in Msg : /\ Dropped(q)[m] = IF m \in Waiting(q) THEN "dropped" ELSE fate[m]
                     /\ m \in Waiting(q) => fate[m] = "queued"
                     /\ m = cur[r] => Heard(m)
  BY DroppedOnes, Kinds DEF LineInv, News, Agent
<1>5. QED
  BY <1>1, <1>3, <1>4, SeatsDropped DEF LineInv, Tells, Heard

\* A step that moves nobody in the queues, and may end the turn of r.
LEMMA TellOnly ==
  ASSUME LineInv, UNCHANGED queue, NEW r \in Request,
         NEW news \in Fates \ {"none", "queued"}, fate' \in {fate, Told(fate, r, news)}
  PROVE  Seats' /\ Tells
<1>1. TurnsOK /\ NewsOK
  BY DEF LineInv, CloseInv, IInv, TypeOK
<1>2. \A m \in Msg : /\ fate'[m] \in {fate[m], IF m = cur[r] THEN news ELSE fate[m]}
                     /\ m = cur[r] => Heard(m)
  BY <1>1, ToldOne, Kinds DEF LineInv, News, NewsOK, Agent
<1>3. QED
  BY <1>2, SeatsKept DEF LineInv, Tells, Heard

\* The first of the queue of q becomes the turn of r.
LEMMA TakeHead ==
  ASSUME LineInv, NEW r \in Request, NEW q \in State, queue[q] # <<>>,
         queue' = [queue EXCEPT ![q] = Tail(@)],
         fate' = [fate EXCEPT ![Head(queue[q])] = "turn"],
         cur' = [cur EXCEPT ![r] = Head(queue[q])]
  PROVE  /\ Seats' /\ Tells
         /\ \A c \in Request : cur'[c] = cur[c] \/ HeardOf(cur'[c])
<1>0. QueuesOK /\ TurnsOK /\ NewsOK
  BY DEF LineInv, CloseInv, IInv, TypeOK
<1>1. Head(queue[q]) \in Msg
  BY <1>0, TakesHead
<1>2. \A m \in Msg : fate'[m] = IF m = Head(queue[q]) THEN "turn" ELSE fate[m]
  BY <1>0, <1>1 DEF NewsOK
<1>3. 1 \in DOMAIN queue[q] /\ Head(queue[q]) = queue[q][1]
  BY <1>0 DEF QueuesOK
<1>4. Head(queue[q]) \in Waiting(q)
  BY <1>3 DEF Waiting
<1>5. fate[Head(queue[q])] = "queued"
  BY <1>1, <1>4 DEF LineInv, Seats, QueuedIsThere
<1>6. Seats'
  <2>1. \A m \in Msg : fate'[m] = "queued" <=> fate[m] = "queued" /\ m # Head(queue[q])
    BY <1>2
  <2>2. QED
    BY <1>0, <2>1, SeatsTaken DEF LineInv
<1>7. Tells
  BY <1>2, <1>5 DEF Tells, Heard
<1>8. ASSUME NEW c \in Request PROVE cur'[c] = cur[c] \/ HeardOf(cur'[c])
  BY <1>0, <1>1, <1>2 DEF TurnsOK, HeardOf
<1>9. QED
  BY <1>6, <1>7, <1>8

\* The steps of handleMessage, by what they do to the queues.
LEMMA HandleMessageLine ==
  ASSUME LineInv, NEW m \in Msg, HandleMessage(m) PROVE Seats' /\ News'
<1>0. /\ m \in Request /\ Msg \subseteq Request
      /\ PlacesOK /\ TurnsOK /\ NewsOK /\ QueuesOK /\ StatesOK /\ Seats /\ News
  BY Kinds DEF LineInv, CloseInv, IInv, TypeOK
<1>. USE DEF PlacesOK, TurnsOK, NewsOK
<1>1. CASE HintPending(m)
  BY <1>0, <1>1, SeatsKept DEF HintPending, News, Heard
<1>2. CASE Arrive(m)
  BY <1>0, <1>2, SeatsKept DEF Arrive, News, Heard
<1>3. CASE TryLock(m)
  <2>1. fate[m] = "none" /\ UNCHANGED queue
    BY <1>0, <1>3 DEF TryLock, News
  <2>2. \A n \in Msg : fate'[n] \in {fate[n], "turn"} /\ (n # m => fate'[n] = fate[n])
    BY <1>0, <1>3 DEF TryLock
  <2>3. Seats'
    BY <1>0, <2>1, <2>2, SeatsKept
  <2>4. /\ pc[m] = "try"
        /\ \/ pc' = [pc EXCEPT ![m] = "slot"] /\ cur' = [cur EXCEPT ![m] = m]
              /\ fate' = [fate EXCEPT ![m] = "turn"]
           \/ pc' = [pc EXCEPT ![m] = "enqueue"] /\ UNCHANGED <<cur, fate>>
    BY <1>3 DEF TryLock
  <2>5. \A n \in Msg : pc'[n] \in {"idle", "try", "enqueue"} => fate'[n] = "none"
    BY <1>0, <2>1, <2>4 DEF News
  <2>6. \A n \in Msg : pc'[n] \in {"slot", "start", "ready"} => Heard(n)'
    BY <1>0, <2>4 DEF News, Heard
  <2>7. ASSUME NEW r \in Request, cur'[r] # None PROVE Heard(cur[r])'
    <3>1. CASE cur'[r] = cur[r]
      <4>1. cur[r] \in Msg /\ fate[cur[r]] \notin {"none", "queued"}
        BY <1>0, <2>7, <3>1, Kinds DEF News, Heard, Agent
      <4>2. fate'[cur[r]] \in {fate[cur[r]], "turn"}
        BY <2>2, <4>1
      <4>3. QED
        BY <3>1, <4>1, <4>2 DEF Heard
    <3>2. CASE cur'[r] = m /\ fate'[m] = "turn"
      BY <3>2 DEF Heard
    <3>3. QED
      BY <1>0, <2>4, <3>1, <3>2
  <2>8. QED
    BY <2>3, <2>5, <2>6, <2>7 DEF News
<1>4. CASE QueueMessage(m)
  <2>1. fate[m] = "none"
    BY <1>0, <1>4 DEF QueueMessage, News
  <2>2. CASE fate'[m] = "queued"
    <3>1. /\ entry \in State /\ queue' = [queue EXCEPT ![entry] = Append(@, m)]
          /\ \A n \in Msg : fate'[n] = "queued" <=> fate[n] = "queued" \/ n = m
      BY <1>0, <1>4, <2>2 DEF QueueMessage, StatesOK
    <3>2. Seats'
      BY <1>0, <2>1, <3>1, SeatsAdded
    <3>3. /\ UNCHANGED cur /\ pc' = [pc EXCEPT ![m] = "retry"]
          /\ fate' = [fate EXCEPT ![m] = "queued"]
      BY <1>0, <1>4, <2>2 DEF QueueMessage
    <3>4. News'
      BY <1>0, <2>1, <3>3 DEF News, Heard
    <3>5. QED
      BY <3>2, <3>4
  <2>3. CASE fate'[m] # "queued"
    <3>1. /\ UNCHANGED <<queue, cur>> /\ pc' = [pc EXCEPT ![m] = "done"]
          /\ fate' = [fate EXCEPT ![m] = "rejected"]
      BY <1>0, <1>4, <2>3 DEF QueueMessage
    <3>2. Seats'
      BY <1>0, <2>1, <3>1, SeatsKept
    <3>3. News'
      BY <1>0, <2>1, <3>1 DEF News, Heard
    <3>4. QED
      BY <3>2, <3>3
  <2>4. QED
    BY <2>2, <2>3
<1>5. CASE RetryLock(m)
  BY <1>0, <1>5, SeatsKept DEF RetryLock, News, Heard
<1>6. CASE DrainOrphaned(m)
  <2>1. UNCHANGED cur /\ Later /\ \A r \in Request : cur[r] \in Msg \cup {None}
    BY <1>0, <1>6, Kinds DEF DrainOrphaned, Later, Early, Agent
  <2>2. CASE UNCHANGED <<queue, fate>>
    BY <1>0, <2>1, <2>2, SeatsKept, NewsKept DEF Tells
  <2>3. CASE entry # None /\ fate' = Dropped(entry) /\ DropQueue(entry)
    BY <1>0, <2>1, <2>3, DropLine, NewsKept DEF StatesOK
  <2>4. QED
    BY <1>6, <2>2, <2>3 DEF DrainOrphaned, DropQueue
<1>7. CASE EnsureSlot(m)
  BY <1>0, <1>7, SeatsKept DEF EnsureSlot, News, Heard
<1>8. QED
  BY <1>1, <1>2, <1>3, <1>4, <1>5, <1>6, <1>7 DEF HandleMessage

\* The steps of processInteractiveMessageWith up to the first Send.
LEMMA StartTurnLine ==
  ASSUME LineInv, NEW m \in Msg, StartTurn(m) PROVE Seats' /\ News'
<1>0. /\ m \in Request /\ Msg \subseteq Request
      /\ PlacesOK /\ TurnsOK /\ NewsOK /\ QueuesOK /\ StatesOK /\ Seats /\ News
  BY Kinds DEF LineInv, CloseInv, IInv, TypeOK
<1>. USE DEF PlacesOK, TurnsOK, NewsOK
<1>1. CASE Abandon(m)
  BY <1>0, <1>1, SeatsKept DEF Abandon, News, Heard
<1>2. CASE Reuse(m)
  BY <1>0, <1>2, SeatsKept DEF Reuse, News, Heard
<1>3. CASE StartAgent(m) \/ StartFails(m)
  <2>1. pc[m] = "start" /\ pc' = [pc EXCEPT ![m] = "ready"] /\ UNCHANGED <<fate, cur>>
    BY <1>3 DEF StartAgent, StartFails, Install
  <2>2. Unborn(m)
    BY <2>1 DEF LineInv, CloseInv, Fresh, Early
  <2>3. Install(m, entry # None /\ Usable(entry))
    BY <1>3 DEF StartAgent, StartFails
  <2>4. Seats'
    BY <1>0, <2>1, <2>2, <2>3, SeatsAdopted DEF Unborn
  <2>5. News'
    BY <1>0, <2>1 DEF News, Heard
  <2>6. QED
    BY <2>4, <2>5
<1>4. CASE Ready(m)
  <2>1. Heard(m) /\ UNCHANGED queue
    BY <1>0, <1>4 DEF Ready, News
  <2>2. \A n \in Msg : fate'[n] = "queued" <=> fate[n] = "queued"
    BY <1>0, <1>4, <2>1 DEF Ready, Heard
  <2>3. Seats'
    BY <1>0, <2>1, <2>2, SeatsKept
  <2>4. /\ UNCHANGED cur /\ pc' \in {[pc EXCEPT ![m] = "release"], [pc EXCEPT ![m] = "send"]}
        /\ fate' \in {fate, [fate EXCEPT ![m] = "failed"]}
    BY <1>4 DEF Ready
  <2>5. News'
    BY <1>0, <2>4 DEF News, Heard
  <2>6. QED
    BY <2>3, <2>5
<1>5. QED
  BY <1>1, <1>2, <1>3, <1>4 DEF StartTurn

\* The steps of the event loop and of drainPendingMessages.
LEMMA RunTurnLine ==
  ASSUME LineInv, NEW r \in Runner, RunTurn(r) PROVE Seats' /\ News'
<1>0. /\ r \in Request /\ Msg \subseteq Request /\ QueuesOK /\ Seats /\ News
      /\ \A c \in Request : cur[c] \in Msg \cup {None}
      /\ pc[r] \in MinePC => mine[r] \in State
      /\ pc \in [Request -> PCs] /\ cur \in [Request -> Msg \cup {None}]
  BY Kinds DEF LineInv, CloseInv, IInv, TypeOK, TurnsOK, PlacesOK, PointersOK, Points, Agent
<1>1. ASSUME Later, \A c \in Request : cur'[c] \in {cur[c], None}, Seats' /\ Tells
      PROVE  Seats' /\ News'
  BY <1>0, <1>1, NewsKept
<1>2. ASSUME Later, UNCHANGED cur, UNCHANGED queue, NEW f \in Fates \ {"none", "queued"},
             fate' \in {fate, Told(fate, r, f)}
      PROVE  Seats' /\ News'
  BY <1>0, <1>1, <1>2, TellOnly
<1>. USE DEF MinePC, Later, Early, Fates
<1>3. CASE Dispatch(r)
  BY <1>0, <1>2, <1>3 DEF Dispatch, NilCall
<1>4. CASE SendReturns(r)
  BY <1>0, <1>2, <1>4 DEF SendReturns, NilCall
<1>5. CASE SendFails(r)
  <2>1. mine[r] \in State /\ UNCHANGED cur /\ Later
    BY <1>0, <1>5 DEF SendFails, Cleanup
  <2>2. Seats' /\ Tells
    BY <1>0, <1>5, <2>1, DropAndTell DEF SendFails
  <2>3. QED
    BY <1>1, <2>1, <2>2
<1>6. CASE SeeStop(r)
  BY <1>0, <1>2, <1>6 DEF SeeStop
<1>7. CASE ReceiveEvent(r)
  BY <1>0, <1>2, <1>7 DEF ReceiveEvent
<1>8. CASE EventText(r)
  BY <1>0, <1>2, <1>8 DEF EventText
<1>9. CASE EventPermission(r)
  BY <1>0, <1>2, <1>9 DEF EventPermission
<1>10. CASE ResultUnsent(r)
  BY <1>0, <1>2, <1>10 DEF ResultUnsent
<1>11. CASE ResultSent(r)
  BY <1>0, <1>2, <1>11 DEF ResultSent
<1>12. CASE ResultCompress(r)
  <2>1. Later /\ (\A c \in Request : cur'[c] \in {cur[c], None}) /\ UNCHANGED <<queue, fate>>
    BY <1>0, <1>12 DEF ResultCompress
  <2>2. Seats' /\ Tells
    BY <1>0, <2>1, SeatsKept DEF Tells
  <2>3. QED
    BY <1>1, <2>1, <2>2
<1>13. CASE ResultNext(r)
  <2>1. Later /\ mine[r] \in State
    BY <1>0, <1>13 DEF ResultNext
  <2>2. QED
    BY <1>0, <1>13, <2>1, TakeHead, NewsKept DEF ResultNext
<1>14. CASE SendNext(r)
  BY <1>0, <1>2, <1>14 DEF SendNext, NilCall
<1>15. CASE ResultLast(r) \/ ReturnLast(r)
  BY <1>0, <1>2, <1>15 DEF ResultLast, ReturnLast
<1>16. CASE EventError(r)
  <2>1. mine[r] \in State /\ UNCHANGED cur /\ Later
    BY <1>0, <1>16 DEF EventError
  <2>2. CASE Usable(mine[r])
    BY <1>2, <1>16, <2>1, <2>2 DEF EventError
  <2>3. CASE ~Usable(mine[r])
    <3>1. Seats' /\ Tells
      BY <1>0, <1>16, <2>1, <2>3, DropAndTell DEF EventError
    <3>2. QED
      BY <1>1, <2>1, <3>1
  <2>4. QED
    BY <2>2, <2>3
<1>17. CASE ChannelClosed(r)
  <2>1. mine[r] \in State /\ UNCHANGED cur /\ Later
    BY <1>0, <1>17 DEF ChannelClosed, Cleanup
  <2>2. Seats' /\ Tells
    BY <1>0, <1>17, <2>1, DropAndTell DEF ChannelClosed
  <2>3. QED
    BY <1>1, <2>1, <2>2
<1>18. CASE IdleTimeout(r)
  BY <1>0, <1>2, <1>18 DEF IdleTimeout, Cleanup
<1>19. CASE DrainEmpty(r) \/ Release(r)
  <2>1. UnlockAndReturn(r)
    BY <1>19 DEF DrainEmpty, Release
  <2>2. Later /\ UNCHANGED <<queue, cur, fate>>
    BY <1>0, <2>1 DEF UnlockAndReturn
  <2>3. QED
    BY <1>2, <2>2
<1>20. CASE DrainNext(r)
  <2>1. Later /\ mine[r] \in State
    BY <1>0, <1>20 DEF DrainNext
  <2>2. CASE Usable(mine[r])
    BY <1>0, <1>20, <2>1, <2>2, TakeHead, NewsKept DEF DrainNext
  <2>3. CASE ~Usable(mine[r])
    <3>1. Seats' /\ Tells /\ UNCHANGED cur
      BY <1>20, <2>1, <2>3, DropLine DEF DrainNext
    <3>2. QED
      BY <1>1, <2>1, <3>1
  <2>4. QED
    BY <2>2, <2>3
<1>21. QED
  BY <1>3, <1>4, <1>5, <1>6, <1>7, <1>8, <1>9, <1>10, <1>11, <1>12, <1>13, <1>14, <1>15,
     <1>16, <1>17, <1>18, <1>19, <1>20 DEF RunTurn

\* Every other step tells nothing, or drops a queue.
LEMMA OtherLine ==
  ASSUME LineInv, Later, UNCHANGED cur,
         \/ UNCHANGED <<queue, fate>>
         \/ \E q \in State : DropQueue(q) /\ fate' = Dropped(q)
  PROVE  Seats' /\ News'
<1>1. Seats /\ News /\ \A r \in Request : cur[r] \in Msg \cup {None}
  BY DEF LineInv, CloseInv, IInv, TypeOK, TurnsOK
<1>2. CASE UNCHANGED <<queue, fate>>
  BY <1>1, <1>2, SeatsKept, NewsKept DEF Tells
<1>3. CASE \E q \in State : DropQueue(q) /\ fate' = Dropped(q)
  BY <1>1, <1>3, DropLine, NewsKept
<1>4. QED
  BY <1>2, <1>3

\* Compressions drop queues, or leave them alone.
LEMMA CompressLine ==
  ASSUME LineInv, NEW r \in Runner, Compress(r)  PROVE Seats' /\ News'
<1>0. /\ r \in Request /\ Msg \subseteq Request /\ pc \in [Request -> PCs]
      /\ pc[r] \in MinePC => mine[r] \in State
  BY Kinds DEF LineInv, CloseInv, IInv, TypeOK, PlacesOK, PointersOK, Points
<1>. USE DEF MinePC, Later, Early, CompressEvent
<1>1. CASE RunCompress(r)
  BY <1>0, <1>1, OtherLine DEF RunCompress, NilCall
<1>2. CASE CompressStopped(r)
  BY <1>0, <1>2, OtherLine DEF CompressStopped
<1>3. CASE CompressBroken(r)
  BY <1>0, <1>3, OtherLine DEF CompressBroken, Cleanup
<1>4. CASE CompressDrop(r)
  BY <1>0, <1>4, OtherLine DEF CompressDrop
<1>5. CASE CompressEnds(r)
  BY <1>0, <1>5, OtherLine DEF CompressEnds
<1>6. CASE CompressDies(r)
  BY <1>0, <1>6, OtherLine DEF CompressDies, NilCall
<1>7. QED
  BY <1>1, <1>2, <1>3, <1>4, <1>5, <1>6 DEF Compress

\* A cleanup drops the queue of the state it has taken.
LEMMA CleanUpLine ==
  ASSUME LineInv, NEW r \in Runner \cup NewCmd, CleanUp(r)  PROVE Seats' /\ News'
<1>0. /\ r \in Request /\ Msg \subseteq Request /\ pc \in [Request -> PCs]
      /\ pc[r] \in TgtPC => tgt[r] \in State
      /\ pc[r] \in CleanPC => ret[r] \in {"drain", "release", "cdrop", "swap"}
  BY Kinds DEF LineInv, CloseInv, IInv, TypeOK, PlacesOK, PointersOK, Points
<1>. USE DEF TgtPC, CleanPC, Later, Early
<1>1. CASE Detach(r)
  BY <1>0, <1>1, OtherLine DEF Detach
<1>2. CASE Notify(r)
  BY <1>0, <1>2, OtherLine DEF Notify
<1>3. CASE Close(r)
  BY <1>0, <1>3, OtherLine DEF Close
<1>4. CASE Unmap(r)
  BY <1>0, <1>4, OtherLine DEF Unmap
<1>5. QED
  BY <1>1, <1>2, <1>3, <1>4 DEF CleanUp

\* /compress, /new, dying agents and Engine.Stop move nobody in the queues.
LEMMA CommandLine ==
  ASSUME LineInv,
         \/ \E c \in CompressCmd : CmdCompress(c) \/ CompressTryLock(c)
         \/ \E c \in NewCmd : CmdNew(c) \/ NewSession(c)
         \/ (\E a \in Agent : AgentDies(a) \/ AgentCloses(a)) \/ Cancel \/ Sweep
         \/ (\E q \in State : LateSend(q))
  PROVE  Seats' /\ News'
<1>0. pc \in [Request -> PCs] /\ Msg \cup CompressCmd \cup NewCmd \subseteq Request
  BY Kinds DEF LineInv, CloseInv, IInv, TypeOK, PlacesOK
<1>. USE DEF Later, Early
<1>1. CASE \E c \in CompressCmd : CmdCompress(c) \/ CompressTryLock(c)
  BY <1>0, <1>1, OtherLine DEF CmdCompress, CompressTryLock
<1>2. CASE \E c \in NewCmd : CmdNew(c) \/ NewSession(c)
  BY <1>0, <1>2, OtherLine DEF CmdNew, NewSession
<1>3. CASE (\E a \in Agent : AgentDies(a) \/ AgentCloses(a)) \/ Cancel \/ Sweep
         \/ (\E q \in State : LateSend(q))
  BY <1>3, OtherLine DEF AgentDies, AgentCloses, Cancel, Sweep, LateSend
<1>4. QED
  BY <1>1, <1>2, <1>3

\* A /stop drops the queue of the state it has taken.
LEMMA StopLine ==
  ASSUME LineInv, NEW c \in StopCmd,
         CmdStop(c) \/ StopResolve(c) \/ StopDrop(c) \/ StopClose(c)
  PROVE  Seats' /\ News'
<1>0. /\ c \in Request /\ Msg \subseteq Request /\ PlacesOK /\ pc \in [Request -> PCs]
      /\ pc[c] \in TgtPC => tgt[c] \in State
  BY Kinds DEF LineInv, CloseInv, IInv, TypeOK, PlacesOK, PointersOK, Points
<1>. USE DEF TgtPC, Later, Early
<1>1. CASE CmdStop(c)
  BY <1>0, <1>1, OtherLine DEF CmdStop
<1>2. CASE StopResolve(c)
  <2>1. Later
    BY <1>0, <1>2, Wakes, Kinds DEF StopResolve
  <2>2. QED
    BY <1>2, <2>1, OtherLine DEF StopResolve
<1>3. CASE StopDrop(c)
  BY <1>0, <1>3, OtherLine DEF StopDrop
<1>4. CASE StopClose(c)
  BY <1>0, <1>4, OtherLine DEF StopClose
<1>5. QED
  BY <1>1, <1>2, <1>3, <1>4

\* Answers move nobody in the queues.
LEMMA AnswerLine ==
  ASSUME LineInv, NEW c \in Answer, AnswerRead(c) \/ AnswerResolve(c)
  PROVE  Seats' /\ News'
<1>0. c \in Request /\ Msg \subseteq Request /\ PlacesOK /\ pc \in [Request -> PCs]
  BY Kinds DEF LineInv, CloseInv, IInv, TypeOK, PlacesOK
<1>. USE DEF Later, Early
<1>1. CASE AnswerRead(c)
  BY <1>0, <1>1, OtherLine DEF AnswerRead
<1>2. CASE AnswerResolve(c)
  <2>1. Later
    BY <1>0, <1>2, Wakes, Kinds DEF AnswerResolve
  <2>2. QED
    BY <1>2, <2>1, OtherLine DEF AnswerResolve
<1>3. QED
  BY <1>1, <1>2

LEMMA InitLine == Init => LineInv
<1>1. Init => Seats /\ News
  BY Kinds DEF Init, Seats, QueuedIsThere, OnePlace, Waiting, News
<1>2. QED
  BY <1>1, InitClose DEF LineInv

\* Every step keeps the invariant.
LEMMA NextLine == ASSUME LineInv, [Next]_vars PROVE LineInv'
<1>1. CloseInv'
  BY NextClose DEF LineInv
<1>2. CASE UNCHANGED vars
  <2>1. Later /\ UNCHANGED <<cur, queue, fate>>
    BY <1>2 DEF vars, Later
  <2>2. QED
    BY <1>1, <2>1, OtherLine DEF LineInv
<1>3. CASE Next
  <2>1. Seats' /\ News'
    BY <1>3, HandleMessageLine, StartTurnLine, RunTurnLine, CompressLine, CleanUpLine,
       CommandLine, StopLine, AnswerLine DEF Next
  <2>2. QED
    BY <1>1, <2>1 DEF LineInv
<1>4. QED
  BY <1>2, <1>3

\* QueuedOnce, for every number of messages and commands, with every feature
\* and failure: a message that was told it is queued waits in exactly one queue
\* of one state, through adoption, recycling, cleanup and /stop.
THEOREM QueuedAtOnePlace == Spec => []QueuedOnce
<1>1. LineInv /\ [Next]_vars => LineInv'
  BY NextLine
<1>2. LineInv => QueuedOnce
  BY CountQueued DEF LineInv, CloseInv, IInv, TypeOK
<1>3. QED
  BY <1>1, <1>2, InitLine, PTL DEF Spec

-----------------------------------------------------------------------------
(* The news *)

\* What the sender of a message may hear next, after what it has heard.
NewsAfter == [none   |-> {"hinted", "rejected", "queued", "turn"},
              queued |-> {"turn", "dropped"},
              turn   |-> {"answered", "failed", "exited", "stopped"}]

Hears(m) == fate[m] \in DOMAIN NewsAfter /\ fate'[m] \in NewsAfter[fate[m]]

\* A sender hears the outcome of a message once: what was answered, dropped or
\* refused is not answered, dropped or refused again, and no message is dropped
\* while its turn runs, or ends a turn that it never had.
HearsNext == \A m \in Msg : fate'[m] # fate[m] => Hears(m)
NewsOnce == [][HearsNext]_vars

\* Between the start of its turn and the news about it, a message is in the hands
\* of a goroutine at one of these places.
TalkPC == {"slot", "start", "ready", "send", "events", "event", "perm", "next"}

\* Goroutine r runs the turn of a message and has not told its sender the outcome.
Talks(r) == pc[r] \in TalkPC /\ cur[r] # None

\* The sender of a message whose turn runs has heard no outcome of it.
Untold == \A r \in Runner : Talks(r) => fate[cur[r]] = "turn"

\* Up to its first Send a goroutine works for the message that started it.
OwnTurn == \A m \in Msg : pc[m] \in {"slot", "start", "ready"} => cur[m] = m

\* No message has its turn in two goroutines.
OneTurn == \A r1, r2 \in Runner :
  Talks(r1) /\ Talks(r2) /\ cur[r1] = cur[r2] => r1 = r2

\* The inductive invariant of NewsOnce.
NewsInv == LineInv /\ Untold /\ OwnTurn /\ OneTurn

\* What a step that begins no turn does: nobody starts to talk, or changes the
\* message it talks about.
NoTurnBegins ==
  /\ \A r \in Runner : Talks(r)' => Talks(r) /\ cur'[r] = cur[r]
  /\ \A m \in Msg : pc'[m] \in {"slot", "start", "ready"} =>
       pc[m] \in {"slot", "start", "ready"} /\ cur'[m] = cur[m]

\* The queued ones hear that they were dropped, or that they have their turn.
QuietNews == \A m \in Msg : fate'[m] # fate[m] => fate[m] # "turn" /\ Hears(m)

NewsParts == Untold /\ OwnTurn /\ OneTurn

\* Such a step that ends no turn.
LEMMA TalkGoesOn ==
  ASSUME NewsInv, NoTurnBegins, QuietNews  PROVE NewsParts' /\ HearsNext
<1>0. \A r \in Runner : cur[r] \in Msg \cup {None}
  BY Kinds DEF NewsInv, LineInv, CloseInv, IInv, TypeOK, TurnsOK
<1>1. Untold'
  <2>1. ASSUME NEW r \in Runner, Talks(r)' PROVE fate'[cur'[r]] = "turn"
    <3>1. Talks(r) /\ cur'[r] = cur[r] /\ cur[r] \in Msg
      BY <1>0, <2>1 DEF NoTurnBegins, Talks
    <3>2. fate[cur[r]] = "turn"
      BY <3>1 DEF NewsInv, Untold
    <3>3. QED
      BY <3>1, <3>2 DEF QuietNews
  <2>2. QED
    BY <2>1 DEF Untold
<1>2. OwnTurn'
  BY DEF NewsInv, OwnTurn, NoTurnBegins
<1>3. OneTurn'
  BY DEF NewsInv, OneTurn, NoTurnBegins
<1>4. HearsNext
  BY DEF QuietNews, HearsNext
<1>5. QED
  BY <1>1, <1>2, <1>3, <1>4 DEF NewsParts

\* A step in which r tells the outcome of its turn, and stops to talk.
LEMMA TalkEnds ==
  ASSUME NewsInv, NoTurnBegins, NEW r \in Runner, pc[r] \in TalkPC, pc'[r] \notin TalkPC,
         \A m \in Msg : fate'[m] # fate[m] =>
           \/ fate[m] # "turn" /\ Hears(m)
           \/ m = cur[r] /\ fate'[m] \in {"answered", "failed", "exited", "stopped"}
  PROVE  NewsParts' /\ HearsNext
<1>0. \A c \in Runner : cur[c] \in Msg \cup {None}
  BY Kinds DEF NewsInv, LineInv, CloseInv, IInv, TypeOK, TurnsOK
<1>1. ASSUME NEW c \in Runner, Talks(c)'
      PROVE  Talks(c) /\ cur'[c] = cur[c] /\ cur[c] \in Msg /\ cur[c] # cur[r]
  <2>1. Talks(c) /\ cur'[c] = cur[c] /\ cur[c] \in Msg /\ c # r
    BY <1>0, <1>1 DEF NoTurnBegins, Talks
  <2>2. QED
    BY <2>1 DEF NewsInv, OneTurn, Talks
<1>2. Untold'
  <2>1. ASSUME NEW c \in Runner, Talks(c)' PROVE fate'[cur'[c]] = "turn"
    <3>1. Talks(c) /\ cur'[c] = cur[c] /\ cur[c] \in Msg /\ cur[c] # cur[r]
      BY <1>1, <2>1
    <3>2. fate[cur[c]] = "turn"
      BY <3>1 DEF NewsInv, Untold
    <3>3. QED
      BY <3>1, <3>2
  <2>2. QED
    BY <2>1 DEF Untold
<1>3. OwnTurn'
  BY DEF NewsInv, OwnTurn, NoTurnBegins
<1>4. OneTurn'
  BY <1>1 DEF NewsInv, OneTurn
<1>5. HearsNext
  <2>1. ASSUME NEW m \in Msg, fate'[m] # fate[m] PROVE Hears(m)
    <3>1. CASE fate[m] # "turn" /\ Hears(m)
      BY <3>1
    <3>2. CASE m = cur[r] /\ fate'[m] \in {"answered", "failed", "exited", "stopped"}
      <4>1. Talks(r)
        BY <3>2, Kinds DEF Talks
      <4>2. fate[m] = "turn"
        BY <3>2, <4>1 DEF NewsInv, Untold
      <4>3. QED
        BY <3>2, <4>2 DEF Hears, NewsAfter
    <3>3. QED
      BY <2>1, <3>1, <3>2
  <2>2. QED
    BY <2>1 DEF HearsNext
<1>6. QED
  BY <1>2, <1>3, <1>4, <1>5 DEF NewsParts

\* A step in which r begins the turn of m, which had none before.
LEMMA TalkBegins ==
  ASSUME NewsInv, NEW r \in Runner, NEW m \in Msg, fate[m] \in {"none", "queued"},
         fate' = [fate EXCEPT ![m] = "turn"], cur' = [cur EXCEPT ![r] = m],
         NEW p \in PCs, pc' = [pc EXCEPT ![r] = p],
         p \in {"slot", "start", "ready"} => r = m
  PROVE  NewsParts' /\ HearsNext
<1>0. /\ r \in Request /\ m \in Runner /\ m # None
      /\ pc \in [Request -> PCs] /\ cur \in [Request -> Msg \cup {None}]
      /\ fate \in [Msg -> Fates] /\ Runner \subseteq Request /\ Msg \subseteq Runner
  BY Kinds DEF NewsInv, LineInv, CloseInv, IInv, TypeOK, TurnsOK, PlacesOK, NewsOK, Agent
<1>1. \A n \in Msg : fate'[n] = IF n = m THEN "turn" ELSE fate[n]
  BY <1>0
<1>2. ASSUME NEW c \in Runner, c # r
      PROVE  /\ cur'[c] = cur[c] /\ pc'[c] = pc[c] /\ Talks(c)' = Talks(c)
             /\ Talks(c) => cur[c] \in Msg /\ cur[c] # m /\ fate[cur[c]] = "turn"
  <2>1. cur'[c] = cur[c] /\ pc'[c] = pc[c] /\ Talks(c)' = Talks(c)
    BY <1>0, <1>2 DEF Talks
  <2>2. ASSUME Talks(c) PROVE cur[c] \in Msg /\ cur[c] # m /\ fate[cur[c]] = "turn"
    <3>1. cur[c] \in Msg
      BY <1>0, <2>2 DEF Talks
    <3>2. fate[cur[c]] = "turn"
      BY <2>2 DEF NewsInv, Untold
    <3>3. QED
      BY <3>1, <3>2
  <2>3. QED
    BY <2>1, <2>2
<1>3. cur'[r] = m
  BY <1>0
<1>4. Untold'
  BY <1>1, <1>2, <1>3 DEF Untold
<1>5. OwnTurn'
  BY <1>0, <1>3 DEF NewsInv, OwnTurn
<1>6. OneTurn'
  BY <1>2, <1>3 DEF NewsInv, OneTurn
<1>7. HearsNext
  BY <1>1 DEF HearsNext, Hears, NewsAfter
<1>8. QED
  BY <1>4, <1>5, <1>6, <1>7 DEF NewsParts

\* A step that drops a queue, or tells nothing.
LEMMA DropHears ==
  ASSUME NewsInv, UNCHANGED fate \/ \E q \in State : fate' = Dropped(q)
  PROVE  QuietNews
<1>1. LineInv
  BY DEF NewsInv
<1>2. ASSUME NEW m \in Msg, fate'[m] # fate[m] PROVE fate[m] # "turn" /\ Hears(m)
  <2>1. PICK q \in State : fate' = Dropped(q)
    BY <1>2
  <2>2. fate'[m] = "dropped" /\ fate[m] = "queued"
    BY <1>1, <1>2, <2>1, DroppedOnes
  <2>3. QED
    BY <2>2 DEF Hears, NewsAfter
<1>3. QED
  BY <1>2 DEF QuietNews

\* A step that begins and ends no turn.
LEMMA NoNews ==
  ASSUME NewsInv, NoTurnBegins, UNCHANGED fate \/ \E q \in State : fate' = Dropped(q)
  PROVE  NewsParts' /\ HearsNext
BY DropHears, TalkGoesOn

\* A step in which r ends its turn, and may drop a queue.
LEMMA EndsWith ==
  ASSUME NewsInv, NoTurnBegins, NEW r \in Runner, pc[r] \in TalkPC, pc'[r] \notin TalkPC,
         NEW news \in {"answered", "failed", "exited", "stopped"},
         \/ fate' = Told(fate, r, news)
         \/ \E q \in State : fate' = Told(Dropped(q), r, news)
  PROVE  NewsParts' /\ HearsNext
<1>0. LineInv /\ TurnsOK /\ NewsOK /\ r \in Request /\ fate \in [Msg -> Fates]
  BY Kinds DEF NewsInv, LineInv, CloseInv, IInv, TypeOK, NewsOK
<1>1. ASSUME NEW m \in Msg, fate'[m] # fate[m]
      PROVE  \/ fate[m] # "turn" /\ Hears(m)
             \/ m = cur[r] /\ fate'[m] \in {"answered", "failed", "exited", "stopped"}
  <2>1. CASE fate' = Told(fate, r, news)
    <3>1. fate'[m] = IF m = cur[r] THEN news ELSE fate[m]
      BY <1>0, <2>1, ToldOne
    <3>2. QED
      BY <1>1, <3>1
  <2>2. CASE \E q \in State : fate' = Told(Dropped(q), r, news)
    <3>1. PICK q \in State : fate' = Told(Dropped(q), r, news)
      BY <2>2
    <3>2. Dropped(q) \in [Msg -> Fates]
      BY <1>0, DroppedFates
    <3>3. fate'[m] = IF m = cur[r] THEN news ELSE Dropped(q)[m]
      BY <1>0, <3>1, <3>2, ToldOne
    <3>4. /\ Dropped(q)[m] = IF m \in Waiting(q) THEN "dropped" ELSE fate[m]
          /\ m \in Waiting(q) => fate[m] = "queued"
      BY <1>0, DroppedOnes
    <3>5. QED
      BY <1>1, <3>3, <3>4 DEF Hears, NewsAfter
  <2>3. QED
    BY <2>1, <2>2
<1>2. QED
  BY <1>1, TalkEnds

\* A step of r that begins no turn, wherever it goes.
LEMMA MovesOn ==
  ASSUME NewsInv, NEW r \in Request, NEW p \in PCs, pc' = [pc EXCEPT ![r] = p],
         cur' = cur \/ (cur' = [cur EXCEPT ![r] = None] /\ p \notin {"slot", "start", "ready"}),
         p \in TalkPC => pc[r] \in TalkPC \/ cur[r] = None,
         p \in {"slot", "start", "ready"} => pc[r] \in {"slot", "start", "ready"}
  PROVE  NoTurnBegins
<1>0. /\ pc \in [Request -> PCs] /\ cur \in [Request -> Msg \cup {None}]
      /\ Runner \subseteq Request /\ Msg \subseteq Runner
  BY Kinds DEF NewsInv, LineInv, CloseInv, IInv, TypeOK, TurnsOK, PlacesOK, Agent
<1>1. ASSUME NEW c \in Runner, Talks(c)' PROVE Talks(c) /\ cur'[c] = cur[c]
  BY <1>0, <1>1 DEF Talks
<1>2. ASSUME NEW m \in Msg, pc'[m] \in {"slot", "start", "ready"}
      PROVE pc[m] \in {"slot", "start", "ready"} /\ cur'[m] = cur[m]
  BY <1>0, <1>2
<1>3. QED
  BY <1>1, <1>2 DEF NoTurnBegins

LEMMA HandleMessageNews ==
  ASSUME NewsInv, NEW m \in Msg, HandleMessage(m) PROVE NewsParts' /\ HearsNext
<1>0. /\ m \in Request /\ m \in Runner /\ Msg \subseteq Request /\ LineInv /\ News
      /\ PlacesOK /\ TurnsOK /\ NewsOK /\ StatesOK
  BY Kinds DEF NewsInv, LineInv, CloseInv, IInv, TypeOK
<1>. USE DEF PCs, TalkPC
<1>1. ASSUME fate[m] = "none", NEW f \in {"hinted", "rejected", "queued"},
             fate' = [fate EXCEPT ![m] = f]
      PROVE  QuietNews
  BY <1>0, <1>1 DEF QuietNews, Hears, NewsAfter, NewsOK
<1>2. CASE HintPending(m)
  <2>1. NoTurnBegins
    BY <1>0, <1>2, MovesOn DEF HintPending
  <2>2. fate[m] = "none" /\ fate' = [fate EXCEPT ![m] = "hinted"]
    BY <1>0, <1>2 DEF HintPending, News
  <2>3. QED
    BY <1>1, <2>1, <2>2, TalkGoesOn
<1>3. CASE Arrive(m)
  BY <1>0, <1>3, MovesOn, NoNews DEF Arrive
<1>4. CASE TryLock(m)
  <2>1. fate[m] = "none"
    BY <1>0, <1>4 DEF TryLock, News
  <2>2. CASE ~busy[sess[m]]
    BY <1>0, <1>4, <2>1, <2>2, TalkBegins DEF TryLock
  <2>3. CASE busy[sess[m]]
    BY <1>0, <1>4, <2>3, MovesOn, NoNews DEF TryLock
  <2>4. QED
    BY <2>2, <2>3
<1>5. CASE QueueMessage(m)
  <2>1. PICK p \in {"retry", "done"} : pc' = [pc EXCEPT ![m] = p]
    BY <1>5 DEF QueueMessage
  <2>2. NoTurnBegins
    BY <1>0, <1>5, <2>1, MovesOn DEF QueueMessage
  <2>3. fate[m] = "none"
    BY <1>0, <1>5 DEF QueueMessage, News
  <2>4. QuietNews
    BY <1>1, <1>5, <2>3 DEF QueueMessage
  <2>5. QED
    BY <2>2, <2>4, TalkGoesOn
<1>6. CASE RetryLock(m)
  BY <1>0, <1>6, MovesOn, NoNews DEF RetryLock
<1>7. CASE DrainOrphaned(m)
  <2>1. NoTurnBegins
    BY <1>0, <1>7, MovesOn DEF DrainOrphaned
  <2>2. UNCHANGED fate \/ \E q \in State : fate' = Dropped(q)
    BY <1>0, <1>7 DEF DrainOrphaned, StatesOK
  <2>3. QED
    BY <2>1, <2>2, NoNews
<1>8. CASE EnsureSlot(m)
  BY <1>0, <1>8, MovesOn, NoNews DEF EnsureSlot
<1>9. QED
  BY <1>2, <1>3, <1>4, <1>5, <1>6, <1>7, <1>8 DEF HandleMessage

LEMMA StartTurnNews ==
  ASSUME NewsInv, NEW m \in Msg, StartTurn(m) PROVE NewsParts' /\ HearsNext
<1>0. /\ m \in Request /\ m \in Runner /\ NewsOK /\ TurnsOK /\ m # None
      /\ pc[m] \in {"slot", "start", "ready"} => cur[m] = m
  BY Kinds DEF NewsInv, LineInv, CloseInv, IInv, TypeOK, Agent, OwnTurn
<1>. USE DEF PCs, TalkPC
<1>1. CASE Abandon(m)
  <2>1. NoTurnBegins
    BY <1>0, <1>1, MovesOn DEF Abandon
  <2>2. pc[m] = "start" /\ pc'[m] = "release" /\ fate' = Told(fate, m, "stopped")
    BY <1>0, <1>1 DEF Abandon, Told, NewsInv, LineInv, CloseInv, IInv, TypeOK, PlacesOK
  <2>3. QED
    BY <1>0, <2>1, <2>2, EndsWith
<1>2. CASE Reuse(m)
  BY <1>0, <1>2, MovesOn, NoNews DEF Reuse
<1>3. CASE StartAgent(m) \/ StartFails(m)
  <2>1. pc[m] = "start" /\ pc' = [pc EXCEPT ![m] = "ready"] /\ UNCHANGED <<fate, cur>>
    BY <1>3 DEF StartAgent, StartFails, Install
  <2>2. QED
    BY <1>0, <2>1, MovesOn, NoNews
<1>4. CASE Ready(m)
  <2>1. CASE agentOf[mine[m]] = None
    <3>1. NoTurnBegins
      BY <1>0, <1>4, <2>1, MovesOn DEF Ready
    <3>2. pc[m] = "ready" /\ pc'[m] = "release" /\ fate' = Told(fate, m, "failed")
      BY <1>0, <1>4, <2>1 DEF Ready, Told, NewsInv, LineInv, CloseInv, IInv, TypeOK, PlacesOK
    <3>3. QED
      BY <1>0, <3>1, <3>2, EndsWith
  <2>2. CASE agentOf[mine[m]] # None
    BY <1>0, <1>4, <2>2, MovesOn, NoNews DEF Ready
  <2>3. QED
    BY <2>1, <2>2
<1>5. QED
  BY <1>1, <1>2, <1>3, <1>4 DEF StartTurn

\* A step that moves nobody.
LEMMA NobodyMoves ==
  ASSUME NewsInv, UNCHANGED <<pc, cur>>, UNCHANGED fate  PROVE NewsParts' /\ HearsNext
<1>1. NoTurnBegins
  BY DEF NoTurnBegins, Talks
<1>2. QED
  BY <1>1, NoNews

\* The end of a turn takes its goroutine to p.
LEMMA TellsAt ==
  ASSUME NewsInv, NEW r \in Runner, pc[r] \in TalkPC, UNCHANGED cur,
         NEW p \in PCs \ TalkPC, pc' = [pc EXCEPT ![r] = p],
         NEW news \in {"answered", "failed", "exited", "stopped"},
         \/ fate' = Told(fate, r, news)
         \/ \E q \in State : fate' = Told(Dropped(q), r, news)
  PROVE  NewsParts' /\ HearsNext
<1>1. r \in Request /\ pc \in [Request -> PCs]
  BY Kinds DEF NewsInv, LineInv, CloseInv, IInv, TypeOK, PlacesOK
<1>2. pc'[r] \notin TalkPC
  BY <1>1
<1>3. NoTurnBegins
  BY <1>1, MovesOn DEF TalkPC
<1>4. QED
  BY <1>2, <1>3, EndsWith

\* The goroutine takes the first message of its queue.
LEMMA TakesTurn ==
  ASSUME NewsInv, NEW r \in Runner, NEW q \in State, queue[q] # <<>>,
         fate' = [fate EXCEPT ![Head(queue[q])] = "turn"],
         cur' = [cur EXCEPT ![r] = Head(queue[q])],
         NEW p \in {"next", "send"}, pc' = [pc EXCEPT ![r] = p]
  PROVE  NewsParts' /\ HearsNext
<1>0. QueuesOK /\ LineInv
  BY DEF NewsInv, LineInv, CloseInv, IInv, TypeOK
<1>1. Head(queue[q]) \in Msg
  BY <1>0, TakesHead
<1>2. 1 \in DOMAIN queue[q] /\ Head(queue[q]) = queue[q][1]
  BY <1>0 DEF QueuesOK
<1>3. Head(queue[q]) \in Waiting(q)
  BY <1>2 DEF Waiting
<1>4. fate[Head(queue[q])] = "queued"
  BY <1>0, <1>1, <1>3 DEF LineInv, Seats, QueuedIsThere
<1>5. QED
  BY <1>1, <1>4, TalkBegins DEF PCs

LEMMA RunTurnNews ==
  ASSUME NewsInv, NEW r \in Runner, RunTurn(r) PROVE NewsParts' /\ HearsNext
<1>0. r \in Request /\ (pc[r] \in MinePC => mine[r] \in State)
  BY Kinds DEF NewsInv, LineInv, CloseInv, IInv, PointersOK, Points
<1>. USE DEF PCs, TalkPC, MinePC
<1>1. CASE Dispatch(r)
  <2>1. CASE NilCall(r)
    BY <2>1, NobodyMoves DEF NilCall
  <2>2. CASE pc' = [pc EXCEPT ![r] = "events"] /\ UNCHANGED <<cur, fate>>
    BY <1>0, <1>1, <2>2, MovesOn, NoNews DEF Dispatch
  <2>3. QED
    BY <1>1, <2>1, <2>2 DEF Dispatch
<1>2. CASE SendReturns(r)
  BY <1>2, NobodyMoves DEF SendReturns, NilCall
<1>3. CASE SendFails(r)
  BY <1>0, <1>3, TellsAt DEF SendFails, Cleanup
<1>4. CASE SeeStop(r)
  BY <1>0, <1>4, TellsAt DEF SeeStop
<1>5. CASE ReceiveEvent(r)
  BY <1>0, <1>5, MovesOn, NoNews DEF ReceiveEvent
<1>6. CASE EventText(r)
  BY <1>0, <1>6, MovesOn, NoNews DEF EventText
<1>7. CASE EventPermission(r)
  BY <1>0, <1>7, MovesOn, NoNews DEF EventPermission
<1>8. CASE ResultUnsent(r)
  BY <1>0, <1>8, TellsAt DEF ResultUnsent
<1>9. CASE ResultSent(r)
  BY <1>0, <1>9, TellsAt DEF ResultSent
<1>10. CASE ResultCompress(r)
  BY <1>0, <1>10, MovesOn, NoNews DEF ResultCompress
<1>11. CASE ResultNext(r)
  BY <1>0, <1>11, TakesTurn DEF ResultNext
<1>12. CASE SendNext(r)
  <2>1. CASE NilCall(r)
    BY <2>1, NobodyMoves DEF NilCall
  <2>2. CASE pc' = [pc EXCEPT ![r] = "events"] /\ UNCHANGED <<cur, fate>>
    BY <1>0, <1>12, <2>2, MovesOn, NoNews DEF SendNext
  <2>3. QED
    BY <1>12, <2>1, <2>2 DEF SendNext
<1>13. CASE ResultLast(r) \/ ReturnLast(r)
  BY <1>0, <1>13, MovesOn, NoNews DEF ResultLast, ReturnLast
<1>14. CASE EventError(r)
  BY <1>0, <1>14, TellsAt DEF EventError
<1>15. CASE ChannelClosed(r)
  BY <1>0, <1>15, TellsAt DEF ChannelClosed, Cleanup
<1>16. CASE IdleTimeout(r)
  BY <1>0, <1>16, TellsAt DEF IdleTimeout, Cleanup
<1>17. CASE DrainEmpty(r) \/ Release(r)
  <2>1. PICK p \in {"done", "drain"} : pc' = [pc EXCEPT ![r] = p]
    BY <1>17 DEF DrainEmpty, Release, UnlockAndReturn
  <2>2. UNCHANGED <<cur, fate>>
    BY <1>17 DEF DrainEmpty, Release, UnlockAndReturn
  <2>3. QED
    BY <1>0, <2>1, <2>2, MovesOn, NoNews
<1>18. CASE DrainNext(r)
  <2>1. CASE Usable(mine[r])
    BY <1>0, <1>18, <2>1, TakesTurn DEF DrainNext
  <2>2. CASE ~Usable(mine[r])
    BY <1>0, <1>18, <2>2, MovesOn, NoNews DEF DrainNext
  <2>3. QED
    BY <2>1, <2>2
<1>19. QED
  BY <1>1, <1>2, <1>3, <1>4, <1>5, <1>6, <1>7, <1>8, <1>9, <1>10, <1>11, <1>12, <1>13,
     <1>14, <1>15, <1>16, <1>17, <1>18 DEF RunTurn

LEMMA CompressNews ==
  ASSUME NewsInv, NEW r \in Runner, Compress(r) PROVE NewsParts' /\ HearsNext
<1>0. r \in Request /\ (pc[r] \in MinePC => mine[r] \in State)
  BY Kinds DEF NewsInv, LineInv, CloseInv, IInv, PointersOK, Points
<1>. USE DEF PCs, TalkPC, MinePC
<1>1. CASE RunCompress(r)
  <2>1. CASE NilCall(r)
    BY <2>1, NobodyMoves DEF NilCall
  <2>2. CASE ~NilCall(r)
    <3>1. PICK p \in {"cwait", "release", "detach"} : pc' = [pc EXCEPT ![r] = p]
      BY <1>1, <2>2 DEF RunCompress
    <3>2. UNCHANGED <<cur, fate>>
      BY <1>1, <2>2 DEF RunCompress
    <3>3. QED
      BY <1>0, <3>1, <3>2, MovesOn, NoNews
  <2>3. QED
    BY <2>1, <2>2
<1>2. CASE CompressStopped(r)
  BY <1>0, <1>2, MovesOn, NoNews DEF CompressStopped
<1>3. CASE CompressBroken(r)
  BY <1>0, <1>3, MovesOn, NoNews DEF CompressBroken, Cleanup
<1>4. CASE CompressDrop(r)
  BY <1>0, <1>4, MovesOn, NoNews DEF CompressDrop
<1>5. CASE CompressEnds(r)
  BY <1>0, <1>5, MovesOn, NoNews DEF CompressEnds, CompressEvent
<1>6. CASE CompressDies(r)
  <2>1. CASE NilCall(r)
    BY <2>1, NobodyMoves DEF NilCall
  <2>2. CASE ~NilCall(r)
    BY <1>0, <1>6, <2>2, MovesOn, NoNews DEF CompressDies, CompressEvent
  <2>3. QED
    BY <2>1, <2>2
<1>7. QED
  BY <1>1, <1>2, <1>3, <1>4, <1>5, <1>6 DEF Compress

LEMMA CleanUpNews ==
  ASSUME NewsInv, NEW r \in Runner \cup NewCmd, CleanUp(r)
  PROVE  NewsParts' /\ HearsNext
<1>0. /\ r \in Request
      /\ pc[r] \in TgtPC => tgt[r] \in State
      /\ pc[r] \in CleanPC => ret[r] \in {"drain", "release", "cdrop", "swap"}
  BY Kinds DEF NewsInv, LineInv, CloseInv, IInv, PointersOK, Points
<1>. USE DEF PCs, TalkPC, TgtPC, CleanPC
<1>1. CASE Detach(r)
  <2>1. PICK p \in {"notify", "unmap", "drain", "release", "cdrop", "swap"} :
          pc' = [pc EXCEPT ![r] = p]
    BY <1>0, <1>1 DEF Detach
  <2>2. UNCHANGED <<cur, fate>>
    BY <1>1 DEF Detach
  <2>3. QED
    BY <1>0, <2>1, <2>2, MovesOn, NoNews
<1>2. CASE Notify(r)
  BY <1>0, <1>2, MovesOn, NoNews DEF Notify
<1>3. CASE Close(r)
  BY <1>0, <1>3, MovesOn, NoNews DEF Close
<1>4. CASE Unmap(r)
  BY <1>0, <1>4, MovesOn, NoNews DEF Unmap
<1>5. QED
  BY <1>1, <1>2, <1>3, <1>4 DEF CleanUp

\* Waking a turn that waits for a permission begins none.
LEMMA WakeTalks ==
  ASSUME NewsInv, NEW g \in Perm \cup {None}, NEW c \in Request \ Runner, NEW p \in PCs,
         pc' = [Woken(g) EXCEPT ![c] = p], UNCHANGED cur
  PROVE  NoTurnBegins
<1>0. /\ PlacesOK /\ pc \in [Request -> PCs]
      /\ Runner \subseteq Request /\ Msg \subseteq Runner
  BY Kinds DEF NewsInv, LineInv, CloseInv, IInv, TypeOK, PlacesOK
<1>1. ASSUME NEW r \in Runner
      PROVE pc'[r] = pc[r] \/ (pc[r] = "perm" /\ pc'[r] = "events")
  BY <1>0, Wakes
<1>2. QED
  BY <1>0, <1>1 DEF NoTurnBegins, Talks, TalkPC

LEMMA CommandNews ==
  ASSUME NewsInv,
         \/ \E c \in CompressCmd : CmdCompress(c) \/ CompressTryLock(c)
         \/ \E c \in StopCmd : CmdStop(c) \/ StopResolve(c) \/ StopDrop(c) \/ StopClose(c)
         \/ \E c \in NewCmd : CmdNew(c) \/ NewSession(c)
         \/ \E c \in Answer : AnswerRead(c) \/ AnswerResolve(c)
         \/ (\E a \in Agent : AgentDies(a) \/ AgentCloses(a)) \/ Cancel \/ Sweep
         \/ (\E q \in State : LateSend(q))
  PROVE  NewsParts' /\ HearsNext
<1>0. /\ \A c \in Request : grip[c] \in Perm \cup {None}
      /\ \A c \in StopCmd : pc[c] \in TgtPC => tgt[c] \in State
      /\ CompressCmd \cup StopCmd \cup NewCmd \cup Answer \subseteq Request
      /\ StopCmd \cup NewCmd \cup Answer \subseteq Request \ Runner
      /\ CompressCmd \cap Msg = {}
      /\ \A c \in CompressCmd : pc[c] = "ctry" => pc[c] \notin TalkPC
  BY Kinds, Disjoint
     DEF NewsInv, LineInv, CloseInv, IInv, TypeOK, TurnsOK, PointersOK, Points, TalkPC
<1>. USE DEF PCs, TalkPC, TgtPC
<1>1. CASE \E c \in CompressCmd : CmdCompress(c) \/ CompressTryLock(c)
  <2>1. PICK c \in CompressCmd : CmdCompress(c) \/ CompressTryLock(c)
    BY <1>1
  <2>2. PICK p \in {"ctry", "done", "compress"} : pc' = [pc EXCEPT ![c] = p]
    BY <2>1 DEF CmdCompress, CompressTryLock
  <2>3. UNCHANGED <<cur, fate>>
    BY <2>1 DEF CmdCompress, CompressTryLock
  <2>4. QED
    BY <1>0, <2>2, <2>3, MovesOn, NoNews
<1>2. CASE \E c \in StopCmd : CmdStop(c) \/ StopResolve(c) \/ StopDrop(c) \/ StopClose(c)
  <2>0. PICK c \in StopCmd : CmdStop(c) \/ StopResolve(c) \/ StopDrop(c) \/ StopClose(c)
    BY <1>2
  <2>1. CASE CmdStop(c)
    <3>1. PICK p \in {"resolve", "done"} : pc' = [pc EXCEPT ![c] = p]
      BY <2>1 DEF CmdStop
    <3>2. UNCHANGED <<cur, fate>>
      BY <2>1 DEF CmdStop
    <3>3. QED
      BY <1>0, <3>1, <3>2, MovesOn, NoNews
  <2>2. CASE StopResolve(c)
    BY <1>0, <2>2, WakeTalks, NoNews DEF StopResolve
  <2>3. CASE StopDrop(c)
    BY <1>0, <2>3, MovesOn, NoNews DEF StopDrop
  <2>4. CASE StopClose(c)
    BY <1>0, <2>4, MovesOn, NoNews DEF StopClose
  <2>5. QED
    BY <2>0, <2>1, <2>2, <2>3, <2>4
<1>3. CASE \E c \in NewCmd : CmdNew(c) \/ NewSession(c)
  <2>0. PICK c \in NewCmd : CmdNew(c) \/ NewSession(c)
    BY <1>3
  <2>1. PICK p \in {"detach", "done"} : pc' = [pc EXCEPT ![c] = p]
    BY <2>0 DEF CmdNew, NewSession
  <2>2. UNCHANGED <<cur, fate>>
    BY <2>0 DEF CmdNew, NewSession
  <2>3. QED
    BY <1>0, <2>1, <2>2, MovesOn, NoNews
<1>4. CASE \E c \in Answer : AnswerRead(c) \/ AnswerResolve(c)
  <2>0. PICK c \in Answer : AnswerRead(c) \/ AnswerResolve(c)
    BY <1>4
  <2>1. CASE AnswerRead(c)
    BY <1>0, <2>1, MovesOn, NoNews DEF AnswerRead
  <2>2. CASE AnswerResolve(c)
    BY <1>0, <2>2, WakeTalks, NoNews DEF AnswerResolve
  <2>3. QED
    BY <2>0, <2>1, <2>2
<1>5. CASE (\E a \in Agent : AgentDies(a) \/ AgentCloses(a)) \/ Cancel \/ Sweep
         \/ (\E q \in State : LateSend(q))
  BY <1>5, NobodyMoves DEF AgentDies, AgentCloses, Cancel, Sweep, LateSend
<1>6. QED
  BY <1>1, <1>2, <1>3, <1>4, <1>5

\* Every step keeps the invariant, and tells the senders nothing twice.
LEMMA NextNews == ASSUME NewsInv, [Next]_vars PROVE NewsInv' /\ HearsNext
<1>1. LineInv'
  BY NextLine DEF NewsInv
<1>2. CASE UNCHANGED vars
  <2>1. NewsParts' /\ HearsNext
    BY <1>2, NobodyMoves DEF vars
  <2>2. QED
    BY <1>1, <2>1 DEF NewsInv, NewsParts
<1>3. CASE Next
  <2>1. NewsParts' /\ HearsNext
    BY <1>3, HandleMessageNews, StartTurnNews, RunTurnNews, CompressNews, CleanUpNews,
       CommandNews DEF Next
  <2>2. QED
    BY <1>1, <2>1 DEF NewsInv, NewsParts
<1>4. QED
  BY <1>2, <1>3

\* NewsOnce, with every feature and failure.  A message is rejected or hinted, or
\* it has a turn, at once or from the queue, or is dropped from the queue; and of a
\* turn its sender hears one outcome.  No message is told it was dropped while its
\* turn runs, none hears of two outcomes, and none runs in two goroutines, although
\* cleanups, /stop and dying agents drop queues while others serve them.
THEOREM ToldOnce == Spec => NewsOnce
<1>1. Init => NewsInv
  <2>1. Init => Untold /\ OwnTurn /\ OneTurn
    BY Kinds DEF Init, Untold, OwnTurn, OneTurn, Talks, TalkPC
  <2>2. QED
    BY <2>1, InitLine DEF NewsInv
<1>2. NewsInv /\ [Next]_vars => NewsInv'
  BY NextNews
<1>3. NewsInv /\ [Next]_vars => HearsNext
  BY NextNews
<1>4. QED
  BY <1>1, <1>2, <1>3, PTL DEF Spec, NewsOnce

-----------------------------------------------------------------------------
(* The order in the queues *)

\* a waits before b in the queue of q.
AheadIn(q, a, b) == \E i, j \in DOMAIN queue[q] : i < j /\ queue[q][i] = a /\ queue[q][j] = b
Ahead(a, b) == \E q \in State : AheadIn(q, a, b)

\* Nobody overtakes: as long as a waits, those who were accepted behind it wait
\* behind it, in whichever queue the adoption by another state has put them.
KeepsPlace == \A a, b \in Msg : Ahead(a, b) => Ahead(a, b)' \/ fate'[a] # "queued"
NoOvertaking == [][KeepsPlace]_vars

\* What a step may do to the queues: drop one,
Drops(q) == DropQueue(q) /\ \A m \in Waiting(q) : fate'[m] # "queued"
\* give the turn to its first,
ServesFirst(q) == /\ queue[q] # <<>> /\ queue' = [queue EXCEPT ![q] = Tail(@)]
              /\ fate'[Head(queue[q])] = "turn"
\* add a message,
Adds(q) == \E m \in Msg : queue' = [queue EXCEPT ![q] = Append(@, m)]
\* or move the queue to a state without one.
Hands(q, new) == /\ q # new /\ queue[new] = <<>>
                 /\ queue' = [queue EXCEPT ![new] = queue[q], ![q] = <<>>]

LEMMA PlacesKept ==
  ASSUME QueuesOK,
         \/ UNCHANGED queue
         \/ \E q \in State : Drops(q) \/ ServesFirst(q) \/ Adds(q)
         \/ \E q, new \in State : Hands(q, new)
  PROVE  KeepsPlace
<1>1. SUFFICES ASSUME NEW a \in Msg, NEW b \in Msg, NEW s \in State, AheadIn(s, a, b),
                      fate'[a] = "queued"
               PROVE  Ahead(a, b)'
  BY DEF KeepsPlace, Ahead
<1>2. PICK i \in DOMAIN queue[s], j \in DOMAIN queue[s] :
        i < j /\ queue[s][i] = a /\ queue[s][j] = b
  BY <1>1 DEF AheadIn
<1>3. /\ DOMAIN queue = State /\ \A q \in State : queue[q] \in Seq(Msg)
      /\ i \in 1 .. Len(queue[s]) /\ j \in 1 .. Len(queue[s]) /\ Len(queue[s]) \in Nat
  BY DEF QueuesOK
<1>4. CASE queue'[s] = queue[s]
  BY <1>2, <1>4 DEF Ahead, AheadIn
<1>5. ASSUME NEW q \in State, Drops(q), q = s PROVE FALSE
  BY <1>1, <1>2, <1>5 DEF Drops, Waiting
<1>6. ASSUME NEW q \in State, ServesFirst(q), q = s PROVE Ahead(a, b)'
  <2>1. i # 1
    BY <1>1, <1>2, <1>3, <1>6 DEF ServesFirst
  <2>2. queue'[s] = Tail(queue[s]) /\ queue[s] # <<>>
    BY <1>3, <1>6 DEF ServesFirst
  <2>3. /\ i - 1 \in DOMAIN queue'[s] /\ j - 1 \in DOMAIN queue'[s] /\ i - 1 < j - 1
        /\ queue'[s][i - 1] = a /\ queue'[s][j - 1] = b
    BY <1>2, <1>3, <2>1, <2>2
  <2> QED BY <2>3 DEF Ahead, AheadIn
<1>7. ASSUME NEW q \in State, Adds(q), q = s PROVE Ahead(a, b)'
  <2>1. PICK m \in Msg : queue'[s] = Append(queue[s], m)
    BY <1>3, <1>7 DEF Adds
  <2>2. /\ i \in DOMAIN queue'[s] /\ j \in DOMAIN queue'[s]
        /\ queue'[s][i] = a /\ queue'[s][j] = b
    BY <1>2, <1>3, <2>1
  <2> QED BY <1>2, <2>2 DEF Ahead, AheadIn
<1>8. ASSUME NEW q \in State, NEW new \in State, Hands(q, new), q = s PROVE Ahead(a, b)'
  <2>1. queue'[new] = queue[s]
    BY <1>3, <1>8 DEF Hands
  <2> QED BY <1>2, <2>1 DEF Ahead, AheadIn
<1>9. ASSUME NEW q \in State, NEW new \in State, Hands(q, new), q # s PROVE queue'[s] = queue[s]
  BY <1>2, <1>3, <1>9 DEF Hands
<1>10. ASSUME NEW q \in State, Drops(q) \/ ServesFirst(q) \/ Adds(q), q # s PROVE queue'[s] = queue[s]
  BY <1>3, <1>10 DEF Drops, DropQueue, ServesFirst, Adds
<1> QED BY <1>4, <1>5, <1>6, <1>7, <1>8, <1>9, <1>10

\* What every step does to the queues.
QueueStep ==
  \/ UNCHANGED queue
  \/ \E q \in State : Drops(q) \/ ServesFirst(q) \/ Adds(q)
  \/ \E q, new \in State : Hands(q, new)

\* A queue that is dropped, perhaps as the turn of r ends.
LEMMA DropsAll ==
  ASSUME LineInv, NEW q \in State, DropQueue(q),
         \/ fate' = Dropped(q)
         \/ \E r \in Request, news \in Fates \ {"queued"} : fate' = Told(Dropped(q), r, news)
  PROVE  QueueStep
<1>0. TurnsOK /\ NewsOK /\ QueuesOK
  BY DEF LineInv, CloseInv, IInv, TypeOK
<1>1. ASSUME NEW m \in Waiting(q) PROVE fate'[m] # "queued"
  <2>1. m \in Msg /\ Dropped(q)[m] = "dropped"
    BY <1>0, DroppedOnes DEF Waiting, QueuesOK
  <2>2. CASE fate' = Dropped(q)
    BY <2>1, <2>2
  <2>3. CASE \E r \in Request, news \in Fates \ {"queued"} : fate' = Told(Dropped(q), r, news)
    <3>1. PICK r \in Request, news \in Fates \ {"queued"} : fate' = Told(Dropped(q), r, news)
      BY <2>3
    <3>2. Dropped(q) \in [Msg -> Fates]
      BY <1>0, DroppedFates
    <3> QED BY <1>0, <2>1, <3>1, <3>2, ToldOne
  <2> QED BY <2>2, <2>3
<1> QED BY <1>1 DEF QueueStep, Drops

\* A message that waits first and gets the turn.
LEMMA ServesHead ==
  ASSUME QueuesOK, NewsOK, NEW q \in State, queue[q] # <<>>,
         queue' = [queue EXCEPT ![q] = Tail(@)],
         fate' = [fate EXCEPT ![Head(queue[q])] = "turn"]
  PROVE  QueueStep
<1>1. Head(queue[q]) \in Msg
  BY TakesHead
<1> QED BY <1>1 DEF QueueStep, ServesFirst, NewsOK

LEMMA MessageQueues ==
  ASSUME LineInv, NEW m \in Msg, HandleMessage(m) \/ StartTurn(m)  PROVE QueueStep
<1>0. StatesOK /\ m \in Request /\ Live(m) \in State
  BY Kinds DEF LineInv, CloseInv, IInv, TypeOK, Live, State
<1>1. CASE QueueMessage(m)
  BY <1>0, <1>1 DEF QueueMessage, StatesOK, QueueStep, Adds
<1>2. CASE DrainOrphaned(m)
  <2>1. CASE UNCHANGED queue
    BY <2>1 DEF QueueStep
  <2>2. CASE entry # None /\ fate' = Dropped(entry) /\ DropQueue(entry)
    BY <1>0, <2>2, DropsAll DEF StatesOK
  <2> QED BY <1>2, <2>1, <2>2 DEF DrainOrphaned, DropQueue
<1>3. CASE StartAgent(m) \/ StartFails(m)
  <2>1. pc[m] = "start" /\ Install(m, entry # None /\ Usable(entry))
    BY <1>3 DEF StartAgent, StartFails
  <2>2. entry # Live(m) /\ queue[Live(m)] = <<>>
    BY <2>1 DEF LineInv, CloseInv, Fresh, Early, Unborn
  <2>3. CASE UNCHANGED queue
    BY <2>3 DEF QueueStep
  <2>4. CASE entry # None /\ ~UNCHANGED queue
    BY <1>0, <2>1, <2>2, <2>4 DEF Install, Hands, QueueStep, StatesOK, Live
  <2> QED BY <2>1, <2>3, <2>4 DEF Install
<1>4. CASE UNCHANGED queue
  BY <1>4 DEF QueueStep
<1> QED BY <1>1, <1>2, <1>3, <1>4 DEF HandleMessage, HintPending, Arrive, TryLock, RetryLock,
           EnsureSlot, StartTurn, Abandon, Reuse, Ready

LEMMA TurnQueues ==
  ASSUME LineInv, NEW r \in Runner, RunTurn(r) \/ Compress(r)  PROVE QueueStep
<1>0. /\ r \in Request /\ QueuesOK /\ NewsOK
      /\ pc[r] \in MinePC => mine[r] \in State
  BY Kinds DEF LineInv, CloseInv, IInv, TypeOK, PointersOK, Points
<1>. USE DEF MinePC, Fates
<1>1. CASE SendFails(r)
  BY <1>0, <1>1, DropsAll DEF SendFails
<1>2. CASE EventError(r) /\ ~Usable(mine[r])
  BY <1>0, <1>2, DropsAll DEF EventError
<1>3. CASE ChannelClosed(r)
  BY <1>0, <1>3, DropsAll DEF ChannelClosed
<1>4. CASE ResultNext(r)
  BY <1>0, <1>4, ServesHead DEF ResultNext
<1>5. CASE DrainNext(r)
  BY <1>0, <1>5, ServesHead, DropsAll DEF DrainNext
<1>6. CASE CompressDrop(r)
  BY <1>0, <1>6, DropsAll DEF CompressDrop
<1>7. CASE CompressDies(r)
  <2>1. CASE NilCall(r)
    BY <2>1 DEF NilCall, QueueStep
  <2>2. CASE ~NilCall(r)
    BY <1>0, <1>7, <2>2, DropsAll DEF CompressDies, CompressEvent
  <2> QED BY <2>1, <2>2
<1>8. CASE UNCHANGED queue
  BY <1>8 DEF QueueStep
<1>9. RunTurn(r) => UNCHANGED queue \/ SendFails(r) \/ (EventError(r) /\ ~Usable(mine[r]))
                    \/ ChannelClosed(r) \/ ResultNext(r) \/ DrainNext(r)
  BY DEF RunTurn, Dispatch, SendReturns, SeeStop, ReceiveEvent, EventText, EventPermission,
     ResultUnsent, ResultSent, ResultCompress, SendNext, ResultLast, ReturnLast, EventError,
     IdleTimeout, DrainEmpty, Release, UnlockAndReturn, NilCall
<1>10. Compress(r) => UNCHANGED queue \/ CompressDrop(r) \/ CompressDies(r)
  BY DEF Compress, RunCompress, CompressStopped, CompressBroken, CompressEnds, NilCall
<1> QED BY <1>1, <1>2, <1>3, <1>4, <1>5, <1>6, <1>7, <1>8, <1>9, <1>10

LEMMA CommandQueues ==
  ASSUME LineInv, [Next]_vars,
         \A m \in Msg : ~HandleMessage(m) /\ ~StartTurn(m),
         \A r \in Runner : ~RunTurn(r) /\ ~Compress(r)
  PROVE  QueueStep
<1>0. /\ Runner \cup NewCmd \cup StopCmd \subseteq Request
      /\ \A c \in Request : pc[c] \in TgtPC => tgt[c] \in State
  BY Kinds DEF LineInv, CloseInv, IInv, PointersOK, Points
<1>. USE DEF TgtPC
<1>1. ASSUME NEW r \in Runner \cup NewCmd, CleanUp(r) PROVE QueueStep
  <2>1. CASE Notify(r)
    BY <1>0, <2>1, DropsAll DEF Notify
  <2>2. CASE UNCHANGED queue
    BY <2>2 DEF QueueStep
  <2> QED BY <1>1, <2>1, <2>2 DEF CleanUp, Detach, Close, Unmap
<1>2. ASSUME NEW c \in StopCmd, CmdStop(c) \/ StopResolve(c) \/ StopDrop(c) \/ StopClose(c)
      PROVE  QueueStep
  <2>1. CASE StopDrop(c)
    BY <1>0, <2>1, DropsAll DEF StopDrop
  <2>2. CASE UNCHANGED queue
    BY <2>2 DEF QueueStep
  <2> QED BY <1>2, <2>1, <2>2 DEF CmdStop, StopResolve, StopClose
<1>3. ASSUME NEW c, \/ CmdCompress(c) \/ CompressTryLock(c) \/ CmdNew(c) \/ NewSession(c)
                    \/ AnswerRead(c) \/ AnswerResolve(c) \/ AgentDies(c) \/ AgentCloses(c)
                    \/ Cancel \/ Sweep \/ UNCHANGED vars
                    \/ \E q \in State : LateSend(q)
      PROVE  QueueStep
  BY <1>3 DEF CmdCompress, CompressTryLock, CmdNew, NewSession, AnswerRead, AnswerResolve,
     AgentDies, AgentCloses, Cancel, Sweep, LateSend, vars, QueueStep
<1> QED BY <1>1, <1>2, <1>3 DEF Next

\* NoOvertaking, with every feature and failure: cleanups, recycled agents, adopted
\* queues, drains by the message that found the Session free and auto-compress never
\* serve a message before one that was accepted before it and still waits.
THEOREM AcceptedInOrder == Spec => NoOvertaking
<1>1. LineInv /\ [Next]_vars => LineInv'
  BY NextLine
<1>2. LineInv /\ [Next]_vars => KeepsPlace
  BY MessageQueues, TurnQueues, CommandQueues, PlacesKept
     DEF QueueStep, LineInv, CloseInv, IInv, TypeOK
<1> QED BY <1>1, <1>2, InitLine, PTL DEF Spec, NoOvertaking

-----------------------------------------------------------------------------
(* The agents *)

\* Without /new there is one Session, so one goroutine holds a lock.
LEMMA Solo ==
  ASSUME NewCmd = {}, LockInv, NEW r1 \in Runner, NEW r2 \in Runner, Holds(r1), Holds(r2)
  PROVE  r1 = r2
<1>1. sess[r1] \in Session /\ sess[r2] \in Session
  BY DEF LockInv, HasSession, Holds, HoldPC
<1>2. sess[r1] = sess[r2]
  BY <1>1 DEF Session
<1>3. QED
  BY <1>2 DEF LockInv, TurnExclusion

\* Where a goroutine holds an agent that it will close.
ClosePC == {"notify", "close", "resolve", "drop", "kill"}
\* Where a goroutine is in a cleanup that has taken the agent from its state.
AfterDetach == {"notify", "close", "unmap"}

\* Between its two sections under interactiveMu a cleanup has left its state
\* without an agent, and a cleanup without an expected state, which will empty
\* the map blindly, still finds there what it left, or nothing.
Detached == \A r \in Runner : pc[r] \in AfterDetach =>
  /\ tgt[r] # None => agentOf[tgt[r]] = None
  /\ ~strict[r] => entry \in {None, tgt[r]}

\* The inductive invariant of AgentReachable.
ReachInv == CloseInv /\ LockInv /\ Detached /\ AgentReachable

\* A step that leaves the entry and its agent where they are.
Still ==
  /\ entry' = entry /\ agentOf' = agentOf
  /\ \A a \in Agent : life'[a] = "up" => life[a] = "up"
  /\ \A c \in Request : pc[c] \in ClosePC =>
       /\ on'[c] = on[c]
       /\ pc'[c] \in ClosePC \/ on[c] = None \/ life'[on[c]] # "up"
  /\ \A r \in Runner : pc'[r] \in AfterDetach =>
       pc[r] \in AfterDetach /\ tgt'[r] = tgt[r] /\ strict'[r] = strict[r]

\* Such steps lose no agent.
LEMMA StillReach ==
  ASSUME Detached, AgentReachable, Still  PROVE Detached' /\ AgentReachable'
<1>1. Detached'
  BY DEF Detached, Still
<1>2. ASSUME NEW a \in Agent, life'[a] = "up"
      PROVE  (entry # None /\ agentOf[entry] = a)' \/ \E c \in Request : Closing(c, a)'
  <2>1. life[a] = "up" /\ a # None
    BY <1>2, Kinds DEF Still
  <2>2. CASE entry # None /\ agentOf[entry] = a
    BY <2>2 DEF Still
  <2>3. CASE \E c \in Request : Closing(c, a)
    BY <1>2, <2>1, <2>3 DEF Still, Closing, ClosePC
  <2>4. QED
    BY <2>1, <2>2, <2>3 DEF AgentReachable
<1>3. QED
  BY <1>1, <1>2 DEF AgentReachable

\* Handling a message loses no agent: it fills the entry only when it is empty.
LEMMA HandleMessageReach ==
  ASSUME NewCmd = {}, ReachInv, NEW m \in Msg, HandleMessage(m)
  PROVE  Detached' /\ AgentReachable'
<1>0. /\ m \in Request /\ m \in Runner /\ Runner \subseteq Request
      /\ pc \in [Request -> PCs] /\ Detached /\ AgentReachable /\ LockInv
  BY Kinds DEF ReachInv, CloseInv, IInv, TypeOK, PlacesOK
<1>. USE DEF Still, ClosePC, AfterDetach
<1>1. CASE HintPending(m)
  BY <1>0, <1>1, StillReach DEF HintPending
<1>2. CASE Arrive(m)
  BY <1>0, <1>2, StillReach DEF Arrive
<1>3. CASE TryLock(m)
  BY <1>0, <1>3, StillReach DEF TryLock
<1>4. CASE QueueMessage(m)
  BY <1>0, <1>4, StillReach DEF QueueMessage
<1>5. CASE RetryLock(m)
  BY <1>0, <1>5, StillReach DEF RetryLock
<1>6. CASE DrainOrphaned(m)
  BY <1>0, <1>6, StillReach DEF DrainOrphaned
<1>7. CASE EnsureSlot(m)
  <2>1. pc[m] = "slot" /\ pc' = [pc EXCEPT ![m] = "start"]
        /\ UNCHANGED <<agentOf, life, on, tgt, strict>>
        /\ (entry # None => entry' = entry)
    BY <1>7 DEF EnsureSlot
  <2>2. ASSUME NEW r \in Runner, pc'[r] \in AfterDetach PROVE FALSE
    <3>1. r # m /\ Holds(r) /\ Holds(m)
      BY <1>0, <2>1, <2>2 DEF Holds, HoldPC
    <3>2. QED
      BY <1>0, <3>1, Solo
  <2>3. Detached'
    BY <2>2 DEF Detached
  <2>4. AgentReachable'
    BY <1>0, <2>1, Kinds DEF AgentReachable, Closing
  <2>5. QED
    BY <2>3, <2>4
<1>8. QED
  BY <1>1, <1>2, <1>3, <1>4, <1>5, <1>6, <1>7 DEF HandleMessage

\* A state replaces the entry only when the agent there is dead, absent or
\* closed by the same step.
LEMMA StartTurnReach ==
  ASSUME NewCmd = {}, ReachInv, NEW m \in Msg, StartTurn(m)
  PROVE  Detached' /\ AgentReachable'
<1>0. /\ m \in Request /\ m \in Runner /\ m \in Agent /\ Runner \subseteq Request
      /\ None \notin Agent /\ Live(m) \in State /\ Live(m) # None
      /\ pc \in [Request -> PCs] /\ agentOf \in [State -> Agent \cup {None}]
      /\ life \in [Agent -> {"none", "up", "dead", "closed"}] /\ entry \in State \cup {None}
      /\ Detached /\ AgentReachable /\ LockInv
  BY Kinds DEF ReachInv, CloseInv, IInv, TypeOK, PlacesOK, StatesOK, AgentsOK, Live, State
<1>. USE DEF Still, ClosePC, AfterDetach
<1>1. CASE Abandon(m)
  BY <1>0, <1>1, StillReach DEF Abandon
<1>2. CASE Reuse(m)
  BY <1>0, <1>2, StillReach DEF Reuse
<1>3. CASE StartAgent(m) \/ StartFails(m)
  <2>1. /\ pc[m] = "start" /\ pc' = [pc EXCEPT ![m] = "ready"] /\ entry' = Live(m)
        /\ UNCHANGED <<on, tgt, strict>>
    BY <1>3 DEF StartAgent, StartFails, Install, Live
  <2>2. ASSUME NEW r \in Runner, pc'[r] \in AfterDetach PROVE FALSE
    <3>1. r # m /\ Holds(r) /\ Holds(m)
      BY <1>0, <2>1, <2>2 DEF Holds, HoldPC
    <3>2. QED
      BY <1>0, <3>1, Solo
  <2>3. ASSUME NEW a \in Agent, life'[a] = "up"
        PROVE  agentOf'[entry'] = a \/ \E c \in Request : Closing(c, a)'
    <3>1. \/ a = m /\ agentOf'[entry'] = m
          \/ life[a] = "up" /\ ~(entry # None /\ agentOf[entry] = a)
      <4>1. CASE StartAgent(m)
        <5>1. agentOf'[Live(m)] = m
          BY <1>0, <4>1 DEF StartAgent, Live
        <5>2. /\ a # m => life'[a] = life[a]
              /\ a # m => ~(entry # None /\ Usable(entry) /\ agentOf[entry] = a)
          BY <1>0, <2>3, <4>1 DEF StartAgent
        <5>3. QED
          BY <1>0, <2>1, <2>3, <5>1, <5>2 DEF Usable
      <4>2. CASE StartFails(m)
        <5>1. /\ life'[a] = life[a]
              /\ ~(entry # None /\ Usable(entry) /\ agentOf[entry] = a)
          BY <1>0, <2>3, <4>2 DEF StartFails, Usable
        <5>2. QED
          BY <1>0, <2>3, <5>1 DEF Usable
      <4>3. QED
        BY <1>3, <4>1, <4>2
    <3>2. CASE life[a] = "up" /\ ~(entry # None /\ agentOf[entry] = a)
      <4>1. PICK c \in Request : Closing(c, a)
        BY <3>2 DEF ReachInv, AgentReachable
      <4>2. Closing(c, a)'
        BY <1>0, <2>1, <4>1 DEF Closing
      <4>3. QED
        BY <4>2
    <3>3. QED
      BY <3>1, <3>2
  <2>4. QED
    BY <1>0, <2>1, <2>2, <2>3 DEF Detached, AgentReachable
<1>4. CASE Ready(m)
  BY <1>0, <1>4, StillReach DEF Ready
<1>5. QED
  BY <1>1, <1>2, <1>3, <1>4 DEF StartTurn

\* A turn leaves the entry to its cleanup.
LEMMA RunTurnReach ==
  ASSUME ReachInv, NEW r \in Runner, RunTurn(r)
  PROVE  Detached' /\ AgentReachable'
<1>0. /\ r \in Request /\ Runner \subseteq Request /\ pc \in [Request -> PCs]
      /\ on \in [Request -> Agent \cup {None}] /\ tgt \in [Request -> State \cup {None}]
      /\ strict \in [Request -> BOOLEAN]
      /\ Detached /\ AgentReachable
  BY Kinds DEF ReachInv, CloseInv, IInv, TypeOK, PlacesOK, TurnsOK, CleanupsOK
<1>. USE DEF Still, ClosePC, AfterDetach
<1>1. CASE Dispatch(r)
  BY <1>0, <1>1, StillReach DEF Dispatch, NilCall
<1>2. CASE SendReturns(r)
  BY <1>0, <1>2, StillReach DEF SendReturns, NilCall
<1>3. CASE SendFails(r)
  BY <1>0, <1>3, StillReach DEF SendFails, Cleanup, NoCleanup
<1>4. CASE SeeStop(r)
  BY <1>0, <1>4, StillReach DEF SeeStop
<1>5. CASE ReceiveEvent(r)
  BY <1>0, <1>5, StillReach DEF ReceiveEvent
<1>6. CASE EventText(r)
  BY <1>0, <1>6, StillReach DEF EventText
<1>7. CASE EventPermission(r)
  BY <1>0, <1>7, StillReach DEF EventPermission
<1>8. CASE ResultUnsent(r) \/ ResultSent(r)
  BY <1>0, <1>8, StillReach DEF ResultUnsent, ResultSent
<1>9. CASE ResultCompress(r)
  BY <1>0, <1>9, StillReach DEF ResultCompress
<1>10. CASE ResultNext(r)
  BY <1>0, <1>10, StillReach DEF ResultNext
<1>11. CASE SendNext(r)
  BY <1>0, <1>11, StillReach DEF SendNext, NilCall
<1>12. CASE ResultLast(r) \/ ReturnLast(r)
  BY <1>0, <1>12, StillReach DEF ResultLast, ReturnLast
<1>13. CASE EventError(r)
  BY <1>0, <1>13, StillReach DEF EventError
<1>14. CASE ChannelClosed(r) \/ IdleTimeout(r)
  BY <1>0, <1>14, StillReach DEF ChannelClosed, IdleTimeout, Cleanup
<1>15. CASE DrainEmpty(r) \/ Release(r)
  BY <1>0, <1>15, StillReach DEF DrainEmpty, Release, UnlockAndReturn
<1>16. CASE DrainNext(r)
  BY <1>0, <1>16, StillReach DEF DrainNext
<1>17. QED
  BY <1>1, <1>2, <1>3, <1>4, <1>5, <1>6, <1>7, <1>8, <1>9, <1>10, <1>11, <1>12, <1>13,
     <1>14, <1>15, <1>16 DEF RunTurn

\* So does a compression.
LEMMA CompressReach ==
  ASSUME ReachInv, NEW r \in Runner, Compress(r)
  PROVE  Detached' /\ AgentReachable'
<1>0. /\ r \in Request /\ Runner \subseteq Request /\ pc \in [Request -> PCs]
      /\ on \in [Request -> Agent \cup {None}] /\ tgt \in [Request -> State \cup {None}]
      /\ strict \in [Request -> BOOLEAN]
      /\ Detached /\ AgentReachable
  BY Kinds DEF ReachInv, CloseInv, IInv, TypeOK, PlacesOK, TurnsOK, CleanupsOK
<1>. USE DEF Still, ClosePC, AfterDetach, CompressEvent
<1>1. CASE RunCompress(r)
  BY <1>0, <1>1, StillReach DEF RunCompress, NilCall
<1>2. CASE CompressStopped(r)
  BY <1>0, <1>2, StillReach DEF CompressStopped
<1>3. CASE CompressBroken(r)
  BY <1>0, <1>3, StillReach DEF CompressBroken, Cleanup
<1>4. CASE CompressDrop(r)
  BY <1>0, <1>4, StillReach DEF CompressDrop
<1>5. CASE CompressEnds(r)
  BY <1>0, <1>5, StillReach DEF CompressEnds
<1>6. CASE CompressDies(r)
  BY <1>0, <1>6, StillReach DEF CompressDies, NilCall
<1>7. QED
  BY <1>1, <1>2, <1>3, <1>4, <1>5, <1>6 DEF Compress

\* A cleanup holds what it takes until it has closed it.  Its second section
\* empties the map of the state it took only: meanwhile nobody else holds the
\* Session, so nobody has started an agent.
LEMMA CleanUpReach ==
  ASSUME NewCmd = {}, ReachInv, NEW r \in Runner, CleanUp(r)
  PROVE  Detached' /\ AgentReachable'
<1>0. /\ r \in Request /\ Runner \subseteq Request /\ pc \in [Request -> PCs]
      /\ on \in [Request -> Agent \cup {None}] /\ tgt \in [Request -> State \cup {None}]
      /\ strict \in [Request -> BOOLEAN] /\ entry \in State \cup {None}
      /\ agentOf \in [State -> Agent \cup {None}]
      /\ life \in [Agent -> {"none", "up", "dead", "closed"}]
      /\ pc[r] \in CleanPC => ret[r] \in {"drain", "release", "cdrop"}
      /\ None \notin Agent /\ None \notin State
      /\ Detached /\ AgentReachable /\ LockInv
  BY Kinds DEF ReachInv, CloseInv, IInv, TypeOK, PlacesOK, TurnsOK, CleanupsOK, StatesOK,
     AgentsOK, PointersOK, Points
<1>. USE DEF ClosePC, AfterDetach, CleanPC
<1>1. CASE Detach(r)
  <2>0. pc[r] = "detach"
    BY <1>1 DEF Detach
  <2>1. ASSUME NEW c \in Runner \ {r} PROVE pc[c] \notin AfterDetach
    BY <1>0, <2>0, Solo DEF Holds, HoldPC
  <2>2. CASE pc' = [pc EXCEPT ![r] = ret[r]] /\ UNCHANGED <<agentOf, on, tgt>>
    BY <1>0, <1>1, <2>0, <2>2, StillReach DEF Detach, Still
  <2>3. CASE /\ entry = None /\ ~strict[r] /\ tgt' = [tgt EXCEPT ![r] = None]
             /\ pc' = [pc EXCEPT ![r] = "unmap"] /\ UNCHANGED <<agentOf, on>>
    <3>1. UNCHANGED <<entry, strict, life>>
      BY <1>1 DEF Detach
    <3>2. Detached'
      BY <1>0, <2>1, <2>3, <3>1 DEF Detached
    <3>3. AgentReachable'
      BY <1>0, <2>0, <2>3, <3>1 DEF AgentReachable, Closing
    <3>4. QED
      BY <3>2, <3>3
  <2>4. CASE /\ entry # None /\ tgt' = [tgt EXCEPT ![r] = entry]
             /\ on' = [on EXCEPT ![r] = agentOf[entry]]
             /\ agentOf' = [agentOf EXCEPT ![entry] = None]
             /\ pc' = [pc EXCEPT ![r] = "notify"]
    <3>1. UNCHANGED <<entry, strict, life>>
      BY <1>1 DEF Detach
    <3>2. Detached'
      BY <1>0, <2>1, <2>4, <3>1 DEF Detached
    <3>3. ASSUME NEW a \in Agent, life[a] = "up" PROVE \E c \in Request : Closing(c, a)'
      <4>1. CASE agentOf[entry] = a
        BY <1>0, <2>4, <4>1 DEF Closing
      <4>2. CASE agentOf[entry] # a
        <5>1. PICK c \in Request : Closing(c, a)
          BY <3>3, <4>2 DEF ReachInv, AgentReachable
        <5>2. Closing(c, a)'
          BY <1>0, <2>0, <2>4, <5>1 DEF Closing
        <5>3. QED
          BY <5>2
      <4>3. QED
        BY <4>1, <4>2
    <3>4. QED
      BY <3>1, <3>2, <3>3 DEF AgentReachable
  <2>5. QED
    BY <1>1, <2>2, <2>3, <2>4 DEF Detach
<1>2. CASE Notify(r)
  BY <1>0, <1>2, StillReach DEF Notify, Still
<1>3. CASE Close(r)
  BY <1>0, <1>3, StillReach DEF Close, CloseAgent, Still
<1>4. CASE Unmap(r)
  <2>1. /\ pc[r] = "unmap" /\ pc' = [pc EXCEPT ![r] = ret[r]] /\ ret[r] \notin AfterDetach
        /\ UNCHANGED <<agentOf, life, on, tgt, strict>>
        /\ entry' \in {entry, None}
    BY <1>0, <1>4 DEF Unmap
  <2>2. Detached'
    BY <1>0, <2>1 DEF Detached
  <2>3. entry' = entry \/ entry = None \/ agentOf[entry] = None
    BY <1>0, <1>4, <2>1 DEF Unmap, Detached
  <2>4. AgentReachable'
    BY <1>0, <2>1, <2>3 DEF AgentReachable, Closing
  <2>5. QED
    BY <2>2, <2>4
<1>5. QED
  BY <1>1, <1>2, <1>3, <1>4 DEF CleanUp

LEMMA CommandReach ==
  ASSUME ReachInv,
         \/ \E c \in CompressCmd : CmdCompress(c) \/ CompressTryLock(c)
         \/ \E c \in Answer : AnswerRead(c)
         \/ (\E a \in Agent : AgentDies(a) \/ AgentCloses(a)) \/ Cancel
         \/ (\E q \in State : LateSend(q))
  PROVE  Detached' /\ AgentReachable'
<1>0. /\ Runner \cup CompressCmd \cup Answer \subseteq Request /\ pc \in [Request -> PCs]
      /\ life \in [Agent -> {"none", "up", "dead", "closed"}] /\ Answer \cap Runner = {}
      /\ Detached /\ AgentReachable
  BY Kinds DEF ReachInv, CloseInv, IInv, TypeOK, PlacesOK, AgentsOK
<1>. USE DEF Still, ClosePC, AfterDetach
<1>1. CASE \E c \in CompressCmd : CmdCompress(c) \/ CompressTryLock(c)
  BY <1>0, <1>1, StillReach DEF CmdCompress, CompressTryLock
<1>2. CASE \E c \in Answer : AnswerRead(c)
  BY <1>0, <1>2, StillReach DEF AnswerRead
<1>3. CASE (\E a \in Agent : AgentDies(a) \/ AgentCloses(a)) \/ Cancel
         \/ (\E q \in State : LateSend(q))
  BY <1>0, <1>3, StillReach DEF AgentDies, AgentCloses, Cancel, LateSend
<1>4. QED
  BY <1>1, <1>2, <1>3

LEMMA WakeReach ==
  ASSUME ReachInv, NEW c \in StopCmd \cup Answer, StopResolve(c) \/ AnswerResolve(c)
  PROVE  Detached' /\ AgentReachable'
<1>0. /\ c \in Request /\ c \notin Runner /\ Runner \subseteq Request /\ PlacesOK
      /\ pc \in [Request -> PCs] /\ Detached /\ AgentReachable
  BY Kinds DEF ReachInv, CloseInv, IInv, TypeOK, PlacesOK
<1>1. /\ pc[c] \in {"resolve", "answer"}
      /\ UNCHANGED <<entry, agentOf, life, on, tgt, strict>>
      /\ \A q \in Request \ {c} : \/ pc'[q] = pc[q]
                                  \/ pc[q] = "perm" /\ pc'[q] = "events"
      /\ pc'[c] = IF pc[c] = "resolve" THEN "drop" ELSE "done"
  BY <1>0, Wakes DEF StopResolve, AnswerResolve
<1>2. Still
  BY <1>0, <1>1 DEF Still, ClosePC, AfterDetach
<1>3. QED
  BY <1>0, <1>2, StillReach

\* A /stop holds the agent of the state it has taken until it has closed it.
LEMMA StopReach ==
  ASSUME ReachInv, NEW c \in StopCmd, CmdStop(c) \/ StopDrop(c) \/ StopClose(c)
  PROVE  Detached' /\ AgentReachable'
<1>0. /\ c \in Request /\ c \notin Runner /\ Runner \subseteq Request
      /\ pc \in [Request -> PCs] /\ on \in [Request -> Agent \cup {None}]
      /\ life \in [Agent -> {"none", "up", "dead", "closed"}]
      /\ None \notin Agent /\ Detached /\ AgentReachable
  BY Kinds DEF ReachInv, CloseInv, IInv, TypeOK, PlacesOK, TurnsOK, AgentsOK
<1>. USE DEF ClosePC, AfterDetach
<1>1. CASE CmdStop(c)
  <2>1. CASE entry = None
    BY <1>0, <1>1, <2>1, StillReach DEF CmdStop, Still
  <2>2. CASE entry # None
    <3>1. /\ pc[c] = "idle" /\ pc' = [pc EXCEPT ![c] = "resolve"] /\ entry' = None
          /\ on' = [on EXCEPT ![c] = agentOf[entry]]
          /\ UNCHANGED <<agentOf, life, strict>>
          /\ tgt' = [tgt EXCEPT ![c] = entry]
      BY <1>1, <2>2 DEF CmdStop
    <3>2. Detached'
      BY <1>0, <3>1 DEF Detached
    <3>3. ASSUME NEW a \in Agent, life[a] = "up" PROVE \E d \in Request : Closing(d, a)'
      <4>1. CASE agentOf[entry] = a
        BY <1>0, <3>1, <4>1 DEF Closing
      <4>2. CASE agentOf[entry] # a
        <5>1. PICK d \in Request : Closing(d, a)
          BY <3>3, <4>2 DEF ReachInv, AgentReachable
        <5>2. Closing(d, a)'
          BY <1>0, <3>1, <5>1 DEF Closing
        <5>3. QED
          BY <5>2
      <4>3. QED
        BY <4>1, <4>2
    <3>4. QED
      BY <3>1, <3>2, <3>3 DEF AgentReachable
  <2>3. QED
    BY <2>1, <2>2
<1>2. CASE StopDrop(c)
  BY <1>0, <1>2, StillReach DEF StopDrop, Still
<1>3. CASE StopClose(c)
  BY <1>0, <1>3, StillReach DEF StopClose, CloseAgent, Still
<1>4. QED
  BY <1>1, <1>2, <1>3

\* Engine.Stop closes the agent of the entry that it removes.
LEMMA SweepReach == ASSUME ReachInv, Sweep  PROVE Detached' /\ AgentReachable'
<1>0. /\ agentOf \in [State -> Agent \cup {None}] /\ entry \in State \cup {None}
      /\ life \in [Agent -> {"none", "up", "dead", "closed"}] /\ Detached /\ AgentReachable
  BY DEF ReachInv, CloseInv, IInv, TypeOK, StatesOK, AgentsOK
<1>1. entry' = None /\ UNCHANGED <<pc, agentOf, on, tgt, strict>>
  BY DEF Sweep
<1>2. Detached'
  BY <1>0, <1>1 DEF Detached
<1>3. \A a \in Agent : life'[a] = "up" => life[a] = "up" /\ ~(entry # None /\ agentOf[entry] = a)
  BY <1>0, Kinds DEF Sweep, CloseAgent
<1>4. QED
  BY <1>0, <1>1, <1>2, <1>3 DEF AgentReachable, Closing

\* Every step keeps the invariant.
LEMMA NextReach ==
  ASSUME NewCmd = {}, ~AutoCompress, ReachInv, [Next]_vars  PROVE ReachInv'
<1>1. CloseInv' /\ LockInv'
  BY NextClose, NextLock DEF ReachInv
<1>2. UNCHANGED vars => Detached' /\ AgentReachable'
  BY DEF vars, ReachInv, Detached, AgentReachable, Closing
<1>3. ASSUME Next PROVE Detached' /\ AgentReachable'
  BY <1>3, HandleMessageReach, StartTurnReach, RunTurnReach, CompressReach, CleanUpReach,
     CommandReach, WakeReach, StopReach, SweepReach DEF Next
<1>4. QED
  BY <1>1, <1>2, <1>3 DEF ReachInv

\* AgentReachable, without /new and auto-compress: a live agent is the entry's, or
\* some goroutine will close it.  With /new the property fails (new_orphans.cfg),
\* since the cleanup of the old Session and a turn of the new one do not exclude
\* each other; with auto-compress the lock is given back twice.
THEOREM Reachable ==
  ASSUME NewCmd = {}, ~AutoCompress  PROVE Spec => []AgentReachable
<1>1. ReachInv /\ [Next]_vars => ReachInv'
  BY NextReach
<1>2. Init => Detached /\ AgentReachable
  BY Kinds DEF Init, Detached, AgentReachable, AfterDetach
<1>3. Init => ReachInv
  BY <1>2, InitClose, InitLock DEF ReachInv
<1>4. ReachInv => AgentReachable
  BY DEF ReachInv
<1>5. QED
  BY <1>1, <1>3, <1>4, PTL DEF Spec

-----------------------------------------------------------------------------
(* The agent a turn works with *)

\* Where a goroutine will call a method of its state's agent.
UsePC == {"send", "events", "event", "perm", "result", "next", "last"}
CompressPC == {"compress", "cwait"}

HasAgent == \A r \in Runner : pc[r] \in UsePC => agentOf[mine[r]] # None

\* The inductive invariant of NoNilCall.
NilInv == IInv /\ LockInv /\ HasAgent /\ \A r \in Runner : pc[r] \notin CompressPC

\* A step that takes no agent away, and leads to a use only of a state with one.
UsesAgent ==
  /\ \A q \in State : agentOf[q] # None => agentOf'[q] # None
  /\ \A r \in Runner : pc'[r] \in UsePC =>
       \/ pc[r] \in UsePC /\ mine'[r] = mine[r] /\ mine[r] \in State
       \/ agentOf'[mine'[r]] # None
  /\ \A r \in Runner : pc'[r] \in CompressPC => pc[r] \in CompressPC

\* Such steps leave every turn the agent it will call.
LEMMA NoNil ==
  ASSUME NilInv, UsesAgent
  PROVE  HasAgent' /\ \A r \in Runner : pc'[r] \notin CompressPC
  BY DEF NilInv, UsesAgent, HasAgent

LEMMA HandleMessageUse ==
  ASSUME NilInv, NEW m \in Msg, HandleMessage(m)  PROVE UsesAgent
<1>0. /\ m \in Request /\ Runner \subseteq Request /\ pc \in [Request -> PCs]
      /\ mine \in [Request -> State \cup {None}]
      /\ \A r \in Runner : pc[r] \in MinePC => mine[r] \in State
  BY Kinds DEF NilInv, IInv, TypeOK, PlacesOK, TurnsOK, PointersOK, Points
<1>. USE DEF UsesAgent, UsePC, CompressPC, MinePC
<1>1. CASE HintPending(m)
  BY <1>0, <1>1 DEF HintPending
<1>2. CASE Arrive(m)
  BY <1>0, <1>2 DEF Arrive
<1>3. CASE TryLock(m)
  BY <1>0, <1>3 DEF TryLock
<1>4. CASE QueueMessage(m)
  BY <1>0, <1>4 DEF QueueMessage
<1>5. CASE RetryLock(m)
  BY <1>0, <1>5 DEF RetryLock
<1>6. CASE DrainOrphaned(m)
  BY <1>0, <1>6 DEF DrainOrphaned
<1>7. CASE EnsureSlot(m)
  BY <1>0, <1>7 DEF EnsureSlot
<1>8. QED
  BY <1>1, <1>2, <1>3, <1>4, <1>5, <1>6, <1>7 DEF HandleMessage

\* A turn is sent only to a state that has an agent.
LEMMA StartTurnUse ==
  ASSUME NilInv, NEW m \in Msg, StartTurn(m)  PROVE UsesAgent
<1>0. /\ m \in Request /\ Runner \subseteq Request /\ pc \in [Request -> PCs]
      /\ mine \in [Request -> State \cup {None}]
      /\ \A r \in Runner : pc[r] \in MinePC => mine[r] \in State
      /\ agentOf \in [State -> Agent \cup {None}] /\ m # None
  BY Kinds DEF NilInv, IInv, TypeOK, PlacesOK, TurnsOK, StatesOK, PointersOK, Points
<1>. USE DEF UsesAgent, UsePC, CompressPC, MinePC
<1>1. CASE Abandon(m)
  BY <1>0, <1>1 DEF Abandon
<1>2. CASE Reuse(m)
  BY <1>0, <1>2 DEF Reuse
<1>3. CASE StartAgent(m)
  BY <1>0, <1>3 DEF StartAgent, Install
<1>4. CASE StartFails(m)
  BY <1>0, <1>4 DEF StartFails, Install
<1>5. CASE Ready(m)
  BY <1>0, <1>5 DEF Ready
<1>6. QED
  BY <1>1, <1>2, <1>3, <1>4, <1>5 DEF StartTurn

\* The next message of the same event loop meets the agent of the last one, and
\* the drain loop looks before it starts a turn.
LEMMA RunTurnUse ==
  ASSUME ~AutoCompress, NilInv, NEW r \in Runner, RunTurn(r)  PROVE UsesAgent
<1>0. /\ r \in Request /\ Runner \subseteq Request /\ pc \in [Request -> PCs]
      /\ \A c \in Runner : pc[c] \in MinePC => mine[c] \in State
      /\ pc[r] \in UsePC => ~NilCall(r)
      /\ pc[r] \in CleanPC => ret[r] \in {"drain", "release", "cdrop"}
  BY Kinds DEF NilInv, IInv, TypeOK, PlacesOK, PointersOK, Points, NilCall, HasAgent
<1>. USE DEF UsesAgent, UsePC, CompressPC, MinePC
<1>1. CASE Dispatch(r)
  BY <1>0, <1>1 DEF Dispatch
<1>2. CASE SendReturns(r)
  BY <1>0, <1>2 DEF SendReturns
<1>3. CASE SendFails(r)
  BY <1>0, <1>3 DEF SendFails, Cleanup
<1>4. CASE SeeStop(r)
  BY <1>0, <1>4 DEF SeeStop
<1>5. CASE ReceiveEvent(r)
  BY <1>0, <1>5 DEF ReceiveEvent
<1>6. CASE EventText(r)
  BY <1>0, <1>6 DEF EventText
<1>7. CASE EventPermission(r)
  BY <1>0, <1>7 DEF EventPermission
<1>8. CASE ResultUnsent(r) \/ ResultSent(r)
  BY <1>0, <1>8 DEF ResultUnsent, ResultSent
<1>9. CASE ResultNext(r)
  BY <1>0, <1>9 DEF ResultNext
<1>10. CASE SendNext(r)
  BY <1>0, <1>10 DEF SendNext
<1>11. CASE ResultLast(r) \/ ReturnLast(r)
  BY <1>0, <1>11 DEF ResultLast, ReturnLast
<1>12. CASE EventError(r)
  BY <1>0, <1>12 DEF EventError
<1>13. CASE ChannelClosed(r) \/ IdleTimeout(r)
  BY <1>0, <1>13 DEF ChannelClosed, IdleTimeout, Cleanup
<1>14. CASE DrainEmpty(r) \/ Release(r)
  BY <1>0, <1>14 DEF DrainEmpty, Release, UnlockAndReturn
<1>15. CASE DrainNext(r)
  BY <1>0, <1>15 DEF DrainNext, Usable
<1>16. ~ResultCompress(r)
  BY DEF ResultCompress
<1>17. QED
  BY <1>1, <1>2, <1>3, <1>4, <1>5, <1>6, <1>7, <1>8, <1>9, <1>10, <1>11, <1>12, <1>13,
     <1>14, <1>15, <1>16 DEF RunTurn

\* The only step that takes an agent away is made by a holder that uses none.
LEMMA CleanUpUse ==
  ASSUME NewCmd = {}, NilInv, NEW r \in Runner, CleanUp(r)
  PROVE  HasAgent' /\ \A c \in Runner : pc'[c] \notin CompressPC
<1>0. /\ r \in Request /\ Runner \subseteq Request /\ pc \in [Request -> PCs]
      /\ \A c \in Runner : pc[c] \in MinePC => mine[c] \in State
      /\ pc[r] \in CleanPC => ret[r] \in {"drain", "release", "cdrop"}
      /\ LockInv /\ HasAgent /\ \A c \in Runner : pc[c] \notin CompressPC
  BY Kinds DEF NilInv, IInv, TypeOK, PlacesOK, PointersOK, Points
<1>1. /\ pc[r] \in CleanPC /\ pc' = [pc EXCEPT ![r] = pc'[r]]
      /\ pc'[r] \in {"notify", "close", "unmap", "drain", "release", "cdrop"}
      /\ UNCHANGED mine
  BY <1>0 DEF CleanUp, Detach, Notify, Close, Unmap, CleanPC
<1>2. ASSUME NEW c \in Runner \ {r} PROVE pc[c] \notin UsePC
  BY <1>0, <1>1, Solo DEF Holds, HoldPC, CleanPC, UsePC
<1>3. HasAgent'
  BY <1>0, <1>1, <1>2 DEF HasAgent, UsePC
<1>4. QED
  BY <1>0, <1>1, <1>3 DEF CompressPC

LEMMA OtherUse ==
  ASSUME NilInv,
         \/ \E c \in StopCmd : CmdStop(c) \/ StopDrop(c) \/ StopClose(c)
         \/ \E c \in Answer : AnswerRead(c)
         \/ (\E a \in Agent : AgentDies(a) \/ AgentCloses(a)) \/ Cancel \/ Sweep
         \/ (\E q \in State : LateSend(q))
  PROVE  UsesAgent
<1>0. /\ Runner \cup StopCmd \cup Answer \subseteq Request /\ pc \in [Request -> PCs]
      /\ Runner \cap (StopCmd \cup Answer) = {}
      /\ \A c \in Runner : pc[c] \in MinePC => mine[c] \in State
  BY Kinds DEF NilInv, IInv, TypeOK, PlacesOK, PointersOK, Points
<1>. USE DEF UsesAgent, UsePC, CompressPC, MinePC
<1>1. CASE \E c \in StopCmd : CmdStop(c) \/ StopDrop(c) \/ StopClose(c)
  BY <1>0, <1>1 DEF CmdStop, StopDrop, StopClose
<1>2. CASE \E c \in Answer : AnswerRead(c)
  BY <1>0, <1>2 DEF AnswerRead
<1>3. CASE (\E a \in Agent : AgentDies(a) \/ AgentCloses(a)) \/ Cancel \/ Sweep
         \/ (\E q \in State : LateSend(q))
  BY <1>0, <1>3 DEF AgentDies, AgentCloses, Cancel, Sweep, LateSend
<1>4. QED
  BY <1>1, <1>2, <1>3

\* Who wakes a turn leaves it its agent.
LEMMA WakeUse ==
  ASSUME NilInv, NEW c \in StopCmd \cup Answer, StopResolve(c) \/ AnswerResolve(c)
  PROVE  UsesAgent
<1>0. /\ c \in Request /\ c \notin Runner /\ Runner \subseteq Request /\ PlacesOK
      /\ pc \in [Request -> PCs]
      /\ \A r \in Runner : pc[r] \in MinePC => mine[r] \in State
  BY Kinds DEF NilInv, IInv, TypeOK, PlacesOK, PointersOK, Points
<1>1. /\ UNCHANGED <<agentOf, mine>>
      /\ \A q \in Request \ {c} : \/ pc'[q] = pc[q]
                                  \/ pc[q] = "perm" /\ pc'[q] = "events"
  BY <1>0, Wakes DEF StopResolve, AnswerResolve
<1>2. QED
  BY <1>0, <1>1 DEF UsesAgent, UsePC, CompressPC, MinePC

\* Every step keeps the invariant.
LEMMA NextNil ==
  ASSUME NewCmd = {}, CompressCmd = {}, ~AutoCompress, NilInv, [Next]_vars
  PROVE  NilInv'
<1>1. IInv' /\ LockInv'
  BY NextTypes, NextLock DEF NilInv
<1>2. UNCHANGED vars =>
        HasAgent' /\ \A r \in Runner : pc'[r] \notin CompressPC
  BY DEF vars, NilInv, HasAgent
<1>3. ASSUME NEW r \in Runner, Compress(r) PROVE UsesAgent
  <2>1. CompressDrop(r)
    BY <1>3 DEF Compress, RunCompress, CompressStopped, CompressBroken, CompressEnds,
       CompressDies, CompressEvent, NilInv, CompressPC
  <2>2. /\ pc' = [pc EXCEPT ![r] = "release"] /\ UNCHANGED <<agentOf, mine>>
        /\ pc \in [Request -> PCs] /\ r \in Request /\ Runner \subseteq Request
        /\ \A c \in Runner : pc[c] \in MinePC => mine[c] \in State
    BY <2>1, Kinds DEF CompressDrop, NilInv, IInv, TypeOK, PlacesOK, PointersOK, Points
  <2>3. QED
    BY <2>2 DEF UsesAgent, UsePC, CompressPC, MinePC
<1>4. ASSUME Next
      PROVE  HasAgent' /\ \A r \in Runner : pc'[r] \notin CompressPC
  BY <1>3, <1>4, NoNil, HandleMessageUse, StartTurnUse, RunTurnUse, CleanUpUse, OtherUse,
     WakeUse DEF Next
<1>5. QED
  BY <1>1, <1>2, <1>4 DEF NilInv

\* NoNilCall, without /new, /compress and auto-compress: while a turn lasts, neither
\* it nor its Send calls a method of an agent that a cleanup has taken away, since
\* the cleanups are made by the goroutine that holds the Session.  With a
\* compression it fails (compress_nil.cfg), and it says nothing of the Send that
\* a turn leaves behind, which does call a nil agent (LateSend).
THEOREM NeverNil ==
  ASSUME NewCmd = {}, CompressCmd = {}, ~AutoCompress  PROVE Spec => []NoNilCall
<1>1. NilInv /\ [Next]_vars => NilInv'
  BY NextNil
<1>2. Init => HasAgent /\ \A r \in Runner : pc[r] \notin CompressPC
  BY Kinds DEF Init, HasAgent, UsePC, CompressPC
<1>3. Init => NilInv
  BY <1>2, InitTypes, InitLock DEF NilInv
<1>4. NilInv => NoNilCall
  BY DEF NilInv, HasAgent, NoNilCall, CallsAgent, UsePC, CompressPC
<1>5. QED
  BY <1>1, <1>3, <1>4, PTL DEF Spec

-----------------------------------------------------------------------------
(* The permission requests *)

\* At most one answer comes.
OneAnswer == \A c1, c2 \in Answer : c1 = c2

\* A pending request is the last one of a turn that waits for it.
PendingAsked == \A q \in State, r \in Runner, k \in 1 .. MaxAsks :
  pending[q] = <<r, k>> => pc[r] = "perm" /\ asks[r] = k /\ mine[r] = q

\* Who resolves a request works on the state of the turn that waits for it.
GripAsked == \A c \in Request, r \in Runner, k \in 1 .. MaxAsks :
  pc[c] \in {"answer", "resolve"} /\ grip[c] = <<r, k>> =>
    /\ k <= asks[r]
    /\ pc[r] = "perm" /\ asks[r] = k => mine[r] = tgt[c]

\* A /stop has taken its request from the state.
StopTook == \A c \in Request :
  pc[c] = "resolve" /\ grip[c] # None => pending[tgt[c]] # grip[c]

\* An answer whose request is no longer pending comes after a /stop: no turn of
\* that state can ask again.
AnswerLate == \A c \in Answer : pc[c] = "answer" =>
  /\ grip[c] # None
  /\ pending[tgt[c]] # grip[c] =>
       /\ stopped[tgt[c]] /\ pending[tgt[c]] = None
       /\ \A r \in Runner : mine[r] = tgt[c] =>
            pc[r] # "event" /\ (pc[r] = "perm" => grip[c] = <<r, asks[r]>>)

AskedSome == \A r \in Runner : pc[r] = "perm" => asks[r] # 0

PermParts == AskedSome /\ PendingAsked /\ GripAsked /\ StopTook /\ AnswerLate /\ PermissionHeld

\* The inductive invariant of PermissionHeld.
PermInv == IInv /\ LockInv /\ PermParts

\* What the proofs need of the types.
PermTypes == /\ pc \in [Request -> PCs]
             /\ pending \in [State -> Perm \cup {None}]
             /\ grip \in [Request -> Perm \cup {None}]
             /\ asks \in [Request -> 0 .. MaxAsks]
             /\ Runner \subseteq Request /\ None \notin Perm /\ MaxAsks \in Nat
             /\ \A r \in Runner : pc[r] \in MinePC => mine[r] \in State
             /\ \A c \in Request : pc[c] \in TgtPC => tgt[c] \in State

LEMMA PermTyped == PermInv => PermTypes
  BY Kinds, Disjoint, Bounds DEF PermInv, IInv, TypeOK, PlacesOK, StatesOK, TurnsOK,
     PointersOK, Points, PermTypes

\* A step that asks, takes and resolves nothing.
AsksNothing ==
  /\ pending' = pending /\ asks' = asks
  /\ \A c \in Request : pc[c] \in {"answer", "resolve"} \/ pc'[c] \in {"answer", "resolve"} =>
       pc'[c] = pc[c] /\ grip'[c] = grip[c] /\ tgt'[c] = tgt[c]
  /\ \A r \in Runner : pc[r] = "perm" \/ pc'[r] = "perm" =>
       pc'[r] = pc[r] /\ mine'[r] = mine[r]
  /\ \A q \in State : stopped[q] => stopped'[q]
  /\ \A r \in Runner : pc'[r] = "event" =>
       mine'[r] = mine[r] /\ (pc[r] = "event" \/ ~stopped[mine[r]])

\* Such steps leave every request with who will resolve it.
LEMMA AskedKept == ASSUME PermInv, AsksNothing PROVE PermParts'
<1>0. PermTypes /\ PermParts
  BY PermTyped DEF PermInv
<1>1. PendingAsked'
  BY <1>0 DEF PermParts, PendingAsked, AsksNothing
<1>2. GripAsked'
  BY <1>0 DEF PermTypes, PermParts, GripAsked, AsksNothing
<1>3. StopTook'
  BY <1>0 DEF PermParts, StopTook, AsksNothing
<1>4. AnswerLate'
  <2>1. ASSUME NEW c \in Answer, pc'[c] = "answer"
        PROVE  /\ grip'[c] # None
               /\ pending'[tgt'[c]] # grip'[c] =>
                    /\ stopped'[tgt'[c]] /\ pending'[tgt'[c]] = None
                    /\ \A r \in Runner : mine'[r] = tgt'[c] =>
                         pc'[r] # "event" /\ (pc'[r] = "perm" => grip'[c] = <<r, asks'[r]>>)
    <3>1. /\ c \in Request /\ pc[c] = "answer" /\ grip'[c] = grip[c] /\ tgt'[c] = tgt[c]
          /\ tgt[c] \in State
      BY <1>0, <2>1 DEF AsksNothing, PermTypes, TgtPC, Request
    <3>2. QED
      BY <1>0, <3>1 DEF PermParts, AnswerLate, AsksNothing
  <2>2. QED
    BY <2>1 DEF AnswerLate
<1>5. PermissionHeld'
  <2>1. ASSUME NEW r \in Runner, pc'[r] = "perm"
        PROVE  \/ pending'[mine'[r]] = <<r, asks'[r]>>
               \/ \E c \in Request : pc'[c] \in {"answer", "resolve"} /\ grip'[c] = <<r, asks'[r]>>
    <3>1. pc[r] = "perm" /\ mine'[r] = mine[r] /\ pending' = pending /\ asks' = asks
      BY <2>1 DEF AsksNothing
    <3>2. CASE \E c \in Request : pc[c] \in {"answer", "resolve"} /\ grip[c] = <<r, asks[r]>>
      BY <3>1, <3>2 DEF AsksNothing
    <3>3. QED
      BY <1>0, <3>1, <3>2 DEF PermParts, PermissionHeld
  <2>2. QED
    BY <2>1 DEF PermissionHeld
<1>6. AskedSome'
  BY <1>0 DEF PermParts, AskedSome, AsksNothing
<1>7. QED
  BY <1>1, <1>2, <1>3, <1>4, <1>5, <1>6 DEF PermParts

\* resolve(), precisely.
LEMMA WokenIs ==
  ASSUME PermTypes, NEW g \in Perm \cup {None}, NEW q \in Request
  PROVE  Woken(g)[q] = IF /\ g # None /\ q = g[1] /\ pc[q] = "perm" /\ asks[q] = g[2]
                       THEN "events" ELSE pc[q]
  BY DEF PermTypes, Woken, Perm

\* A new request is pending on the state of its turn.  No late answer is under
\* way to clear it: that would have been preceded by a /stop, and a stopped
\* turn asks nothing.
LEMMA AsksOne ==
  ASSUME NewCmd = {}, PermInv, NEW r \in Runner, EventPermission(r)  PROVE PermParts'
<1>0. PermTypes /\ PermParts
  BY PermTyped DEF PermInv
<1> DEFINE k0 == asks[r] + 1
<1>1. /\ r \in Request /\ mine[r] \in State /\ k0 \in 1 .. MaxAsks /\ pc[r] = "event"
      /\ pc' = [pc EXCEPT ![r] = "perm"] /\ asks' = [asks EXCEPT ![r] = k0]
      /\ pending' = [pending EXCEPT ![mine[r]] = <<r, k0>>]
      /\ UNCHANGED <<mine, grip, tgt, stopped>>
  BY <1>0 DEF EventPermission, PermTypes, MinePC
<1>2. /\ asks'[r] = k0 /\ pc'[r] = "perm" /\ pending'[mine[r]] = <<r, k0>>
      /\ \A c \in Request : c # r => asks'[c] = asks[c] /\ pc'[c] = pc[c]
      /\ \A q \in State : q # mine[r] => pending'[q] = pending[q]
  BY <1>0, <1>1 DEF PermTypes
<1>3. \A c \in Runner : pc[c] \notin {"perm"}
  BY <1>1, Solo DEF PermInv, Holds, HoldPC
<1>4. PendingAsked'
  <2>1. ASSUME NEW q \in State, NEW c \in Runner, NEW k \in 1 .. MaxAsks,
               pending'[q] = <<c, k>>
        PROVE  pc'[c] = "perm" /\ asks'[c] = k /\ mine'[c] = q
    BY <1>0, <1>1, <1>2, <1>3, <2>1 DEF PermParts, PendingAsked
  <2>2. QED
    BY <2>1 DEF PendingAsked
<1>5. GripAsked'
  <2>1. ASSUME NEW c \in Request, NEW d \in Runner, NEW k \in 1 .. MaxAsks,
               pc'[c] \in {"answer", "resolve"}, grip'[c] = <<d, k>>
        PROVE  k <= asks'[d] /\ ~(pc'[d] = "perm" /\ asks'[d] = k)
    <3>1. d \in Request /\ c # r /\ k <= asks[d] /\ asks[d] \in Nat
      BY <1>0, <1>1, <1>2, <2>1 DEF PermTypes, PermParts, GripAsked
    <3>2. QED
      BY <1>1, <1>2, <1>3, <3>1
  <2>2. QED
    BY <2>1 DEF GripAsked
<1>6. StopTook'
  <2>1. ASSUME NEW c \in Request, pc'[c] = "resolve", grip[c] # None
        PROVE  pending'[tgt[c]] # grip[c]
    <3>1. c # r /\ pc[c] = "resolve" /\ tgt[c] \in State /\ grip[c] \in Perm
      BY <1>0, <1>1, <1>2, <2>1 DEF PermTypes, TgtPC
    <3>2. grip[c] # <<r, k0>>
      <4>1. ASSUME grip[c] = <<r, k0>> PROVE FALSE
        <5>1. k0 <= asks[r]
          BY <1>0, <1>1, <3>1, <4>1 DEF PermParts, GripAsked
        <5>2. QED
          BY <1>0, <1>1, <5>1 DEF PermTypes
      <4>2. QED
        BY <4>1
    <3>3. pending[tgt[c]] # grip[c]
      BY <1>0, <2>1, <3>1 DEF PermParts, StopTook
    <3>4. QED
      BY <1>2, <3>1, <3>2, <3>3
  <2>2. QED
    BY <1>1, <2>1 DEF StopTook
<1>7. AnswerLate'
  <2>1. ASSUME NEW c \in Answer, pc'[c] = "answer"
        PROVE  /\ grip[c] # None /\ pc[c] = "answer" /\ tgt[c] # mine[r] /\ tgt[c] \in State
    <3>1. c \in Request /\ c # r /\ pc[c] = "answer" /\ tgt[c] \in State /\ grip[c] # None
      BY <1>0, <1>1, <1>2, <2>1 DEF PermTypes, TgtPC, PermParts, AnswerLate, Request
    <3>2. ASSUME tgt[c] = mine[r] PROVE FALSE
      <4>1. pending[tgt[c]] = grip[c]
        BY <1>0, <1>1, <3>1, <3>2 DEF PermParts, AnswerLate
      <4>2. PICK d \in Runner, k \in 1 .. MaxAsks : pending[tgt[c]] = <<d, k>>
        BY <1>0, <3>1, <4>1 DEF PermTypes, Perm
      <4>3. pc[d] = "perm"
        BY <1>0, <3>1, <4>2 DEF PermParts, PendingAsked
      <4>4. QED
        BY <1>3, <4>3
    <3>3. QED
      BY <3>1, <3>2
  <2>2. QED
    BY <1>0, <1>1, <1>2, <2>1 DEF PermParts, AnswerLate, PermTypes
<1>8. PermissionHeld'
  BY <1>1, <1>2, <1>3, <1>0 DEF PermissionHeld, PermTypes
<1>9. AskedSome'
  BY <1>0, <1>1, <1>2 DEF PermParts, AskedSome, PermTypes
<1>10. QED
  BY <1>4, <1>5, <1>6, <1>7, <1>8, <1>9 DEF PermParts

\* A /stop resolves the request it has taken, and no other.
LEMMA StopResolves ==
  ASSUME PermInv, NEW c \in StopCmd, StopResolve(c)  PROVE PermParts'
<1>0. PermTypes /\ PermParts
  BY PermTyped DEF PermInv
<1>1. /\ c \in Request \ Runner /\ pc[c] = "resolve" /\ c \notin Answer
      /\ grip[c] \in Perm \cup {None}
      /\ UNCHANGED <<pending, asks, mine, grip, tgt, stopped>>
  BY <1>0, Kinds, Disjoint DEF StopResolve, PermTypes
<1>2. pc' = [Woken(grip[c]) EXCEPT ![c] = "drop"] /\ Woken(grip[c]) \in [Request -> PCs]
  BY <1>0, Wakes DEF StopResolve, PermInv, IInv, TypeOK
<1>3. /\ pc'[c] = "drop"
      /\ \A q \in Request \ {c} :
           pc'[q] = IF /\ grip[c] # None /\ q = grip[c][1] /\ pc[q] = "perm"
                       /\ asks[q] = grip[c][2]
                    THEN "events" ELSE pc[q]
  BY <1>0, <1>1, <1>2, WokenIs
<1>4. PendingAsked'
  <2>1. ASSUME NEW q \in State, NEW r \in Runner, NEW k \in 1 .. MaxAsks, pending[q] = <<r, k>>
        PROVE  pc'[r] = "perm" /\ asks[r] = k /\ mine[r] = q
    <3>1. pc[r] = "perm" /\ asks[r] = k /\ mine[r] = q /\ r \in Request \ {c}
      BY <1>0, <1>1, <2>1 DEF PermParts, PendingAsked, PermTypes
    <3>2. ASSUME grip[c] # None, r = grip[c][1], asks[r] = grip[c][2] PROVE FALSE
      <4>1. grip[c] = <<r, k>>
        BY <1>1, <3>1, <3>2 DEF Perm
      <4>2. mine[r] = tgt[c]
        BY <1>0, <1>1, <3>1, <4>1 DEF PermParts, GripAsked
      <4>3. QED
        BY <1>0, <1>1, <2>1, <3>1, <3>2, <4>1, <4>2 DEF PermParts, StopTook
    <3>3. QED
      BY <1>3, <3>1, <3>2
  <2>2. QED
    BY <1>1, <2>1 DEF PendingAsked
<1>5. GripAsked'
  BY <1>0, <1>1, <1>3 DEF PermParts, GripAsked, PermTypes
<1>6. StopTook'
  BY <1>0, <1>1, <1>3 DEF PermParts, StopTook
<1>7. AnswerLate'
  <2>1. \A d \in Answer : pc'[d] = "answer" => pc[d] = "answer"
    BY <1>1, <1>3 DEF Request
  <2>2. \A r \in Runner : pc'[r] \in {"event", "perm"} => pc'[r] = pc[r]
    BY <1>0, <1>1, <1>3 DEF PermTypes
  <2>3. QED
    BY <1>0, <1>1, <2>1, <2>2 DEF PermParts, AnswerLate
<1>8. PermissionHeld'
  <2>1. ASSUME NEW r \in Runner, pc'[r] = "perm"
        PROVE  \/ pending[mine[r]] = <<r, asks[r]>>
               \/ \E d \in Request : pc'[d] \in {"answer", "resolve"} /\ grip[d] = <<r, asks[r]>>
    <3>1. pc[r] = "perm" /\ r \in Request \ {c} /\ grip[c] # <<r, asks[r]>>
      <4>1. pc[r] = "perm" /\ r \in Request \ {c}
        BY <1>0, <1>1, <1>3, <2>1 DEF PermTypes
      <4>2. <<r, asks[r]>> \in Perm
        BY <1>0, <4>1 DEF PermParts, AskedSome, PermTypes, Perm
      <4>3. ASSUME grip[c] = <<r, asks[r]>> PROVE FALSE
        <5>1. grip[c] # None /\ r = grip[c][1] /\ asks[r] = grip[c][2]
          BY <1>0, <4>2, <4>3 DEF PermTypes
        <5>2. QED
          BY <1>3, <2>1, <4>1, <5>1
      <4>4. QED
        BY <4>1, <4>3
    <3>2. CASE pending[mine[r]] = <<r, asks[r]>>
      BY <3>2
    <3>3. CASE \E d \in Request : pc[d] \in {"answer", "resolve"} /\ grip[d] = <<r, asks[r]>>
      BY <1>3, <3>1, <3>3
    <3>4. QED
      BY <1>0, <3>1, <3>2, <3>3 DEF PermParts, PermissionHeld
  <2>2. QED
    BY <1>1, <2>1 DEF PermissionHeld
<1>9. AskedSome'
  BY <1>0, <1>1, <1>3 DEF PermParts, AskedSome, PermTypes
<1>10. QED
  BY <1>4, <1>5, <1>6, <1>7, <1>8, <1>9 DEF PermParts

\* An answer clears the request it has read: if that is no longer pending,
\* none is.
LEMMA AnswerResolves ==
  ASSUME OneAnswer, PermInv, NEW c \in Answer, AnswerResolve(c)  PROVE PermParts'
<1>0. PermTypes /\ PermParts
  BY PermTyped DEF PermInv
<1>1. /\ c \in Request \ Runner /\ pc[c] = "answer" /\ tgt[c] \in State
      /\ grip[c] \in Perm /\ pending' = [pending EXCEPT ![tgt[c]] = None]
      /\ UNCHANGED <<asks, mine, grip, tgt, stopped>>
  BY <1>0, Kinds DEF AnswerResolve, PermTypes, TgtPC, PermParts, AnswerLate
<1>2. pc' = [Woken(grip[c]) EXCEPT ![c] = "done"] /\ Woken(grip[c]) \in [Request -> PCs]
  BY <1>0, Wakes DEF AnswerResolve, PermInv, IInv, TypeOK
<1>3. /\ pc'[c] = "done"
      /\ \A q \in Request \ {c} :
           pc'[q] = IF q = grip[c][1] /\ pc[q] = "perm" /\ asks[q] = grip[c][2]
                    THEN "events" ELSE pc[q]
      /\ \A q \in State : pending'[q] = IF q = tgt[c] THEN None ELSE pending[q]
  BY <1>0, <1>1, <1>2, WokenIs DEF PermTypes
<1>4. PendingAsked'
  <2>1. ASSUME NEW q \in State, NEW r \in Runner, NEW k \in 1 .. MaxAsks, pending'[q] = <<r, k>>
        PROVE  pc'[r] = "perm" /\ asks[r] = k /\ mine[r] = q
    <3>0. q # tgt[c] /\ pending[q] = <<r, k>>
      <4>1. <<r, k>> \in Perm
        BY DEF Perm
      <4>2. QED
        BY <1>0, <1>3, <2>1, <4>1 DEF PermTypes
    <3>1. pc[r] = "perm" /\ asks[r] = k /\ mine[r] = q /\ r \in Request \ {c}
      BY <1>0, <1>1, <3>0 DEF PermParts, PendingAsked, PermTypes
    <3>2. ASSUME r = grip[c][1], asks[r] = grip[c][2] PROVE FALSE
      <4>1. grip[c] = <<r, k>>
        BY <1>1, <3>1, <3>2 DEF Perm
      <4>2. mine[r] = tgt[c]
        BY <1>0, <1>1, <3>1, <4>1 DEF PermParts, GripAsked
      <4>3. QED
        BY <3>0, <3>1, <4>2
    <3>3. QED
      BY <1>3, <3>1, <3>2
  <2>2. QED
    BY <1>1, <2>1 DEF PendingAsked
<1>5. GripAsked'
  BY <1>0, <1>1, <1>3 DEF PermParts, GripAsked, PermTypes
<1>6. StopTook'
  BY <1>0, <1>1, <1>3 DEF PermParts, StopTook, PermTypes, TgtPC
<1>7. AnswerLate'
  BY <1>3 DEF OneAnswer, AnswerLate
<1>8. PermissionHeld'
  <2>1. ASSUME NEW r \in Runner, pc'[r] = "perm"
        PROVE  \/ pending'[mine[r]] = <<r, asks[r]>>
               \/ \E d \in Request : pc'[d] \in {"answer", "resolve"} /\ grip[d] = <<r, asks[r]>>
    <3>1. /\ pc[r] = "perm" /\ r \in Request \ {c} /\ grip[c] # <<r, asks[r]>>
          /\ mine[r] \in State
      <4>1. pc[r] = "perm" /\ r \in Request \ {c} /\ mine[r] \in State
        BY <1>0, <1>1, <1>3, <2>1 DEF PermTypes, MinePC
      <4>2. ASSUME grip[c] = <<r, asks[r]>> PROVE FALSE
        BY <1>3, <2>1, <4>1, <4>2
      <4>3. QED
        BY <4>1, <4>2
    <3>2. CASE pending[mine[r]] = <<r, asks[r]>>
      <4>1. mine[r] # tgt[c]
        BY <1>0, <1>1, <3>1, <3>2 DEF PermParts, AnswerLate, PermTypes, Perm
      <4>2. QED
        BY <1>3, <3>1, <3>2, <4>1
    <3>3. CASE \E d \in Request : pc[d] \in {"answer", "resolve"} /\ grip[d] = <<r, asks[r]>>
      BY <1>3, <3>1, <3>3
    <3>4. QED
      BY <1>0, <3>1, <3>2, <3>3 DEF PermParts, PermissionHeld
  <2>2. QED
    BY <1>1, <2>1 DEF PermissionHeld
<1>9. AskedSome'
  BY <1>0, <1>1, <1>3 DEF PermParts, AskedSome, PermTypes
<1>10. QED
  BY <1>4, <1>5, <1>6, <1>7, <1>8, <1>9 DEF PermParts

\* An answer reads the request and leaves it pending.
LEMMA AnswerReads ==
  ASSUME OneAnswer, PermInv, NEW c \in Answer, AnswerRead(c)  PROVE PermParts'
<1>0. PermTypes /\ PermParts
  BY PermTyped DEF PermInv
<1>1. /\ c \in Request \ Runner /\ pc[c] = "idle" /\ entry \in State
      /\ pending[entry] \in Perm
      /\ pc' = [pc EXCEPT ![c] = "answer"] /\ grip' = [grip EXCEPT ![c] = pending[entry]]
      /\ tgt' = [tgt EXCEPT ![c] = entry]
      /\ UNCHANGED <<pending, asks, mine, stopped>>
      /\ tgt \in [Request -> State \cup {None}]
  BY <1>0, Kinds DEF AnswerRead, PermTypes, PermInv, IInv, TypeOK, StatesOK, CleanupsOK
<1>2. /\ pc'[c] = "answer" /\ grip'[c] = pending[entry] /\ tgt'[c] = entry
      /\ \A q \in Request \ {c} : pc'[q] = pc[q] /\ grip'[q] = grip[q] /\ tgt'[q] = tgt[q]
      /\ \A r \in Runner : pc'[r] = pc[r]
  BY <1>0, <1>1 DEF PermTypes
<1>3. PendingAsked'
  BY <1>0, <1>1, <1>2 DEF PermParts, PendingAsked
<1>4. GripAsked'
  <2>1. ASSUME NEW d \in Request, NEW r \in Runner, NEW k \in 1 .. MaxAsks,
               pc'[d] \in {"answer", "resolve"}, grip'[d] = <<r, k>>
        PROVE  k <= asks[r] /\ (pc'[r] = "perm" /\ asks[r] = k => mine[r] = tgt'[d])
    <3>1. CASE d = c
      BY <1>0, <1>1, <1>2, <2>1, <3>1 DEF PermParts, PendingAsked
    <3>2. CASE d # c
      BY <1>0, <1>1, <1>2, <2>1, <3>2 DEF PermParts, GripAsked
    <3>3. QED
      BY <3>1, <3>2
  <2>2. QED
    BY <1>1, <2>1 DEF GripAsked
<1>5. StopTook'
  BY <1>0, <1>1, <1>2 DEF PermParts, StopTook
<1>6. AnswerLate'
  BY <1>0, <1>1, <1>2 DEF OneAnswer, AnswerLate, PermTypes
<1>7. PermissionHeld'
  <2>1. ASSUME NEW r \in Runner, pc'[r] = "perm"
        PROVE  \/ pending[mine[r]] = <<r, asks[r]>>
               \/ \E d \in Request : pc'[d] \in {"answer", "resolve"} /\ grip'[d] = <<r, asks[r]>>
    <3>1. pc[r] = "perm"
      BY <1>2, <2>1
    <3>2. CASE \E d \in Request : pc[d] \in {"answer", "resolve"} /\ grip[d] = <<r, asks[r]>>
      BY <1>1, <1>2, <3>2
    <3>3. QED
      BY <1>0, <3>1, <3>2 DEF PermParts, PermissionHeld
  <2>2. QED
    BY <1>1, <2>1 DEF PermissionHeld
<1>8. AskedSome'
  BY <1>0, <1>1, <1>2 DEF PermParts, AskedSome
<1>9. QED
  BY <1>3, <1>4, <1>5, <1>6, <1>7, <1>8 DEF PermParts

\* A /stop takes the request from the state, and has stopped its turns.
LEMMA StopTakes ==
  ASSUME NewCmd = {}, PermInv, NEW c \in StopCmd, CmdStop(c), entry # None  PROVE PermParts'
<1>0. PermTypes /\ PermParts
  BY PermTyped DEF PermInv
<1>1. /\ c \in Request \ Runner /\ c \notin Answer /\ pc[c] = "idle" /\ entry \in State
      /\ pc' = [pc EXCEPT ![c] = "resolve"] /\ grip' = [grip EXCEPT ![c] = pending[entry]]
      /\ tgt' = [tgt EXCEPT ![c] = entry] /\ pending' = [pending EXCEPT ![entry] = None]
      /\ stopped' = [stopped EXCEPT ![entry] = TRUE]
      /\ UNCHANGED <<asks, mine>>
      /\ tgt \in [Request -> State \cup {None}] /\ stopped \in [State -> BOOLEAN]
  BY <1>0, Kinds, Disjoint DEF CmdStop, PermTypes, PermInv, IInv, TypeOK, StatesOK,
     CleanupsOK
<1>2. /\ pc'[c] = "resolve" /\ grip'[c] = pending[entry] /\ tgt'[c] = entry
      /\ \A q \in Request \ {c} : pc'[q] = pc[q] /\ grip'[q] = grip[q] /\ tgt'[q] = tgt[q]
      /\ \A r \in Runner : pc'[r] = pc[r]
      /\ \A q \in State : pending'[q] = IF q = entry THEN None ELSE pending[q]
      /\ \A q \in State : stopped'[q] = (q = entry \/ stopped[q])
  BY <1>0, <1>1 DEF PermTypes
<1>3. PendingAsked'
  <2>1. ASSUME NEW q \in State, NEW r \in Runner, NEW k \in 1 .. MaxAsks, pending'[q] = <<r, k>>
        PROVE  pending[q] = <<r, k>>
    <3>1. <<r, k>> \in Perm
      BY DEF Perm
    <3>2. QED
      BY <1>0, <1>2, <2>1, <3>1 DEF PermTypes
  <2>2. QED
    BY <1>0, <1>1, <1>2, <2>1 DEF PermParts, PendingAsked
<1>4. GripAsked'
  <2>1. ASSUME NEW d \in Request, NEW r \in Runner, NEW k \in 1 .. MaxAsks,
               pc'[d] \in {"answer", "resolve"}, grip'[d] = <<r, k>>
        PROVE  k <= asks[r] /\ (pc'[r] = "perm" /\ asks[r] = k => mine[r] = tgt'[d])
    <3>1. CASE d = c
      <4>1. asks[r] = k /\ mine[r] = entry
        BY <1>0, <1>1, <1>2, <2>1, <3>1 DEF PermParts, PendingAsked
      <4>2. QED
        BY <1>2, <3>1, <4>1
    <3>2. CASE d # c
      BY <1>0, <1>1, <1>2, <2>1, <3>2 DEF PermParts, GripAsked
    <3>3. QED
      BY <3>1, <3>2
  <2>2. QED
    BY <1>1, <2>1 DEF GripAsked
<1>5. StopTook'
  <2>1. ASSUME NEW d \in Request, pc'[d] = "resolve", grip'[d] # None
        PROVE  pending'[tgt'[d]] # grip'[d]
    <3>1. CASE d = c
      BY <1>1, <1>2, <2>1, <3>1
    <3>2. CASE d # c
      <4>1. pc[d] = "resolve" /\ grip[d] # None /\ tgt[d] \in State
        BY <1>0, <1>2, <2>1, <3>2 DEF PermTypes, TgtPC
      <4>2. QED
        BY <1>0, <1>2, <3>2, <4>1 DEF PermParts, StopTook
    <3>3. QED
      BY <3>1, <3>2
  <2>2. QED
    BY <2>1 DEF StopTook
<1>6. AnswerLate'
  <2>1. ASSUME NEW d \in Answer, pc'[d] = "answer"
        PROVE  /\ grip'[d] # None
               /\ pending'[tgt'[d]] # grip'[d] =>
                    /\ stopped'[tgt'[d]] /\ pending'[tgt'[d]] = None
                    /\ \A r \in Runner : mine[r] = tgt'[d] =>
                         pc'[r] # "event" /\ (pc'[r] = "perm" => grip'[d] = <<r, asks[r]>>)
    <3>1. /\ d \in Request \ {c} /\ pc[d] = "answer" /\ grip'[d] = grip[d] /\ tgt'[d] = tgt[d]
          /\ tgt[d] \in State /\ grip[d] # None /\ grip[d] \in Perm
      BY <1>0, <1>1, <1>2, <2>1 DEF PermTypes, TgtPC, PermParts, AnswerLate, Request
    <3>2. CASE pending[tgt[d]] # grip[d]
      <4>1. /\ stopped[tgt[d]] /\ pending[tgt[d]] = None
            /\ \A r \in Runner : mine[r] = tgt[d] =>
                 pc[r] # "event" /\ (pc[r] = "perm" => grip[d] = <<r, asks[r]>>)
        BY <1>0, <2>1, <3>1, <3>2 DEF PermParts, AnswerLate
      <4>2. stopped'[tgt[d]] /\ pending'[tgt[d]] = None
        BY <1>2, <3>1, <4>1
      <4>3. QED
        BY <1>2, <3>1, <4>1, <4>2
    <3>3. CASE pending[tgt[d]] = grip[d] /\ tgt[d] # entry
      BY <1>2, <3>1, <3>3
    <3>4. CASE pending[tgt[d]] = grip[d] /\ tgt[d] = entry
      <4>1. PICK r0 \in Runner, k \in 1 .. MaxAsks : grip[d] = <<r0, k>>
        BY <3>1 DEF Perm
      <4>2. pc[r0] = "perm" /\ asks[r0] = k
        BY <1>0, <3>1, <3>4, <4>1 DEF PermParts, PendingAsked
      <4>3. \A r \in Runner : pc[r] \in {"event", "perm"} => r = r0
        BY <4>2, Solo DEF PermInv, Holds, HoldPC
      <4>4. stopped'[tgt[d]] /\ pending'[tgt[d]] = None
        BY <1>2, <3>1, <3>4
      <4>5. ASSUME NEW r \in Runner
            PROVE  pc'[r] # "event" /\ (pc'[r] = "perm" => grip[d] = <<r, asks[r]>>)
        BY <1>2, <4>1, <4>2, <4>3
      <4>6. QED
        BY <3>1, <4>4, <4>5
    <3>5. QED
      BY <3>2, <3>3, <3>4
  <2>2. QED
    BY <1>1, <2>1 DEF AnswerLate
<1>7. PermissionHeld'
  <2>1. ASSUME NEW r \in Runner, pc'[r] = "perm"
        PROVE  \/ pending'[mine[r]] = <<r, asks[r]>>
               \/ \E d \in Request : pc'[d] \in {"answer", "resolve"} /\ grip'[d] = <<r, asks[r]>>
    <3>1. pc[r] = "perm" /\ mine[r] \in State
      BY <1>0, <1>2, <2>1 DEF PermTypes, MinePC
    <3>2. CASE pending[mine[r]] = <<r, asks[r]>>
      BY <1>1, <1>2, <3>1, <3>2
    <3>3. CASE \E d \in Request : pc[d] \in {"answer", "resolve"} /\ grip[d] = <<r, asks[r]>>
      BY <1>1, <1>2, <3>3
    <3>4. QED
      BY <1>0, <3>1, <3>2, <3>3 DEF PermParts, PermissionHeld
  <2>2. QED
    BY <1>1, <2>1 DEF PermissionHeld
<1>8. AskedSome'
  BY <1>0, <1>1, <1>2 DEF PermParts, AskedSome
<1>9. QED
  BY <1>3, <1>4, <1>5, <1>6, <1>7, <1>8 DEF PermParts

\* The other steps ask, take and resolve nothing.
LEMMA HandleMessageAsks ==
  ASSUME PermInv, NEW m \in Msg, HandleMessage(m) \/ StartTurn(m)  PROVE AsksNothing
<1>0. m \in Request /\ m \in Runner /\ PermTypes
      /\ mine \in [Request -> State \cup {None}] /\ stopped \in [State -> BOOLEAN]
  BY PermTyped, Kinds DEF PermInv, IInv, TypeOK, TurnsOK, StatesOK
<1>. USE DEF AsksNothing, PermTypes
<1>1. CASE HintPending(m)
  BY <1>0, <1>1 DEF HintPending
<1>2. CASE Arrive(m)
  BY <1>0, <1>2 DEF Arrive
<1>3. CASE TryLock(m)
  BY <1>0, <1>3 DEF TryLock
<1>4. CASE QueueMessage(m)
  BY <1>0, <1>4 DEF QueueMessage
<1>5. CASE RetryLock(m)
  BY <1>0, <1>5 DEF RetryLock
<1>6. CASE DrainOrphaned(m)
  BY <1>0, <1>6 DEF DrainOrphaned
<1>7. CASE EnsureSlot(m)
  BY <1>0, <1>7 DEF EnsureSlot
<1>8. CASE Abandon(m)
  BY <1>0, <1>8 DEF Abandon
<1>9. CASE Reuse(m)
  BY <1>0, <1>9 DEF Reuse
<1>10. CASE StartAgent(m)
  BY <1>0, <1>10 DEF StartAgent, Install
<1>11. CASE StartFails(m)
  BY <1>0, <1>11 DEF StartFails, Install
<1>12. CASE Ready(m)
  BY <1>0, <1>12 DEF Ready
<1>13. QED
  BY <1>1, <1>2, <1>3, <1>4, <1>5, <1>6, <1>7, <1>8, <1>9, <1>10, <1>11, <1>12
     DEF HandleMessage, StartTurn

LEMMA RunTurnAsks ==
  ASSUME PermInv, NEW r \in Runner, RunTurn(r), ~EventPermission(r)  PROVE AsksNothing
<1>0. r \in Request /\ PermTypes /\ tgt \in [Request -> State \cup {None}]
  BY PermTyped, Kinds DEF PermInv, IInv, TypeOK, CleanupsOK
<1>. USE DEF AsksNothing, PermTypes
<1>1. CASE Dispatch(r)
  BY <1>0, <1>1 DEF Dispatch, NilCall
<1>2. CASE SendReturns(r)
  BY <1>0, <1>2 DEF SendReturns, NilCall
<1>3. CASE SendFails(r)
  BY <1>0, <1>3 DEF SendFails, Cleanup, NoCleanup
<1>4. CASE SeeStop(r)
  BY <1>0, <1>4 DEF SeeStop
<1>5. CASE ReceiveEvent(r)
  BY <1>0, <1>5 DEF ReceiveEvent
<1>6. CASE EventText(r)
  BY <1>0, <1>6 DEF EventText
<1>7. CASE ResultUnsent(r) \/ ResultSent(r)
  BY <1>0, <1>7 DEF ResultUnsent, ResultSent
<1>8. CASE ResultCompress(r)
  BY <1>0, <1>8 DEF ResultCompress
<1>9. CASE ResultNext(r)
  BY <1>0, <1>9 DEF ResultNext
<1>10. CASE SendNext(r)
  BY <1>0, <1>10 DEF SendNext, NilCall
<1>11. CASE ResultLast(r) \/ ReturnLast(r)
  BY <1>0, <1>11 DEF ResultLast, ReturnLast
<1>12. CASE EventError(r)
  BY <1>0, <1>12 DEF EventError
<1>13. CASE ChannelClosed(r) \/ IdleTimeout(r)
  BY <1>0, <1>13 DEF ChannelClosed, IdleTimeout, Cleanup
<1>14. CASE DrainEmpty(r) \/ Release(r)
  BY <1>0, <1>14 DEF DrainEmpty, Release, UnlockAndReturn
<1>15. CASE DrainNext(r)
  BY <1>0, <1>15 DEF DrainNext
<1>16. QED
  BY <1>1, <1>2, <1>3, <1>4, <1>5, <1>6, <1>7, <1>8, <1>9, <1>10, <1>11, <1>12, <1>13,
     <1>14, <1>15 DEF RunTurn

LEMMA CompressAsks ==
  ASSUME PermInv, NEW r \in Runner, Compress(r)  PROVE AsksNothing
<1>0. r \in Request /\ PermTypes /\ tgt \in [Request -> State \cup {None}]
  BY PermTyped, Kinds DEF PermInv, IInv, TypeOK, CleanupsOK
<1>. USE DEF AsksNothing, PermTypes, CompressEvent
<1>1. CASE RunCompress(r)
  BY <1>0, <1>1 DEF RunCompress, NilCall
<1>2. CASE CompressStopped(r)
  BY <1>0, <1>2 DEF CompressStopped
<1>3. CASE CompressBroken(r)
  BY <1>0, <1>3 DEF CompressBroken, Cleanup
<1>4. CASE CompressDrop(r)
  BY <1>0, <1>4 DEF CompressDrop
<1>5. CASE CompressEnds(r)
  BY <1>0, <1>5 DEF CompressEnds
<1>6. CASE CompressDies(r)
  BY <1>0, <1>6 DEF CompressDies, NilCall
<1>7. QED
  BY <1>1, <1>2, <1>3, <1>4, <1>5, <1>6 DEF Compress

LEMMA CleanUpAsks ==
  ASSUME PermInv, NEW r \in Runner, CleanUp(r)  PROVE AsksNothing
<1>0. /\ r \in Request /\ PermTypes /\ tgt \in [Request -> State \cup {None}]
      /\ stopped \in [State -> BOOLEAN]
      /\ pc[r] \in CleanPC => ret[r] \in {"drain", "release", "cdrop"}
  BY PermTyped, Kinds DEF PermInv, IInv, TypeOK, CleanupsOK, StatesOK, PointersOK, Points
<1>. USE DEF AsksNothing, PermTypes, CleanPC
<1>1. CASE Detach(r)
  BY <1>0, <1>1 DEF Detach
<1>2. CASE Notify(r)
  BY <1>0, <1>2 DEF Notify
<1>3. CASE Close(r)
  BY <1>0, <1>3 DEF Close
<1>4. CASE Unmap(r)
  BY <1>0, <1>4 DEF Unmap
<1>5. QED
  BY <1>1, <1>2, <1>3, <1>4 DEF CleanUp

LEMMA CommandAsks ==
  ASSUME PermInv,
         \/ \E c \in CompressCmd : CmdCompress(c) \/ CompressTryLock(c)
         \/ \E c \in StopCmd : CmdStop(c) /\ entry = None
         \/ \E c \in StopCmd : StopDrop(c) \/ StopClose(c)
         \/ (\E a \in Agent : AgentDies(a) \/ AgentCloses(a)) \/ Cancel \/ Sweep
         \/ (\E q \in State : LateSend(q))
  PROVE  AsksNothing
<1>0. /\ CompressCmd \cup StopCmd \subseteq Request /\ StopCmd \cap Runner = {} /\ PermTypes
      /\ mine \in [Request -> State \cup {None}]
  BY PermTyped, Kinds DEF PermInv, IInv, TypeOK, TurnsOK
<1>. USE DEF AsksNothing, PermTypes
<1>1. CASE \E c \in CompressCmd : CmdCompress(c) \/ CompressTryLock(c)
  BY <1>0, <1>1 DEF CmdCompress, CompressTryLock
<1>2. CASE \E c \in StopCmd : (CmdStop(c) /\ entry = None) \/ StopDrop(c) \/ StopClose(c)
  BY <1>0, <1>2 DEF CmdStop, StopDrop, StopClose
<1>3. CASE (\E a \in Agent : AgentDies(a) \/ AgentCloses(a)) \/ Cancel \/ Sweep
         \/ (\E q \in State : LateSend(q))
  BY <1>0, <1>3 DEF AgentDies, AgentCloses, Cancel, Sweep, LateSend
<1>4. QED
  BY <1>1, <1>2, <1>3

\* Every step keeps the invariant.
LEMMA NextPerm ==
  ASSUME NewCmd = {}, ~AutoCompress, OneAnswer, PermInv, [Next]_vars  PROVE PermInv'
<1>1. IInv' /\ LockInv'
  BY NextTypes, NextLock DEF PermInv
<1>2. UNCHANGED vars => AsksNothing
  BY DEF vars, AsksNothing
<1>3. ASSUME Next PROVE PermParts'
  BY <1>3, AskedKept, HandleMessageAsks, RunTurnAsks, CompressAsks, CleanUpAsks, CommandAsks,
     AsksOne, StopTakes, StopResolves, AnswerReads, AnswerResolves DEF Next
<1>4. QED
  BY <1>1, <1>2, <1>3, AskedKept DEF PermInv

\* PermissionHeld, without /new and auto-compress and with at most one answer: a
\* turn that waits for a permission, which it does without a timeout, waits for a
\* request that is pending on its own state or that a /stop or the answer is about
\* to resolve.  A second answer may clear the next request unresolved.
THEOREM RequestHeld ==
  ASSUME NewCmd = {}, ~AutoCompress, OneAnswer  PROVE Spec => []PermissionHeld
<1>1. PermInv /\ [Next]_vars => PermInv'
  BY NextPerm
<1>2. Init => PermParts
  BY Kinds, Disjoint DEF Init, PermParts, AskedSome, PendingAsked, GripAsked, StopTook,
     AnswerLate, PermissionHeld, Perm, Request
<1>3. Init => PermInv
  BY <1>2, InitTypes, InitLock DEF PermInv
<1>4. PermInv => PermissionHeld
  BY DEF PermInv, PermParts
<1>5. QED
  BY <1>1, <1>3, <1>4, PTL DEF Spec

-----------------------------------------------------------------------------
(* No queue is forgotten *)

\* Where a goroutine has no state yet, and where it works with the one it has.
BeforePC == {"idle", "try", "enqueue", "retry", "slot", "start", "orphan"}
TurnPC == {"ready", "send", "events", "event", "perm", "result", "next", "last", "drain"}
            \cup CleanPC
OnlyCompressPC == {"compress", "ctry", "cwait", "cdrop"}

\* A turn works with the entry, unless a /stop has removed it, and with the entry's
\* agent; its cleanups name their state and are followed by the drain loop.
InPlace == \A r \in Runner :
  /\ pc[r] \in BeforePC => mine[r] = None
  /\ pc[r] \notin OnlyCompressPC
  /\ pc[r] \in TurnPC => entry \in {None, mine[r]}
  /\ pc[r] = "ready" => agentOf[mine[r]] # None
  /\ pc[r] \in OnPC => on[r] = agentOf[mine[r]]
  /\ pc[r] \in CleanPC => ret[r] = "drain" /\ strict[r] /\ tgt[r] = mine[r]

\* Who unlocks without another look at the queue leaves an entry behind that takes
\* no more messages.
LeftEmpty == \A r \in Runner : pc[r] = "release" /\ entry # None =>
  agentOf[entry] # None /\ ~Usable(entry) /\ queue[entry] = <<>>

\* An entry without an agent is about to get one, or to be removed.
Unfinished == entry # None /\ agentOf[entry] = None =>
  \E r \in Runner : pc[r] = "start" \/ (pc[r] \in AfterDetach /\ mine[r] = entry)

\* The entry's agent runs the conversation of the Session, so it is never recycled.
SameTalk == entry # None /\ Usable(entry) =>
  \/ sid[First] = conv[agentOf[entry]]
  \/ sid[First] = None /\ ~shown[agentOf[entry]]

Awake == InPlace /\ LeftEmpty /\ Unfinished /\ SameTalk /\ NoLostWakeup

\* The inductive invariant of NoLostWakeup.
WakeInv == CloseInv /\ NilInv /\ (phase = "run" => Awake)

\* What the proofs need of the types.
WakeTypes ==
  /\ Runner \subseteq Request /\ Msg \subseteq Runner /\ None \notin State /\ None \notin Agent
  /\ pc \in [Request -> PCs]
  /\ entry \in State \cup {None}
  /\ agentOf \in [State -> Agent \cup {None}]
  /\ DOMAIN queue = State
  /\ life \in [Agent -> {"none", "up", "dead", "closed"}]
  /\ mine \in [Request -> State \cup {None}]
  /\ on \in [Request -> Agent \cup {None}]
  /\ tgt \in [Request -> State \cup {None}]
  /\ strict \in [Request -> BOOLEAN]
  /\ DOMAIN ret = Request
  /\ \A r \in Runner : pc[r] \in MinePC => mine[r] \in State
  /\ \A c \in Request : pc[c] \in TgtPC => tgt[c] \in State

LEMMA WakeTyped == ASSUME IInv PROVE WakeTypes
  BY Kinds DEF WakeTypes, IInv, TypeOK, PlacesOK, StatesOK, QueuesOK, AgentsOK, TurnsOK,
     CleanupsOK, PointersOK, Points

\* A turn that goes on: it will come back to the queue of its state.
TurnMove(r) ==
  /\ pc[r] \in TurnPC /\ pc' = [pc EXCEPT ![r] = pc'[r]] /\ pc'[r] \in TurnPC \ {"ready"}
  /\ mine' = mine /\ entry' \in {entry, None}
  /\ \A q \in State \ {mine[r]} : queue'[q] = queue[q]
  /\ \A c \in Request \ {r} : tgt'[c] = tgt[c]
  /\ pc'[r] \in OnPC => on'[r] = agentOf'[mine[r]]
  /\ pc'[r] \in CleanPC => ret'[r] = "drain" /\ strict'[r] /\ tgt'[r] = mine[r]
  /\ \/ entry' = None \/ pc'[r] \in AfterDetach
     \/ pc[r] \notin AfterDetach /\ agentOf' = agentOf

LEMMA TurnWakes ==
  ASSUME NewCmd = {}, NilInv, Awake, phase = "run", NEW r \in Runner, TurnMove(r)
  PROVE  InPlace' /\ LeftEmpty' /\ Unfinished' /\ NoLostWakeup'
<1>0. WakeTypes /\ LockInv
  BY WakeTyped DEF NilInv
<1>1. /\ pc[r] \in TurnPC /\ pc'[r] \in TurnPC \ {"ready"} /\ mine' = mine
      /\ entry' \in {entry, None}
      /\ \A c \in Request \ {r} : pc'[c] = pc[c] /\ tgt'[c] = tgt[c]
      /\ mine[r] \in State /\ entry \in {None, mine[r]}
  BY <1>0 DEF WakeTypes, TurnMove, Awake, InPlace, TurnPC, CleanPC, MinePC
<1>2. \A c \in Runner \ {r} : pc[c] \notin HoldPC
  <2>1. Holds(r)
    BY <1>1 DEF Holds, HoldPC, TurnPC, CleanPC
  <2> QED BY <1>0, <2>1, Solo DEF Holds
<1>3. InPlace'
  <2>1. ASSUME NEW c \in Runner \ {r}
        PROVE pc'[c] \notin TurnPC /\ (pc'[c] \in BeforePC => mine'[c] = None)
              /\ pc'[c] \notin OnlyCompressPC \cup OnPC \cup CleanPC
    BY <1>0, <1>1, <1>2 DEF WakeTypes, Awake, InPlace, TurnPC, CleanPC, HoldPC, OnPC,
       OnlyCompressPC
  <2>2. /\ pc'[r] \notin BeforePC \cup OnlyCompressPC \cup {"ready"}
        /\ entry' \in {None, mine'[r]}
        /\ pc'[r] \in OnPC => on'[r] = agentOf'[mine'[r]]
        /\ pc'[r] \in CleanPC => ret'[r] = "drain" /\ strict'[r] /\ tgt'[r] = mine'[r]
    BY <1>1 DEF TurnMove, TurnPC, CleanPC, BeforePC, OnlyCompressPC
  <2> QED BY <2>1, <2>2 DEF InPlace, TurnPC
<1>4. LeftEmpty'
  BY <1>0, <1>1, <1>2 DEF LeftEmpty, WakeTypes, TurnPC, CleanPC, HoldPC
<1>5. Unfinished'
  <2>1. CASE entry' # None /\ pc'[r] \in AfterDetach
    BY <1>1, <2>1 DEF Unfinished
  <2>2. CASE entry' # None /\ pc[r] \notin AfterDetach /\ agentOf' = agentOf
    BY <1>1, <1>2, <2>2 DEF Unfinished, Awake, AfterDetach, HoldPC, TurnPC, CleanPC
  <2> QED BY <2>1, <2>2 DEF Unfinished, TurnMove
<1>6. NoLostWakeup'
  <2>1. ASSUME NEW q \in State, queue'[q] # <<>>, q # mine[r]
        PROVE  \E c \in Request : WillDrop(c, q)'
    <3>1. queue[q] # <<>>
      BY <2>1 DEF TurnMove
    <3>2. \A c \in Runner : ~WillServe(c, q)
      BY <1>0, <1>1, <1>2, <2>1 DEF WakeTypes, WillServe, Holds, HoldPC, TurnPC, CleanPC
    <3>3. PICK c \in Request : WillDrop(c, q)
      BY <1>0, <2>1, <3>1, <3>2 DEF WakeTypes, Awake, NoLostWakeup, ctxDone, WillServe
    <3>4. c # r
      BY <1>1, <2>1, <3>3 DEF WillDrop, Awake, InPlace, CleanPC, TurnPC
    <3> QED BY <1>1, <3>3, <3>4 DEF WillDrop
  <2>2. \A q \in State : q = mine[r] => WillServe(r, q)'
    BY <1>1 DEF WillServe, Holds, HoldPC, TurnPC, CleanPC
  <2> QED BY <2>1, <2>2 DEF NoLostWakeup
<1> QED BY <1>3, <1>4, <1>5, <1>6

\* The agent of the entry keeps its conversation when no agent is started or heard.
LEMMA TalkKept ==
  ASSUME IInv, Home, SameTalk, UNCHANGED <<sid, conv, shown>>,
         \A a \in Agent : life'[a] = "up" => life[a] = "up",
         \A q \in State : agentOf'[q] \in {agentOf[q], None},
         entry' \in {entry, None} \cup (Msg \X {"slot"})
  PROVE  SameTalk'
<1>0. WakeTypes
  BY WakeTyped
<1>1. CASE entry' \in Msg \X {"slot"}
  <2>1. entry' \in State /\ agentOf[entry'] = None
    BY <1>0, <1>1 DEF Home, Live, State, WakeTypes
  <2> QED BY <2>1 DEF SameTalk, Usable
<1>2. CASE entry' = entry
  BY <1>0, <1>2 DEF SameTalk, Usable, WakeTypes
<1>3. CASE entry' = None
  BY <1>3 DEF SameTalk
<1> QED BY <1>1, <1>2, <1>3

\* The event loop binds the Session to the conversation of the agent it works with,
\* which is the entry's.
LEMMA TalkBound ==
  ASSUME IInv, Awake, NEW r \in Runner, sess[r] = First, pc[r] \in OnPC,
         UNCHANGED <<entry, agentOf, life, conv>>,
         shown' = shown \/ shown' = [shown EXCEPT ![on[r]] = TRUE],
         sid' = sid \/ (Bind(First, on[r]) /\ shown'[on[r]]),
         shown' # shown => Bind(First, on[r])
  PROVE  SameTalk'
<1>0. /\ WakeTypes /\ sid \in [Session -> Agent \cup {None}] /\ First \in Session
      /\ conv \in [Agent -> Agent] /\ shown \in [Agent -> BOOLEAN]
  BY WakeTyped DEF IInv, TypeOK, SessionsOK, AgentsOK, Session
<1>1. SUFFICES ASSUME entry # None, Usable(entry)
               PROVE  \/ sid'[First] = conv[agentOf[entry]]
                      \/ sid'[First] = None /\ ~shown'[agentOf[entry]]
  BY DEF SameTalk, Usable
<1>2. entry = mine[r] /\ on[r] = agentOf[entry] /\ on[r] \in Agent
  BY <1>0, <1>1 DEF Awake, InPlace, OnPC, TurnPC, Usable, WakeTypes, OnlyCompressPC
<1>3. \/ sid[First] = conv[on[r]]
      \/ sid[First] = None /\ ~shown[on[r]]
  BY <1>1, <1>2 DEF Awake, SameTalk
<1>4. CASE UNCHANGED <<sid, shown>>
  BY <1>2, <1>3, <1>4
<1>5. CASE Bind(First, on[r])
  BY <1>0, <1>2, <1>3, <1>5 DEF Bind
<1> QED BY <1>4, <1>5

\* Every step of a turn goes on to a place from which the queue is looked at, or it
\* gives the Session back when there is nothing to look at.
Returns(r) ==
  /\ pc[r] \in {"drain", "release"} /\ pc' = [pc EXCEPT ![r] = pc'[r]]
  /\ pc'[r] \in {"done", "release"}
  /\ UNCHANGED <<mine, entry, agentOf, life, tgt>>
  /\ pc[r] = "release" => queue' = queue /\ pc'[r] = "done"
  /\ pc[r] = "drain" =>
       /\ queue'[mine[r]] = <<>>
       /\ \A q \in State \ {mine[r]} : queue'[q] = queue[q]
       /\ pc'[r] = "release" => ~Usable(mine[r])

LEMMA ReturnWakes ==
  ASSUME NewCmd = {}, NilInv, Awake, phase = "run", NEW r \in Runner, Returns(r)
  PROVE  InPlace' /\ LeftEmpty' /\ Unfinished' /\ NoLostWakeup'
<1>0. WakeTypes /\ LockInv /\ DOMAIN pc = Request /\ r \in Request
  BY WakeTyped DEF NilInv, WakeTypes
<1>1. /\ pc[r] \in {"drain", "release"} /\ pc'[r] \in {"done", "release"}
      /\ UNCHANGED <<mine, entry, agentOf, life, tgt>>
      /\ \A c \in Request \ {r} : pc'[c] = pc[c]
  BY <1>0 DEF Returns
<1>2. \A c \in Runner \ {r} : pc[c] \notin HoldPC
  <2>1. Holds(r)
    BY <1>1 DEF Holds, HoldPC
  <2> QED BY <1>0, <2>1, Solo DEF Holds
<1>3. InPlace'
  <2>1. ASSUME NEW c \in Runner \ {r}
        PROVE pc'[c] \notin TurnPC /\ (pc'[c] \in BeforePC => mine'[c] = None)
              /\ pc'[c] \notin OnlyCompressPC \cup OnPC \cup CleanPC
    BY <1>0, <1>1, <1>2 DEF WakeTypes, Awake, InPlace, TurnPC, CleanPC, HoldPC, OnPC,
       OnlyCompressPC
  <2>2. pc'[r] \notin BeforePC \cup TurnPC \cup OnlyCompressPC \cup OnPC \cup CleanPC
    BY <1>1 DEF TurnPC, CleanPC, BeforePC, OnlyCompressPC, OnPC
  <2> QED BY <2>1, <2>2 DEF InPlace, TurnPC
<1>4. Unfinished' /\ (entry # None => agentOf[entry] # None)
  BY <1>1, <1>2 DEF Unfinished, Awake, AfterDetach, HoldPC
<1>5. LeftEmpty'
  <2>1. \A c \in Runner \ {r} : pc'[c] # "release"
    BY <1>0, <1>1, <1>2 DEF HoldPC, WakeTypes
  <2>2. CASE pc'[r] = "release" /\ entry # None
    <3>1. pc[r] = "drain" /\ entry = mine[r]
      BY <1>1, <2>2 DEF Returns, Awake, InPlace, TurnPC
    <3> QED BY <1>1, <1>4, <2>1, <2>2, <3>1 DEF Returns, LeftEmpty, Usable
  <2> QED BY <1>1, <2>1, <2>2 DEF LeftEmpty
<1>6. NoLostWakeup'
  <2>1. ASSUME NEW q \in State, queue'[q] # <<>>
        PROVE  \/ \E c \in Runner : WillServe(c, q)'
               \/ \E c \in Request : WillDrop(c, q)'
    <3>1. queue[q] # <<>> /\ (pc[r] = "drain" => q # mine[r])
      BY <1>1, <2>1 DEF Returns
    <3>2. ~WillServe(r, q) /\ ~WillDrop(r, q)
      BY <1>1, <3>1 DEF WillServe, WillDrop
    <3>3. \/ \E c \in Runner \ {r} : WillServe(c, q)
          \/ \E c \in Request \ {r} : WillDrop(c, q)
      BY <2>1, <3>1, <3>2 DEF Awake, NoLostWakeup, ctxDone
    <3> QED BY <1>0, <1>1, <3>3 DEF WillServe, WillDrop, Holds, WakeTypes
  <2> QED BY <2>1 DEF NoLostWakeup
<1> QED BY <1>3, <1>4, <1>5, <1>6

LEMMA RunTurnMoves ==
  ASSUME ~AutoCompress, NilInv, Awake, NEW r \in Runner, RunTurn(r)
  PROVE  TurnMove(r) \/ Returns(r)
<1>0. /\ WakeTypes /\ r \in Request /\ depth[r] = 0
      /\ pc[r] \in UsePC => ~NilCall(r) /\ agentOf[mine[r]] # None
      /\ pc[r] \in MinePC => mine[r] \in State
  BY WakeTyped DEF NilInv, LockInv, NotNested, NilCall, HasAgent, WakeTypes
<1>i. /\ pc[r] \in TurnPC => entry \in {None, mine[r]}
      /\ pc[r] \in OnPC => on[r] = agentOf[mine[r]]
      /\ entry' = entry => entry' \in {entry, None}
  BY DEF Awake, InPlace
<1>. USE DEF UsePC, MinePC, OnPC, TurnPC, CleanPC, AfterDetach, WakeTypes
<1>1. CASE Dispatch(r)
  BY <1>0, <1>i, <1>1 DEF Dispatch, TurnMove
<1>2. CASE SendReturns(r)
  BY <1>0, <1>i, <1>2 DEF SendReturns, TurnMove
<1>3. CASE SendFails(r)
  BY <1>0, <1>i, <1>3 DEF SendFails, Cleanup, NoCleanup, DropQueue, TurnMove
<1>4. CASE SeeStop(r)
  BY <1>0, <1>i, <1>4 DEF SeeStop, TurnMove
<1>5. CASE ReceiveEvent(r)
  BY <1>0, <1>i, <1>5 DEF ReceiveEvent, TurnMove
<1>6. CASE EventText(r)
  BY <1>0, <1>i, <1>6 DEF EventText, TurnMove
<1>7. CASE EventPermission(r)
  BY <1>0, <1>i, <1>7 DEF EventPermission, TurnMove
<1>8. CASE ResultUnsent(r) \/ ResultSent(r)
  BY <1>0, <1>i, <1>8 DEF ResultUnsent, ResultSent, TurnMove
<1>9. CASE ResultNext(r)
  BY <1>0, <1>i, <1>9 DEF ResultNext, TurnMove
<1>10. CASE SendNext(r)
  BY <1>0, <1>i, <1>10 DEF SendNext, TurnMove
<1>11. CASE ResultLast(r) \/ ReturnLast(r)
  BY <1>0, <1>i, <1>11 DEF ResultLast, ReturnLast, TurnMove
<1>12. CASE EventError(r)
  BY <1>0, <1>i, <1>12 DEF EventError, DropQueue, TurnMove
<1>13. CASE ChannelClosed(r) \/ IdleTimeout(r)
  BY <1>0, <1>i, <1>13 DEF ChannelClosed, IdleTimeout, Cleanup, DropQueue, TurnMove
<1>14. CASE DrainEmpty(r) \/ Release(r)
  BY <1>0, <1>14 DEF DrainEmpty, Release, UnlockAndReturn, Returns
<1>15. CASE DrainNext(r)
  <2>1. CASE Usable(mine[r])
    BY <1>0, <1>i, <1>15, <2>1 DEF DrainNext, TurnMove
  <2>2. CASE ~Usable(mine[r])
    BY <1>0, <1>15, <2>2 DEF DrainNext, DropQueue, Returns
  <2> QED BY <2>1, <2>2
<1>16. ~ResultCompress(r)
  BY DEF ResultCompress
<1> QED
  BY <1>1, <1>2, <1>3, <1>4, <1>5, <1>6, <1>7, <1>8, <1>9, <1>10, <1>11, <1>12, <1>13,
     <1>14, <1>15, <1>16 DEF RunTurn

LEMMA RunTurnTalks ==
  ASSUME NewCmd = {}, ~AutoCompress, Home, NilInv, Awake, NEW r \in Runner, RunTurn(r)
  PROVE  SameTalk'
<1>0. /\ IInv /\ SameTalk
      /\ pc[r] \notin {"idle", "done"} => sess[r] = First
      /\ WakeTypes /\ r \in Request
      /\ pc[r] \in OnPC => on[r] = agentOf[mine[r]]
  BY WakeTyped DEF NilInv, LockInv, HasSession, Session, Awake, WakeTypes, InPlace
<1>1. CASE EventText(r)
  <2>1. on[r] \in Agent /\ DOMAIN shown = Agent /\ pc[r] = "event" /\ sess[r] = First
    BY <1>0, <1>1 DEF EventText, IInv, PointersOK, Points, OnPC, TypeOK, AgentsOK
  <2>2. /\ UNCHANGED <<entry, agentOf, life, conv>> /\ Bind(First, on[r])
        /\ shown' = [shown EXCEPT ![on[r]] = TRUE] /\ shown'[on[r]]
    BY <1>1, <2>1 DEF EventText
  <2> QED BY <1>0, <2>1, <2>2, TalkBound DEF OnPC
<1>2. CASE ResultUnsent(r) \/ ResultSent(r)
  BY <1>0, <1>2, TalkBound DEF ResultUnsent, ResultSent, LearnID, OnPC
<1>3. CASE UNCHANGED <<sid, conv, shown, life, agentOf, entry>>
  BY <1>0, <1>3, TalkKept DEF WakeTypes
<1>4. ~ResultCompress(r)
  BY DEF ResultCompress
<1> QED
  BY <1>1, <1>2, <1>3, <1>4 DEF RunTurn, Dispatch, SendReturns, SendFails, SeeStop, ReceiveEvent,
     EventPermission, ResultNext, SendNext, ResultLast, ReturnLast, EventError, ChannelClosed,
     IdleTimeout, DrainEmpty, DrainNext, Release, UnlockAndReturn, NilCall

\* So does every step of a cleanup, which names the state of its turn.
LEMMA CleanUpMoves ==
  ASSUME NilInv, Home, Awake, NEW r \in Runner, CleanUp(r)  PROVE TurnMove(r) /\ SameTalk'
<1>0. /\ WakeTypes /\ r \in Request /\ IInv /\ SameTalk
      /\ pc[r] \in CleanPC =>
           /\ mine[r] \in State /\ ret[r] = "drain" /\ strict[r] /\ tgt[r] = mine[r]
           /\ entry \in {None, mine[r]}
  BY WakeTyped DEF NilInv, WakeTypes, MinePC, CleanPC, TurnPC, Awake, InPlace
<1>. USE DEF OnPC, TurnPC, CleanPC, AfterDetach, WakeTypes
<1>1. CASE Detach(r)
  <2>1. TurnMove(r)
    BY <1>0, <1>1 DEF Detach, TurnMove
  <2>2. SameTalk'
    BY <1>0, <1>1, TalkKept DEF Detach
  <2> QED BY <2>1, <2>2
<1>2. CASE Notify(r)
  <2>1. TurnMove(r)
    BY <1>0, <1>2 DEF Notify, DropQueue, TurnMove
  <2>2. SameTalk'
    BY <1>0, <1>2, TalkKept DEF Notify
  <2> QED BY <2>1, <2>2
<1>3. CASE Close(r)
  <2>1. TurnMove(r)
    BY <1>0, <1>3 DEF Close, TurnMove
  <2>2. SameTalk'
    BY <1>0, <1>3, TalkKept DEF Close, CloseAgent
  <2> QED BY <2>1, <2>2
<1>4. CASE Unmap(r)
  <2>1. TurnMove(r)
    BY <1>0, <1>4 DEF Unmap, TurnMove
  <2>2. SameTalk'
    BY <1>0, <1>4, TalkKept DEF Unmap
  <2> QED BY <2>1, <2>2
<1> QED BY <1>1, <1>2, <1>3, <1>4 DEF CleanUp

\* A step that leaves queues and entry alone, of somebody who serves no queue before
\* or after it.
Bystander(c) ==
  /\ pc' = [pc EXCEPT ![c] = pc'[c]]
  /\ pc[c] \notin TurnPC \cup {"slot", "start", "orphan", "retry", "resolve", "drop"}
  /\ pc'[c] \notin TurnPC \cup OnlyCompressPC \cup {"slot", "start", "orphan", "release"}
  /\ UNCHANGED <<mine, entry, agentOf, queue, sid, conv, shown>>
  /\ c \notin Runner => UNCHANGED ret /\ UNCHANGED strict
  /\ pc'[c] \in BeforePC /\ c \in Runner => pc[c] \in BeforePC
  /\ \A r \in Runner \ {c} : on'[r] = on[r] /\ ret'[r] = ret[r] /\ strict'[r] = strict[r]
  /\ \A d \in Request \ {c} : tgt'[d] = tgt[d]
  /\ \A a \in Agent : life'[a] = "up" => life[a] = "up"

LEMMA BystanderWakes ==
  ASSUME IInv, Home, Awake, phase = "run", NEW c \in Request, Bystander(c)  PROVE Awake'
<1>0. WakeTypes
  BY WakeTyped
<1>1. /\ UNCHANGED <<mine, entry, agentOf, queue>>
      /\ \A d \in Request \ {c} : pc'[d] = pc[d] /\ tgt'[d] = tgt[d]
  BY <1>0 DEF Bystander, WakeTypes
<1>2. InPlace'
  <2>1. ASSUME NEW r \in Runner, r # c PROVE
          /\ pc'[r] = pc[r] /\ mine'[r] = mine[r] /\ on'[r] = on[r] /\ ret'[r] = ret[r]
          /\ strict'[r] = strict[r] /\ tgt'[r] = tgt[r] /\ agentOf' = agentOf /\ entry' = entry
    BY <1>0, <1>1, <2>1 DEF Bystander, WakeTypes
  <2>2. c \in Runner =>
          /\ pc'[c] \in BeforePC => mine'[c] = None
          /\ pc'[c] \notin OnlyCompressPC \cup TurnPC \cup OnPC \cup CleanPC
    BY <1>1 DEF Bystander, Awake, InPlace, OnPC, CleanPC, TurnPC, OnlyCompressPC
  <2> QED BY <2>1, <2>2 DEF Awake, InPlace, TurnPC
<1>3. LeftEmpty'
  <2>1. \A r \in Runner : pc'[r] = "release" => pc[r] = "release"
    BY <1>0, <1>1 DEF Bystander, WakeTypes
  <2> QED BY <1>0, <1>1, <2>1 DEF Bystander, LeftEmpty, Awake, Usable, WakeTypes
<1>4. Unfinished'
  BY <1>0, <1>1 DEF Bystander, Unfinished, Awake, AfterDetach, WakeTypes, TurnPC, CleanPC
<1>5. SameTalk'
  BY TalkKept DEF Bystander, Awake, WakeTypes, IInv, TypeOK, StatesOK
<1>6. NoLostWakeup'
  <2>1. ASSUME NEW q \in State, queue[q] # <<>>
        PROVE  \/ \E r \in Runner : WillServe(r, q)'
               \/ \E d \in Request : WillDrop(d, q)'
    <3>1. ~WillDrop(c, q)
      BY DEF WillDrop, Bystander, TurnPC, CleanPC
    <3>2. c \in Runner => ~WillServe(c, q)
      BY <1>0 DEF WillServe, Bystander, Holds, HoldPC, TurnPC, CleanPC, Awake, InPlace,
                  OnlyCompressPC, WakeTypes
    <3>3. \/ \E r \in Runner \ {c} : WillServe(r, q)
          \/ \E d \in Request \ {c} : WillDrop(d, q)
      BY <2>1, <3>1, <3>2 DEF Awake, NoLostWakeup, ctxDone
    <3> QED BY <1>0, <1>1, <3>3 DEF WillServe, WillDrop, Holds, WakeTypes
  <2> QED BY <1>1, <2>1 DEF NoLostWakeup
<1> QED BY <1>2, <1>3, <1>4, <1>5, <1>6 DEF Awake

\* While nobody holds the Session, nobody works with the entry.
LEMMA NobodyHolds ==
  ASSUME NewCmd = {}, NilInv, NEW m \in Runner, pc[m] \notin {"idle", "done"}, ~busy[sess[m]]
  PROVE  \A r \in Runner : pc[r] \notin HoldPC
<1>1. sess[m] \in Session /\ \A r \in Runner : Holds(r) => sess[r] = sess[m]
  BY DEF NilInv, LockInv, HasSession, Holds, HoldPC, Session
<1> QED BY <1>1 DEF NilInv, LockInv, LockHeld, Holds

\* A message that gets the Session, first or after it has queued.
LEMMA LockWakes ==
  ASSUME NewCmd = {}, NilInv, Home, Awake, phase = "run", NEW m \in Msg, ~busy[sess[m]],
         TryLock(m) \/ RetryLock(m)
  PROVE  Awake'
<1>0. WakeTypes /\ m \in Request /\ m \in Runner /\ IInv
  BY WakeTyped, Kinds DEF NilInv
<1>1. /\ \/ pc[m] = "try" /\ pc'[m] = "slot"
         \/ pc[m] = "retry" /\ pc'[m] = "orphan"
      /\ pc' = [pc EXCEPT ![m] = pc'[m]]
      /\ UNCHANGED <<mine, entry, agentOf, queue, sid, conv, shown, life, on, tgt, ret, strict>>
  BY <1>0 DEF TryLock, RetryLock, WakeTypes
<1>2. \A r \in Runner : pc[r] \notin HoldPC
  BY <1>0, <1>1, NobodyHolds
<1>3. \A c \in Request \ {m} : pc'[c] = pc[c]
  BY <1>0, <1>1 DEF WakeTypes
<1>h. \A r \in Runner : pc'[r] \notin HoldPC \/ r = m
  BY <1>0, <1>2, <1>3 DEF WakeTypes
<1>4. InPlace'
  <2>1. ASSUME NEW r \in Runner
        PROVE  /\ pc'[r] \notin TurnPC \cup {"ready"} \cup OnPC \cup CleanPC \cup OnlyCompressPC
               /\ pc'[r] \in BeforePC => mine'[r] = None
    BY <1>0, <1>1, <1>h, <1>3 DEF WakeTypes, Awake, InPlace, HoldPC, TurnPC, CleanPC, OnPC,
       OnlyCompressPC, BeforePC
  <2> QED BY <2>1 DEF InPlace
<1>5. LeftEmpty' /\ Unfinished'
  <2>1. \A r \in Runner : pc[r] # "start" /\ pc[r] \notin AfterDetach /\ pc'[r] # "release"
    BY <1>1, <1>2, <1>h DEF HoldPC, AfterDetach
  <2>2. entry # None => agentOf[entry] # None
    BY <2>1 DEF Awake, Unfinished
  <2> QED BY <1>1, <2>1, <2>2 DEF LeftEmpty, Unfinished
<1>6. SameTalk'
  BY <1>0, <1>1, TalkKept DEF Awake, WakeTypes
<1>7. NoLostWakeup'
  <2>1. ASSUME NEW q \in State, queue[q] # <<>>
        PROVE  \/ \E r \in Runner : WillServe(r, q)'
               \/ \E d \in Request : WillDrop(d, q)'
    <3>1. \/ \E r \in Runner : pc[r] = "retry" /\ entry = q
          \/ \E d \in Request : WillDrop(d, q)
      BY <1>2, <2>1 DEF Awake, NoLostWakeup, ctxDone, WillServe, Holds, HoldPC
    <3> QED BY <1>0, <1>1, <1>3, <3>1 DEF WillServe, WillDrop
  <2> QED BY <1>1, <2>1 DEF NoLostWakeup
<1> QED BY <1>4, <1>5, <1>6, <1>7 DEF Awake

\* A message that joins the queue of the entry looks whether the Session is free.
LEMMA QueueWakes ==
  ASSUME NewCmd = {}, NilInv, Home, Awake, phase = "run", NEW m \in Msg,
         QueueMessage(m), entry # None, CanQueue(entry)
  PROVE  Awake'
<1>0. WakeTypes /\ m \in Request /\ m \in Runner /\ IInv
  BY WakeTyped, Kinds DEF NilInv
<1>1. /\ pc[m] = "enqueue" /\ pc' = [pc EXCEPT ![m] = "retry"]
      /\ queue' = [queue EXCEPT ![entry] = Append(@, m)]
      /\ UNCHANGED <<mine, entry, agentOf, sid, conv, shown, life, on, tgt, ret, strict>>
  BY DEF QueueMessage
<1>2. /\ pc'[m] = "retry" /\ entry \in State /\ \A c \in Request \ {m} : pc'[c] = pc[c]
      /\ \A q \in State \ {entry} : queue'[q] = queue[q]
  BY <1>0, <1>1 DEF WakeTypes
<1>3. InPlace'
  BY <1>0, <1>1, <1>2 DEF Awake, InPlace, TurnPC, CleanPC, OnPC, OnlyCompressPC, BeforePC
<1>4. LeftEmpty'
  <2>1. \A r \in Runner : pc[r] # "release"
    BY DEF CanQueue, Awake, LeftEmpty
  <2> QED BY <1>0, <1>2, <2>1 DEF LeftEmpty, WakeTypes
<1>5. Unfinished'
  BY <1>0, <1>1, <1>2 DEF Unfinished, Awake, AfterDetach
<1>6. SameTalk'
  BY <1>0, <1>1, TalkKept DEF Awake, WakeTypes
<1>7. NoLostWakeup'
  <2>1. ASSUME NEW q \in State, q # entry, queue[q] # <<>>
        PROVE  \/ \E r \in Runner : WillServe(r, q)'
               \/ \E d \in Request : WillDrop(d, q)'
    <3>1. ~WillServe(m, q) /\ ~WillDrop(m, q)
      BY <1>1 DEF WillServe, WillDrop, Holds, HoldPC
    <3>2. \/ \E r \in Runner \ {m} : WillServe(r, q)
          \/ \E d \in Request \ {m} : WillDrop(d, q)
      BY <2>1, <3>1 DEF Awake, NoLostWakeup, ctxDone
    <3> QED BY <1>0, <1>1, <1>2, <3>2 DEF WillServe, WillDrop, Holds
  <2>2. \A q \in State : q = entry => WillServe(m, q)'
    BY <1>1, <1>2 DEF WillServe
  <2> QED BY <1>0, <1>2, <2>1, <2>2 DEF NoLostWakeup
<1> QED BY <1>3, <1>4, <1>5, <1>6, <1>7 DEF Awake

\* If the Session is not free, its holder will look at the queue of the entry.
LEMMA RetryWakes ==
  ASSUME NewCmd = {}, NilInv, Home, Awake, phase = "run", NEW m \in Msg, busy[sess[m]],
         RetryLock(m)
  PROVE  Awake'
<1>0. WakeTypes /\ m \in Request /\ m \in Runner /\ IInv
  BY WakeTyped, Kinds DEF NilInv
<1>1. /\ pc[m] = "retry" /\ pc' = [pc EXCEPT ![m] = "done"]
      /\ UNCHANGED <<mine, entry, agentOf, queue, sid, conv, shown, life, on, tgt, ret, strict>>
  BY DEF RetryLock
<1>2. pc'[m] = "done" /\ \A c \in Request \ {m} : pc'[c] = pc[c]
  BY <1>0, <1>1 DEF WakeTypes
<1>3. InPlace'
  BY <1>0, <1>1, <1>2 DEF Awake, InPlace, TurnPC, CleanPC, OnPC, OnlyCompressPC, BeforePC
<1>4. LeftEmpty' /\ Unfinished'
  BY <1>0, <1>1, <1>2 DEF LeftEmpty, Unfinished, Awake, AfterDetach, Usable
<1>6. SameTalk'
  BY <1>0, <1>1, TalkKept DEF Awake, WakeTypes
<1>7. NoLostWakeup'
  <2>1. PICK h \in Runner : Holds(h)
    BY <1>0, <1>1 DEF NilInv, LockInv, LockHeld, HasSession
  <2>2. entry # None /\ queue[entry] # <<>> => WillServe(h, entry)
    <3>1. pc[h] \notin OnlyCompressPC /\ (pc[h] \in TurnPC => entry \in {None, mine[h]})
      BY DEF Awake, InPlace
    <3>2. pc[h] = "release" /\ entry # None => queue[entry] = <<>>
      BY DEF Awake, LeftEmpty
    <3> QED BY <2>1, <3>1, <3>2 DEF WillServe, Holds, HoldPC, TurnPC, CleanPC, OnlyCompressPC
  <2>3. ASSUME NEW q \in State, queue[q] # <<>>
        PROVE  \/ \E r \in Runner \ {m} : WillServe(r, q)
               \/ \E d \in Request \ {m} : WillDrop(d, q)
    <3>1. ~WillDrop(m, q) /\ h # m
      BY <1>1, <2>1 DEF WillDrop, Holds, HoldPC
    <3>2. WillServe(m, q) => entry = q
      BY <1>1 DEF WillServe, Holds, HoldPC
    <3> QED BY <1>0, <2>2, <2>3, <3>1, <3>2 DEF Awake, NoLostWakeup, ctxDone, WakeTypes
  <2> QED BY <1>0, <1>1, <1>2, <2>3 DEF NoLostWakeup, WillServe, WillDrop, Holds
<1> QED BY <1>3, <1>4, <1>6, <1>7 DEF Awake

\* Alone with the Session at one of the places before a turn, m is the only one who
\* could serve the entry, but for those who have just queued.
LEMMA BeforeTurn ==
  ASSUME NewCmd = {}, NilInv, Awake, phase = "run", NEW m \in Msg,
         pc[m] \in {"slot", "start", "orphan"}
  PROVE  /\ \A r \in Runner \ {m} : pc[r] \notin HoldPC
         /\ mine[m] = None
         /\ \A q \in State : queue[q] # <<>> => q = entry \/ \E d \in Request : WillDrop(d, q)
         /\ entry # None /\ agentOf[entry] = None => pc[m] = "start"
<1>0. WakeTypes /\ m \in Runner /\ LockInv
  BY WakeTyped, Kinds DEF NilInv
<1>1. \A r \in Runner \ {m} : pc[r] \notin HoldPC
  <2>1. Holds(m)
    BY <1>0 DEF Holds, HoldPC
  <2> QED BY <1>0, <2>1, Solo DEF Holds
<1>2. mine[m] = None
  BY <1>0 DEF Awake, InPlace, BeforePC
<1>3. ASSUME NEW q \in State, queue[q] # <<>>
      PROVE  q = entry \/ \E d \in Request : WillDrop(d, q)
  BY <1>0, <1>1, <1>2, <1>3 DEF Awake, NoLostWakeup, ctxDone, WillServe, Holds, WakeTypes
<1>4. entry # None /\ agentOf[entry] = None => pc[m] = "start"
  BY <1>0, <1>1 DEF Awake, Unfinished, AfterDetach, HoldPC
<1> QED BY <1>1, <1>2, <1>3, <1>4

\* What then becomes of the rest of the invariant.
LEMMA AloneInPlace ==
  ASSUME NewCmd = {}, NilInv, Awake, phase = "run", NEW m \in Msg,
         pc[m] \in {"slot", "start", "orphan"},
         pc' = [pc EXCEPT ![m] = pc'[m]], mine' = [mine EXCEPT ![m] = mine'[m]],
         \/ pc'[m] \in {"start", "release"} /\ mine' = mine
         \/ /\ pc'[m] \in {"ready", "drain"} /\ entry' = mine'[m]
            /\ pc'[m] = "ready" => agentOf'[entry'] # None
  PROVE  /\ InPlace'
         /\ \A c \in Request \ {m} : pc'[c] = pc[c] /\ mine'[c] = mine[c]
<1>0. WakeTypes /\ m \in Runner
  BY WakeTyped, Kinds DEF NilInv
<1>1. \A c \in Request \ {m} : pc'[c] = pc[c] /\ mine'[c] = mine[c]
  BY <1>0 DEF WakeTypes
<1>2. ASSUME NEW r \in Runner, r # m
      PROVE  /\ pc'[r] \notin TurnPC \cup {"ready"} \cup OnPC \cup CleanPC \cup OnlyCompressPC
             /\ pc'[r] \in BeforePC => mine'[r] = None
  BY <1>0, <1>1, <1>2, BeforeTurn DEF Awake, InPlace, HoldPC, TurnPC, CleanPC, OnPC,
     OnlyCompressPC, BeforePC, WakeTypes
<1>3. /\ pc'[m] \notin OnPC \cup CleanPC \cup OnlyCompressPC
      /\ pc'[m] \in BeforePC => mine'[m] = None
      /\ pc'[m] \in TurnPC => entry' = mine'[m]
      /\ pc'[m] = "ready" => agentOf'[mine'[m]] # None
  BY BeforeTurn DEF BeforePC, TurnPC, CleanPC, OnPC, OnlyCompressPC
<1> QED BY <1>1, <1>2, <1>3 DEF InPlace

\* The race guard drains the queue of the entry, or tells everybody in it.
LEMMA OrphanWakes ==
  ASSUME NewCmd = {}, NilInv, Home, Awake, phase = "run", NEW m \in Msg, DrainOrphaned(m)
  PROVE  Awake'
<1>0. WakeTypes /\ m \in Request /\ m \in Runner /\ IInv /\ pc[m] = "orphan"
  BY WakeTyped, Kinds DEF NilInv, DrainOrphaned
<1>1. /\ pc' = [pc EXCEPT ![m] = pc'[m]] /\ mine' = [mine EXCEPT ![m] = mine'[m]]
      /\ UNCHANGED <<entry, agentOf, sid, conv, shown, life, tgt>>
      /\ entry # None => agentOf[entry] # None
  BY <1>0, BeforeTurn DEF DrainOrphaned, WakeTypes
<1>2. \/ /\ entry # None /\ pc'[m] = "drain" /\ mine'[m] = entry /\ queue' = queue
      \/ /\ entry # None /\ ~Usable(entry) /\ pc'[m] = "release" /\ mine' = mine
         /\ queue'[entry] = <<>> /\ \A q \in State \ {entry} : queue'[q] = queue[q]
      \/ entry = None /\ pc'[m] = "release" /\ mine' = mine /\ queue' = queue
  BY <1>0 DEF DrainOrphaned, WakeTypes
<1>3. InPlace' /\ \A c \in Request \ {m} : pc'[c] = pc[c] /\ mine'[c] = mine[c]
  BY <1>0, <1>1, <1>2, AloneInPlace
<1>4. LeftEmpty'
  <2>1. \A r \in Runner \ {m} : pc'[r] # "release"
    BY <1>0, <1>3, BeforeTurn DEF HoldPC, WakeTypes
  <2> QED BY <1>1, <1>2, <2>1 DEF LeftEmpty, Usable
<1>5. Unfinished'
  BY <1>1 DEF Unfinished
<1>6. SameTalk'
  BY <1>0, <1>1, TalkKept DEF Awake, WakeTypes
<1>7. NoLostWakeup'
  <2>1. ASSUME NEW q \in State, queue'[q] # <<>>, q # entry
        PROVE  \E d \in Request : WillDrop(d, q)'
    <3>1. PICK d \in Request : WillDrop(d, q)
      BY <1>0, <1>2, <2>1, BeforeTurn
    <3>2. d # m
      BY <1>0, <3>1 DEF WillDrop
    <3> QED BY <1>1, <1>3, <3>1, <3>2 DEF WillDrop
  <2>2. ASSUME NEW q \in State, queue'[q] # <<>>, q = entry
        PROVE  WillServe(m, q)'
    BY <1>0, <1>2, <2>2 DEF WillServe, Holds, HoldPC, WakeTypes
  <2> QED BY <1>0, <2>1, <2>2 DEF NoLostWakeup
<1> QED BY <1>3, <1>4, <1>5, <1>6, <1>7 DEF Awake

\* A placeholder has a queue which the turn that is about to start will adopt.
LEMMA SlotWakes ==
  ASSUME NewCmd = {}, NilInv, Home, Awake, phase = "run", NEW m \in Msg, EnsureSlot(m)
  PROVE  Awake'
<1>0. WakeTypes /\ m \in Request /\ m \in Runner /\ IInv /\ pc[m] = "slot"
  BY WakeTyped, Kinds DEF NilInv, EnsureSlot
<1>1. /\ pc' = [pc EXCEPT ![m] = "start"] /\ pc'[m] = "start"
      /\ UNCHANGED <<mine, agentOf, sid, conv, shown, life, tgt, queue>>
      /\ entry' = IF entry = None THEN <<m, "slot">> ELSE entry
  BY <1>0 DEF EnsureSlot, WakeTypes
<1>3. InPlace' /\ \A c \in Request \ {m} : pc'[c] = pc[c] /\ mine'[c] = mine[c]
  BY <1>0, <1>1, AloneInPlace DEF WakeTypes
<1>4. LeftEmpty'
  <2>1. \A r \in Runner : pc'[r] # "release"
    BY <1>0, <1>1, <1>3, BeforeTurn DEF HoldPC, WakeTypes
  <2> QED BY <2>1 DEF LeftEmpty
<1>5. Unfinished'
  <2>1. \E r \in Runner : pc'[r] = "start" \/ (pc'[r] \in AfterDetach /\ mine'[r] = entry')
    <3>1. m \in Runner /\ pc'[m] = "start"
      BY <1>0, <1>1
    <3> QED BY <3>1
  <2> QED BY <2>1 DEF Unfinished
<1>6. SameTalk'
  BY <1>0, <1>1, TalkKept DEF Awake, WakeTypes
<1>7. NoLostWakeup'
  <2>1. ASSUME NEW q \in State, queue[q] # <<>>, q # entry
        PROVE  \E d \in Request : WillDrop(d, q)'
    <3>1. PICK d \in Request : WillDrop(d, q)
      BY <1>0, <2>1, BeforeTurn
    <3>2. d # m
      BY <1>0, <3>1 DEF WillDrop
    <3> QED BY <1>1, <1>3, <3>1, <3>2 DEF WillDrop
  <2>2. ASSUME NEW q \in State, q = entry PROVE WillServe(m, q)'
    BY <1>0, <1>1, <2>2 DEF WillServe, WakeTypes
  <2> QED BY <1>0, <1>1, <2>1, <2>2 DEF NoLostWakeup
<1> QED BY <1>3, <1>4, <1>5, <1>6, <1>7 DEF Awake

\* A turn that reuses the entry, or installs a state that adopts the entry's queue,
\* will serve it.  The entry is never recycled.
LEMMA StartWakes ==
  ASSUME NewCmd = {}, "start" \notin Faults, NilInv, CloseInv, Awake, phase = "run",
         NEW m \in Msg, Reuse(m) \/ StartAgent(m) \/ StartFails(m)
  PROVE  Awake'
<1>0. /\ WakeTypes /\ m \in Request /\ m \in Runner /\ IInv /\ pc[m] = "start" /\ Home
      /\ m # None /\ Live(m) \in State /\ First \in Session /\ sess[m] = First
  BY WakeTyped, Kinds DEF NilInv, CloseInv, Reuse, StartAgent, StartFails, Live, State, Session,
     LockInv, HasSession
<1>t. /\ sid \in [Session -> Agent \cup {None}] /\ conv \in [Agent -> Agent]
      /\ shown \in [Agent -> BOOLEAN] /\ Agent = Msg
  BY <1>0 DEF IInv, TypeOK, SessionsOK, AgentsOK, Agent
<1>1. ~(entry # None /\ Usable(entry)) \/ Fits(m)
  BY <1>0 DEF Fits, Mismatch, Awake, SameTalk
<1>2. \/ Reuse(m)
      \/ StartAgent(m) /\ ~(entry # None /\ Usable(entry))
  BY <1>1 DEF Reuse, StartAgent, StartFails, ctxDone
<1>3. /\ pc' = [pc EXCEPT ![m] = "ready"] /\ pc'[m] = "ready"
      /\ mine' = [mine EXCEPT ![m] = entry'] /\ mine'[m] = entry'
      /\ entry' \in State /\ agentOf'[entry'] # None /\ UNCHANGED tgt
  BY <1>0, <1>2 DEF Reuse, Fits, Usable, StartAgent, Install, WakeTypes, Live
<1>4. InPlace' /\ \A c \in Request \ {m} : pc'[c] = pc[c] /\ mine'[c] = mine[c]
  BY <1>0, <1>3, AloneInPlace
<1>5. LeftEmpty' /\ Unfinished'
  <2>1. \A r \in Runner : pc'[r] # "release"
    BY <1>0, <1>3, <1>4, BeforeTurn DEF HoldPC, WakeTypes
  <2> QED BY <1>3, <2>1 DEF LeftEmpty, Unfinished
<1>6. SameTalk'
  <2>1. CASE Reuse(m)
    BY <1>0, <2>1, TalkKept DEF Reuse, Awake, WakeTypes
  <2>2. CASE StartAgent(m) /\ ~(entry # None /\ Usable(entry))
    <3>1. entry' = Live(m) /\ agentOf'[entry'] = m
      BY <1>0, <2>2 DEF StartAgent, Install, WakeTypes, Live
    <3>2. PICK c \in {sid[First], m}, knows \in BOOLEAN :
            /\ c # None /\ (c = m => sid[First] \in {None, m})
            /\ conv' = [conv EXCEPT ![m] = c] /\ shown' = [shown EXCEPT ![m] = knows]
            /\ sid' = IF knows /\ sid[First] = None THEN [sid EXCEPT ![First] = c] ELSE sid
      BY <1>0, <2>2 DEF StartAgent
    <3>3. conv'[m] = c /\ shown'[m] = knows
      BY <1>t, <3>2
    <3>4. CASE knows /\ sid[First] = None
      <4>1. sid'[First] = c
        BY <1>0, <1>t, <3>2, <3>4
      <4> QED BY <3>1, <3>3, <4>1 DEF SameTalk
    <3>5. CASE ~(knows /\ sid[First] = None)
      <4>1. sid' = sid /\ (sid[First] = c \/ (sid[First] = None /\ ~knows))
        BY <3>2, <3>5
      <4> QED BY <3>1, <3>3, <4>1 DEF SameTalk
    <3> QED BY <3>4, <3>5
  <2> QED BY <1>2, <2>1, <2>2
<1>7. NoLostWakeup'
  <2>1. ASSUME NEW q \in State, queue'[q] # <<>>, q # entry'
        PROVE  queue[q] # <<>> /\ q # entry
    BY <1>0, <1>2, <2>1 DEF Reuse, StartAgent, Install, WakeTypes, Live
  <2>2. ASSUME NEW q \in State, queue'[q] # <<>>, q # entry'
        PROVE  \E d \in Request : WillDrop(d, q)'
    <3>1. PICK d \in Request : WillDrop(d, q)
      BY <1>0, <2>1, <2>2, BeforeTurn
    <3>2. d # m
      BY <1>0, <3>1 DEF WillDrop
    <3> QED BY <1>3, <1>4, <3>1, <3>2 DEF WillDrop
  <2>3. ASSUME NEW q \in State, q = entry' PROVE WillServe(m, q)'
    BY <1>0, <1>3, <2>3 DEF WillServe, Holds, HoldPC, WakeTypes
  <2> QED BY <1>0, <2>2, <2>3 DEF NoLostWakeup
<1> QED BY <1>4, <1>5, <1>6, <1>7 DEF Awake

\* A goroutine that finds its state with an agent, as it always does, runs the turn.
LEMMA ReadyMoves ==
  ASSUME Home, NilInv, Awake, NEW m \in Msg, Ready(m)  PROVE TurnMove(m) /\ SameTalk'
<1>0. /\ WakeTypes /\ m \in Request /\ m \in Runner /\ IInv /\ pc[m] = "ready"
      /\ agentOf[mine[m]] # None
  BY WakeTyped, Kinds DEF NilInv, Ready, Awake, InPlace
<1>1. TurnMove(m)
  BY <1>0 DEF Ready, TurnMove, TurnPC, OnPC, CleanPC, AfterDetach, WakeTypes, Awake, InPlace
<1>2. SameTalk'
  BY <1>0, TalkKept DEF Ready, Awake, WakeTypes
<1> QED BY <1>1, <1>2

\* A /stop takes the entry, and with it the duty to tell everybody in its queue.
LEMMA StopTakesOver ==
  ASSUME NilInv, Awake, phase = "run", NEW c \in StopCmd, CmdStop(c), entry # None
  PROVE  Awake'
<1>0. WakeTypes /\ c \in Request \ Runner /\ entry \in State
  BY WakeTyped, Kinds DEF NilInv, WakeTypes
<1>1. /\ pc[c] = "idle" /\ pc'[c] = "resolve" /\ tgt'[c] = entry /\ entry' = None
      /\ \A d \in Request \ {c} : pc'[d] = pc[d] /\ tgt'[d] = tgt[d] /\ on'[d] = on[d]
      /\ UNCHANGED <<mine, agentOf, queue, strict, ret>>
  BY <1>0 DEF CmdStop, WakeTypes
<1>2. InPlace'
  BY <1>0, <1>1 DEF Awake, InPlace, WakeTypes
<1>3. LeftEmpty' /\ Unfinished' /\ SameTalk'
  BY <1>1 DEF LeftEmpty, Unfinished, SameTalk
<1>4. NoLostWakeup'
  <2>1. ASSUME NEW q \in State, queue[q] # <<>>
        PROVE  \/ \E r \in Runner : WillServe(r, q)'
               \/ \E d \in Request : WillDrop(d, q)'
    <3>1. CASE q = entry
      BY <1>0, <1>1, <3>1 DEF WillDrop
    <3>2. CASE q # entry /\ \E r \in Runner : WillServe(r, q)
      BY <1>0, <1>1, <3>2 DEF WillServe, Holds, HoldPC, WakeTypes
    <3>3. CASE \E d \in Request : WillDrop(d, q)
      BY <1>1, <3>3 DEF WillDrop
    <3> QED BY <2>1, <3>1, <3>2, <3>3 DEF Awake, NoLostWakeup, ctxDone
  <2> QED BY <1>1, <2>1 DEF NoLostWakeup
<1> QED BY <1>2, <1>3, <1>4 DEF Awake

\* It does so, and closes the agent.
LEMMA StopDropWakes ==
  ASSUME NilInv, Home, Awake, phase = "run", NEW c \in StopCmd, StopDrop(c)  PROVE Awake'
<1>0. WakeTypes /\ c \in Request \ Runner /\ IInv /\ tgt[c] \in State
  BY WakeTyped, Kinds DEF NilInv, WakeTypes, StopDrop, TgtPC
<1>1. /\ pc[c] = "drop" /\ pc'[c] = "kill" /\ \A d \in Request \ {c} : pc'[d] = pc[d]
      /\ queue'[tgt[c]] = <<>> /\ \A q \in State \ {tgt[c]} : queue'[q] = queue[q]
      /\ UNCHANGED <<mine, entry, agentOf, sid, conv, shown, life, on, tgt, ret, strict>>
  BY <1>0 DEF StopDrop, DropQueue, WakeTypes
<1>2. \A r \in Runner : pc'[r] = pc[r]
  BY <1>0, <1>1 DEF WakeTypes
<1>3. InPlace' /\ Unfinished'
  BY <1>1, <1>2 DEF Awake, InPlace, Unfinished
<1>4. LeftEmpty'
  BY <1>0, <1>1, <1>2 DEF Awake, LeftEmpty, Usable, WakeTypes
<1>5. SameTalk'
  BY <1>0, <1>1, TalkKept DEF Awake, WakeTypes
<1>6. NoLostWakeup'
  <2>1. ASSUME NEW q \in State, queue'[q] # <<>>
        PROVE  q # tgt[c] /\ queue[q] # <<>>
    BY <1>1, <2>1
  <2> QED BY <1>1, <1>2, <2>1 DEF Awake, NoLostWakeup, WillServe, WillDrop, Holds, ctxDone
<1> QED BY <1>3, <1>4, <1>5, <1>6 DEF Awake

\* A command or an answer resolves the request of a turn.
LEMMA ResolveWakes ==
  ASSUME NilInv, Home, Awake, phase = "run", NEW c \in StopCmd \cup Answer,
         StopResolve(c) \/ AnswerResolve(c)
  PROVE  Awake'
<1>0. WakeTypes /\ c \in Request \ Runner /\ IInv /\ PlacesOK
  BY WakeTyped, Kinds DEF NilInv, IInv, TypeOK
<1>1. /\ \/ pc[c] = "resolve" /\ pc' = [Woken(grip[c]) EXCEPT ![c] = "drop"]
         \/ pc[c] = "answer" /\ pc' = [Woken(grip[c]) EXCEPT ![c] = "done"]
      /\ UNCHANGED <<mine, entry, agentOf, queue, sid, conv, shown, life, on, tgt, ret, strict>>
  BY DEF StopResolve, AnswerResolve
<1>2. /\ \/ pc[c] = "resolve" /\ pc'[c] = "drop"
         \/ pc[c] = "answer" /\ pc'[c] = "done"
      /\ \A d \in Request \ {c} :
           pc'[d] = pc[d] \/ (pc[d] = "perm" /\ pc'[d] = "events")
  <2>1. /\ Woken(grip[c]) \in [Request -> PCs]
        /\ \A d \in Request : \/ Woken(grip[c])[d] = pc[d]
                              \/ pc[d] = "perm" /\ Woken(grip[c])[d] = "events"
    BY <1>0, Wakes
  <2> HIDE DEF Woken
  <2> QED BY <1>0, <1>1, <2>1
<1>3. \A r \in Runner : pc'[r] = pc[r] \/ (pc[r] = "perm" /\ pc'[r] = "events")
  BY <1>0, <1>2 DEF WakeTypes
<1>4. InPlace'
  BY <1>1, <1>3 DEF Awake, InPlace, BeforePC, TurnPC, OnlyCompressPC, OnPC, CleanPC
<1>5. LeftEmpty' /\ Unfinished'
  BY <1>1, <1>3 DEF Awake, LeftEmpty, Unfinished, Usable, AfterDetach
<1>6. SameTalk'
  BY <1>0, <1>1, TalkKept DEF Awake, WakeTypes
<1>7. NoLostWakeup'
  <2>1. \A q \in State, r \in Runner : WillServe(r, q) => WillServe(r, q)'
    BY <1>1, <1>3 DEF WillServe, Holds, HoldPC
  <2>2. \A q \in State, d \in Request : WillDrop(d, q) => WillDrop(d, q)'
    BY <1>1, <1>2 DEF WillDrop
  <2> QED BY <1>1, <2>1, <2>2 DEF Awake, NoLostWakeup, ctxDone
<1> QED BY <1>4, <1>5, <1>6, <1>7 DEF Awake

\* An agent that dies moves nobody.
LEMMA DeathWakes ==
  ASSUME NilInv, Home, Awake, phase = "run",
         (\E a \in Agent : AgentDies(a) \/ AgentCloses(a)) \/ UNCHANGED vars
         \/ (\E q \in State : LateSend(q))
  PROVE  Awake'
<1>0. WakeTypes /\ IInv
  BY WakeTyped DEF NilInv
<1>1. /\ \A a \in Agent : life'[a] = "up" => life[a] = "up"
      /\ UNCHANGED <<pc, mine, entry, agentOf, queue, sid, conv, shown, on, tgt, ret, strict>>
  BY <1>0 DEF AgentDies, AgentCloses, LateSend, vars, WakeTypes
<1>2. InPlace' /\ LeftEmpty' /\ Unfinished'
  BY <1>0, <1>1 DEF Awake, InPlace, LeftEmpty, Unfinished, Usable, WakeTypes
<1>3. SameTalk'
  BY <1>0, <1>1, TalkKept DEF Awake, WakeTypes
<1>4. NoLostWakeup'
  BY <1>1 DEF Awake, NoLostWakeup, WillServe, WillDrop, Holds, ctxDone
<1> QED BY <1>2, <1>3, <1>4 DEF Awake

\* The other steps of messages, commands and answers.
LEMMA OthersWake ==
  ASSUME NilInv, Home, Awake, phase = "run",
         \/ \E m \in Msg : \/ HintPending(m) \/ Arrive(m)
                           \/ TryLock(m) /\ busy[sess[m]]
                           \/ QueueMessage(m) /\ ~(entry # None /\ CanQueue(entry))
         \/ \E c \in StopCmd : (CmdStop(c) /\ entry = None) \/ StopClose(c)
         \/ \E c \in Answer : AnswerRead(c)
  PROVE  Awake'
<1>0. WakeTypes /\ IInv
  BY WakeTyped DEF NilInv
<1>. USE DEF Bystander, BeforePC, TurnPC, CleanPC, OnlyCompressPC, WakeTypes
<1>1. ASSUME NEW m \in Msg,
             \/ HintPending(m) \/ Arrive(m) \/ (TryLock(m) /\ busy[sess[m]])
             \/ QueueMessage(m) /\ ~(entry # None /\ CanQueue(entry))
      PROVE  m \in Request /\ Bystander(m)
  BY <1>0, <1>1, Kinds DEF HintPending, Arrive, TryLock, QueueMessage
<1>2. ASSUME NEW c \in StopCmd, (CmdStop(c) /\ entry = None) \/ StopClose(c)
      PROVE  c \in Request /\ Bystander(c)
  BY <1>0, <1>2, Kinds DEF CmdStop, StopClose, CloseAgent
<1>3. ASSUME NEW c \in Answer, AnswerRead(c)
      PROVE  c \in Request /\ Bystander(c)
  BY <1>0, <1>3, Kinds DEF AnswerRead
<1>. HIDE DEF Bystander, WakeTypes
<1> QED BY <1>0, <1>1, <1>2, <1>3, BystanderWakes

\* The engine's context is canceled once and for all.
LEMMA PhaseStays == ASSUME [Next]_vars, phase' = "run" PROVE phase = "run"
<1>1. ASSUME NEW m \in Msg, HandleMessage(m) \/ StartTurn(m) PROVE phase' = phase
  BY <1>1 DEF HandleMessage, StartTurn, HintPending, Arrive, TryLock, QueueMessage, RetryLock,
     DrainOrphaned, EnsureSlot, Abandon, Reuse, StartAgent, StartFails, Ready
<1>2. ASSUME NEW r \in Runner, RunTurn(r) PROVE phase' = phase
  BY <1>2 DEF RunTurn, Dispatch, SendReturns, SendFails, SeeStop, ReceiveEvent, EventText,
     EventPermission, ResultUnsent, ResultSent, ResultCompress, ResultNext, SendNext,
     ResultLast, ReturnLast, EventError, ChannelClosed, IdleTimeout, DrainEmpty, DrainNext,
     Release, UnlockAndReturn, NilCall
<1>3. ASSUME NEW r \in Runner, Compress(r) PROVE phase' = phase
  BY <1>3 DEF Compress, RunCompress, CompressStopped, CompressBroken, CompressDrop,
     CompressEnds, CompressDies, NilCall
<1>4. ASSUME NEW r \in Runner \cup NewCmd, CleanUp(r) PROVE phase' = phase
  BY <1>4 DEF CleanUp, Detach, Notify, Close, Unmap
<1>5. ASSUME NEW c, \/ CmdCompress(c) \/ CompressTryLock(c)
                    \/ CmdStop(c) \/ StopResolve(c) \/ StopDrop(c) \/ StopClose(c)
                    \/ CmdNew(c) \/ NewSession(c) \/ AnswerRead(c) \/ AnswerResolve(c)
                    \/ AgentDies(c) \/ AgentCloses(c)
      PROVE  phase' = phase
  BY <1>5 DEF CmdCompress, CompressTryLock, CmdStop, StopResolve, StopDrop, StopClose, CmdNew,
     NewSession, AnswerRead, AnswerResolve, AgentDies, AgentCloses
<1>6. Cancel \/ Sweep => phase' # "run"
  BY DEF Cancel, Sweep
<1>7. ASSUME NEW q \in State, LateSend(q) PROVE phase' = phase
  BY <1>7 DEF LateSend
<1> QED BY <1>1, <1>2, <1>3, <1>4, <1>5, <1>6, <1>7 DEF Next, vars

\* Every step keeps the invariant.
LEMMA NextWake ==
  ASSUME NewCmd = {}, CompressCmd = {}, ~AutoCompress, "start" \notin Faults,
         WakeInv, [Next]_vars
  PROVE  WakeInv'
<1>1. CloseInv' /\ NilInv'
  BY NextClose, NextNil DEF WakeInv
<1>2. ASSUME phase' = "run" PROVE Awake'
  <2>0. phase = "run" /\ Awake /\ NilInv /\ CloseInv /\ Home
    BY <1>2, PhaseStays DEF WakeInv, CloseInv
  <2>1. ASSUME NEW m \in Msg, HandleMessage(m) PROVE Awake'
    BY <2>0, <2>1, OthersWake, LockWakes, QueueWakes, RetryWakes, OrphanWakes, SlotWakes
       DEF HandleMessage
  <2>2. ASSUME NEW m \in Msg, StartTurn(m) PROVE Awake'
    <3>1. m \in Runner
      BY Kinds
    <3> QED BY <2>0, <2>2, <3>1, StartWakes, ReadyMoves, TurnWakes DEF StartTurn, Abandon,
               ctxDone, Awake
  <2>3. ASSUME NEW r \in Runner, RunTurn(r) PROVE Awake'
    BY <2>0, <2>3, RunTurnMoves, RunTurnTalks, TurnWakes, ReturnWakes DEF Awake
  <2>4. ASSUME NEW r \in Runner, CleanUp(r) PROVE Awake'
    BY <2>0, <2>4, CleanUpMoves, TurnWakes DEF Awake
  <2>5. ASSUME NEW r \in Runner PROVE ~Compress(r)
    BY <2>0 DEF Awake, InPlace, OnlyCompressPC, Compress, RunCompress, CompressStopped,
       CompressBroken, CompressDrop, CompressEnds, CompressDies, CompressEvent
  <2>6. ASSUME NEW c \in StopCmd, CmdStop(c) \/ StopResolve(c) \/ StopDrop(c) \/ StopClose(c)
        PROVE  Awake'
    BY <2>0, <2>6, OthersWake, StopTakesOver, ResolveWakes, StopDropWakes
  <2>7. ASSUME NEW c \in Answer, AnswerRead(c) \/ AnswerResolve(c) PROVE Awake'
    BY <2>0, <2>7, OthersWake, ResolveWakes
  <2>8. CASE (\E a \in Agent : AgentDies(a) \/ AgentCloses(a)) \/ UNCHANGED vars
         \/ (\E q \in State : LateSend(q))
    BY <2>0, <2>8, DeathWakes
  <2>9. ~Cancel /\ ~Sweep
    BY <1>2 DEF Cancel, Sweep
  <2> QED BY <2>1, <2>2, <2>3, <2>4, <2>5, <2>6, <2>7, <2>8, <2>9 DEF Next
<1> QED BY <1>1, <1>2 DEF WakeInv

LEMMA InitWake == Init => WakeInv
<1>1. Init => Awake
  BY Kinds DEF Init, Awake, InPlace, LeftEmpty, Unfinished, SameTalk, NoLostWakeup, BeforePC,
     TurnPC, OnlyCompressPC, OnPC, CleanPC
<1>2. Init => NilInv
  BY InitTypes, InitLock, Kinds DEF NilInv, HasAgent, Init, UsePC, CompressPC
<1> QED BY <1>1, <1>2, InitClose DEF WakeInv

\* NoLostWakeup, without /new and compressions and when no agent fails to start: as
\* long as the engine runs, a queue with messages in it is one that somebody will
\* still look at, whatever way turns, queueing messages, stops, answers and dying
\* agents interleave.  With those features the code does lose queues: a recycled
\* state's, and that of a turn whose agent did not start or of a failed /compress.
THEOREM QueuesWatched ==
  ASSUME NewCmd = {}, CompressCmd = {}, ~AutoCompress, "start" \notin Faults
  PROVE  Spec => []NoLostWakeup
<1>1. WakeInv /\ [Next]_vars => WakeInv'
  BY NextWake
<1>2. WakeInv => NoLostWakeup
  BY DEF WakeInv, Awake, NoLostWakeup, ctxDone
<1>3. QED
  BY <1>1, <1>2, InitWake, PTL DEF Spec

-----------------------------------------------------------------------------
(* The conversation a turn runs in *)

\* A turn is sent to an agent that runs the conversation of its Session, as soon as
\* the Session knows it; the check of getOrCreateInteractiveStateWith is made only
\* once, before the turn, while an agent may report its id much later.
InConversation == phase = "run" =>
  \A r \in Runner : pc[r] \in OnPC /\ sid[sess[r]] # None => conv[on[r]] = sid[sess[r]]

\* The agent of the state q, if it has one, runs no other conversation than the Session.
Suits(q) == agentOf[q] # None => sid[First] \in {None, conv[agentOf[q]]}

\* The inductive invariant of InConversation: a turn keeps its agent also after a
\* /stop has removed the entry, and others see that agent no more.
Suited == \A r \in Runner : pc[r] \in TurnPC => Suits(mine[r])

TalkInv == WakeInv /\ (phase = "run" => Suited)

\* A step that begins no turn and settles no conversation.
TalksAlong ==
  /\ sid' = sid /\ conv' = conv
  /\ \A q \in State : agentOf'[q] \in {agentOf[q], None}
  /\ \A r \in Runner : pc'[r] \in TurnPC => pc[r] \in TurnPC /\ mine'[r] = mine[r]

\* Such steps keep every turn with an agent that suits its Session.
LEMMA AlongSuits ==
  ASSUME WakeTypes, Suited, TalksAlong  PROVE Suited'
<1>1. ASSUME NEW r \in Runner, pc'[r] \in TurnPC PROVE Suits(mine[r])'
  <2>1. pc[r] \in TurnPC /\ mine'[r] = mine[r] /\ mine[r] \in State
    BY <1>1 DEF TalksAlong, WakeTypes, TurnPC, MinePC, CleanPC
  <2>2. Suits(mine[r]) /\ agentOf'[mine[r]] \in {agentOf[mine[r]], None}
    BY <2>1 DEF Suited, TalksAlong
  <2> QED BY <2>1, <2>2 DEF Suits, TalksAlong
<1> QED BY <1>1 DEF Suited

\* A turn that reuses the entry's agent, or starts one, begins in the Session's
\* conversation, and nobody else has a turn then.
LEMMA BeginsSuited ==
  ASSUME NewCmd = {}, "start" \notin Faults, WakeInv, phase = "run",
         NEW m \in Msg, Reuse(m) \/ StartAgent(m) \/ StartFails(m)
  PROVE  Suited'
<1>0. NilInv /\ CloseInv /\ Awake /\ IInv /\ WakeTypes /\ Home
  BY WakeTyped DEF WakeInv, NilInv, CloseInv
<1>1. /\ m \in Request /\ m \in Runner /\ pc[m] = "start" /\ sess[m] = First /\ m # None
      /\ Live(m) \in State /\ First \in Session
  BY <1>0, Kinds DEF NilInv, Reuse, StartAgent, StartFails, Live, State, Session, LockInv, HasSession
<1>2. \A r \in Runner \ {m} : pc[r] \notin HoldPC
  BY <1>0, <1>1, Solo DEF NilInv, Holds, HoldPC
<1>3. pc' = [pc EXCEPT ![m] = "ready"]
  BY DEF Reuse, StartAgent, StartFails, Install
<1>4. ASSUME NEW r \in Runner, pc'[r] \in TurnPC PROVE r = m
  BY <1>0, <1>1, <1>2, <1>3, <1>4 DEF WakeTypes, TurnPC, HoldPC, CleanPC
<1>5. Suits(mine[m])'
  <2>1. SameTalk'
    BY <1>0, StartWakes DEF Awake
  <2>2. InPlace' /\ mine'[m] = entry' /\ entry' \in State
    BY <1>0, <1>1, StartWakes DEF Awake, Reuse, StartAgent, StartFails, Install, WakeTypes, Live, Fits
  <2>3. Usable(entry)'
    <3>1. CASE Reuse(m)
      BY <3>1 DEF Reuse, Fits, Usable
    <3>2. CASE StartAgent(m)
      BY <1>0, <1>1, <3>2, Kinds DEF StartAgent, Install, Usable, WakeTypes, Live
    <3>3. CASE StartFails(m)
      <4>1. ctxDone
        BY <3>3 DEF StartFails
      <4> QED BY <1>0, <4>1 DEF WakeInv, ctxDone
    <3> QED BY <3>1, <3>2, <3>3
  <2> QED BY <1>0, <2>1, <2>2, <2>3 DEF Suits, SameTalk, WakeTypes
<1> QED BY <1>4, <1>5 DEF Suited

\* The drain of a message that found the Session free works with the entry's agent.
LEMMA OrphanSuited ==
  ASSUME WakeInv, Suited, phase = "run", NEW m \in Msg, DrainOrphaned(m)
  PROVE  Suited'
<1>0. Awake /\ IInv /\ WakeTypes /\ m \in Request /\ m \in Runner
  BY WakeTyped, Kinds DEF WakeInv, NilInv
<1>1. CASE ~(entry # None /\ Usable(entry))
  <2>1. TalksAlong
    BY <1>0, <1>1 DEF DrainOrphaned, TalksAlong, WakeTypes, TurnPC, CleanPC
  <2> QED BY <1>0, <2>1, AlongSuits
<1>2. CASE entry # None /\ Usable(entry)
  <2>1. /\ pc' = [pc EXCEPT ![m] = "drain"] /\ mine' = [mine EXCEPT ![m] = entry]
        /\ UNCHANGED <<sid, conv, agentOf>>
    BY <1>2 DEF DrainOrphaned
  <2>2. Suits(entry)
    BY <1>0, <1>2 DEF Awake, SameTalk, Suits
  <2>3. ASSUME NEW r \in Runner, pc'[r] \in TurnPC PROVE Suits(mine[r])'
    BY <1>0, <2>1, <2>2, <2>3 DEF Suited, Suits, WakeTypes
  <2> QED BY <2>3 DEF Suited
<1> QED BY <1>1, <1>2

\* The id that a Session learns is that of the agent of the one turn it has.
LEMMA LearnsSuited ==
  ASSUME NewCmd = {}, WakeInv, Suited, phase = "run", NEW r \in Runner,
         EventText(r) \/ ResultUnsent(r) \/ ResultSent(r)
  PROVE  Suited'
<1>0. Awake /\ IInv /\ WakeTypes /\ r \in Request /\ LockInv /\ NilInv
  BY WakeTyped, Kinds DEF WakeInv, NilInv
<1>1. /\ pc[r] = "event" /\ sess[r] = First /\ First \in Session /\ mine[r] \in State
      /\ on[r] = agentOf[mine[r]]
  BY <1>0 DEF EventText, ResultUnsent, ResultSent, LockInv, HasSession, Session, WakeTypes, MinePC,
     Awake, InPlace, OnPC
<1>2. \A c \in Runner \ {r} : pc[c] \notin HoldPC
  BY <1>0, <1>1, Solo DEF Holds, HoldPC
<1>3. /\ pc' = [pc EXCEPT ![r] = pc'[r]] /\ UNCHANGED <<mine, agentOf, conv>>
      /\ sid' = sid \/ Bind(First, agentOf[mine[r]])
  BY <1>0, <1>1 DEF EventText, ResultUnsent, ResultSent, LearnID, WakeTypes
<1>4. ASSUME NEW c \in Runner, pc'[c] \in TurnPC PROVE c = r
  BY <1>0, <1>2, <1>3, <1>4 DEF WakeTypes, TurnPC, HoldPC, CleanPC
<1>5. Suits(mine[r])
  BY <1>1 DEF Suited, TurnPC
<1>6. Suits(mine[r])'
  <2>1. sid \in [Session -> Agent \cup {None}]
    BY <1>0 DEF IInv, TypeOK, SessionsOK
  <2>2. sid'[First] = sid[First] \/ sid'[First] = conv[agentOf[mine[r]]]
    BY <1>1, <1>3, <2>1 DEF Bind
  <2> QED BY <1>3, <1>5, <2>2 DEF Suits
<1> QED BY <1>4, <1>6 DEF Suited

\* The other steps of a turn.
LEMMA RunTurnAlong ==
  ASSUME ~AutoCompress, WakeTypes, NEW r \in Runner, RunTurn(r),
         ~(EventText(r) \/ ResultUnsent(r) \/ ResultSent(r)), NotNested
  PROVE  TalksAlong
<1>0. r \in Request
  BY DEF WakeTypes
<1>. USE DEF TalksAlong, TurnPC, CleanPC, WakeTypes
<1>1. CASE Dispatch(r) \/ SendReturns(r)
  BY <1>0, <1>1 DEF Dispatch, SendReturns, NilCall
<1>2. CASE SendFails(r)
  BY <1>0, <1>2 DEF SendFails, Cleanup
<1>3. CASE SeeStop(r) \/ ReceiveEvent(r) \/ EventPermission(r)
  BY <1>0, <1>3 DEF SeeStop, ReceiveEvent, EventPermission
<1>4. CASE ResultCompress(r) \/ ResultNext(r) \/ ResultLast(r) \/ ReturnLast(r)
  BY <1>0, <1>4 DEF ResultCompress, ResultNext, ResultLast, ReturnLast
<1>5. CASE SendNext(r)
  BY <1>0, <1>5 DEF SendNext, NilCall
<1>6. CASE EventError(r)
  BY <1>0, <1>6 DEF EventError
<1>7. CASE ChannelClosed(r) \/ IdleTimeout(r)
  BY <1>0, <1>7 DEF ChannelClosed, IdleTimeout, Cleanup
<1>8. CASE DrainEmpty(r) \/ Release(r)
  BY <1>0, <1>8 DEF DrainEmpty, Release, UnlockAndReturn, NotNested
<1>9. CASE DrainNext(r)
  BY <1>0, <1>9 DEF DrainNext
<1> QED BY <1>1, <1>2, <1>3, <1>4, <1>5, <1>6, <1>7, <1>8, <1>9 DEF RunTurn

\* Everything else begins no turn and settles no conversation.
LEMMA OthersAlong ==
  ASSUME WakeInv, phase = "run",
         \/ \E m \in Msg : \/ HandleMessage(m) /\ ~DrainOrphaned(m)
                          \/ Abandon(m) \/ Ready(m)
         \/ \E r \in Runner : CleanUp(r)
         \/ \E c \in StopCmd : CmdStop(c) \/ StopResolve(c) \/ StopDrop(c) \/ StopClose(c)
         \/ \E c \in Answer : AnswerRead(c) \/ AnswerResolve(c)
         \/ (\E a \in Agent : AgentDies(a) \/ AgentCloses(a)) \/ UNCHANGED vars
         \/ (\E q \in State : LateSend(q))
  PROVE  TalksAlong
<1>0. /\ WakeTypes /\ PlacesOK /\ StopCmd \cup Answer \subseteq Request \ Runner
      /\ \A r \in Runner : pc[r] \in CleanPC => ret[r] = "drain"
  BY WakeTyped, Kinds DEF WakeInv, NilInv, IInv, TypeOK, Awake, InPlace
<1>. USE DEF TalksAlong, TurnPC, CleanPC, WakeTypes
<1>1. ASSUME NEW m \in Msg, HandleMessage(m), ~DrainOrphaned(m) PROVE TalksAlong
  BY <1>0, <1>1 DEF HandleMessage, HintPending, Arrive, TryLock, QueueMessage, RetryLock,
     EnsureSlot
<1>2. ASSUME NEW m \in Msg, Abandon(m) \/ Ready(m) PROVE TalksAlong
  BY <1>0, <1>2 DEF Abandon, Ready
<1>3. ASSUME NEW r \in Runner, CleanUp(r) PROVE TalksAlong
  BY <1>0, <1>3 DEF CleanUp, Detach, Notify, Close, Unmap
<1>4. ASSUME NEW c \in StopCmd, CmdStop(c) \/ StopDrop(c) \/ StopClose(c) PROVE TalksAlong
  BY <1>0, <1>4 DEF CmdStop, StopDrop, StopClose
<1>5. ASSUME NEW c \in Request, NEW p \in {"drop", "done"}, pc' = [Woken(grip[c]) EXCEPT ![c] = p],
             UNCHANGED <<sid, conv, agentOf, mine>>
      PROVE  TalksAlong
  <2>1. /\ Woken(grip[c]) \in [Request -> PCs]
        /\ \A d \in Request : \/ Woken(grip[c])[d] = pc[d]
                              \/ pc[d] = "perm" /\ Woken(grip[c])[d] = "events"
    BY <1>0, Wakes
  <2> HIDE DEF Woken
  <2> QED BY <1>0, <1>5, <2>1
<1>6. ASSUME NEW c \in StopCmd, StopResolve(c) PROVE TalksAlong
  BY <1>0, <1>5, <1>6 DEF StopResolve
<1>7. ASSUME NEW c \in Answer, AnswerRead(c) PROVE TalksAlong
  BY <1>0, <1>7 DEF AnswerRead
<1>8. ASSUME NEW c \in Answer, AnswerResolve(c) PROVE TalksAlong
  BY <1>0, <1>5, <1>8 DEF AnswerResolve
<1>9. CASE (\E a \in Agent : AgentDies(a) \/ AgentCloses(a)) \/ UNCHANGED vars
         \/ (\E q \in State : LateSend(q))
  BY <1>0, <1>9 DEF AgentDies, AgentCloses, LateSend, vars
<1> QED BY <1>1, <1>2, <1>3, <1>4, <1>6, <1>7, <1>8, <1>9

\* Every step keeps the invariant.
LEMMA NextTalk ==
  ASSUME NewCmd = {}, CompressCmd = {}, ~AutoCompress, "start" \notin Faults,
         TalkInv, [Next]_vars
  PROVE  TalkInv'
<1>1. WakeInv'
  BY NextWake DEF TalkInv
<1>2. ASSUME phase' = "run" PROVE Suited'
  <2>0. phase = "run" /\ WakeInv /\ Suited /\ WakeTypes /\ NotNested
    BY <1>2, PhaseStays, WakeTyped DEF TalkInv, Suited, WakeInv, NilInv, LockInv
  <2>1. ASSUME NEW m \in Msg, HandleMessage(m) PROVE Suited'
    BY <2>0, <2>1, OthersAlong, AlongSuits, OrphanSuited
  <2>2. ASSUME NEW m \in Msg, StartTurn(m) PROVE Suited'
    BY <2>0, <2>2, OthersAlong, AlongSuits, BeginsSuited DEF StartTurn
  <2>3. ASSUME NEW r \in Runner, RunTurn(r) PROVE Suited'
    BY <2>0, <2>3, RunTurnAlong, AlongSuits, LearnsSuited
  <2>4. ASSUME NEW r \in Runner PROVE ~Compress(r)
    BY <2>0 DEF WakeInv, Awake, InPlace, OnlyCompressPC, Compress, RunCompress,
       CompressStopped, CompressBroken, CompressDrop, CompressEnds, CompressDies, CompressEvent
  <2>5. ~Cancel /\ ~Sweep
    BY <1>2 DEF Cancel, Sweep
  <2> QED BY <2>0, <2>1, <2>2, <2>3, <2>4, <2>5, OthersAlong, AlongSuits DEF Next
<1> QED BY <1>1, <1>2 DEF TalkInv, Suited

\* InConversation, without /new and compressions, and when every agent starts in the
\* conversation it was asked for: whatever is stopped, dies or times out meanwhile,
\* no message is sent to an agent that runs another conversation than its Session's.
\* With /new a message that came before it can meet the agent started after it.
THEOREM InOneConversation ==
  ASSUME NewCmd = {}, CompressCmd = {}, ~AutoCompress, "start" \notin Faults
  PROVE  Spec => []InConversation
<1>1. Init => TalkInv
  BY InitWake, Kinds DEF TalkInv, Suited, Init, TurnPC, CleanPC
<1>2. TalkInv /\ [Next]_vars => TalkInv'
  BY NextTalk
<1>3. TalkInv => InConversation
  <2>1. ASSUME TalkInv, phase = "run", NEW r \in Runner, pc[r] \in OnPC, sid[sess[r]] # None
        PROVE  conv[on[r]] = sid[sess[r]]
    <3>1. Awake /\ LockInv /\ WakeTypes /\ Suited
      BY <2>1, WakeTyped DEF TalkInv, WakeInv, NilInv, Suited
    <3>2. pc[r] \in TurnPC /\ sess[r] = First /\ on[r] = agentOf[mine[r]] /\ on[r] # None
      BY <2>1, <3>1 DEF Awake, InPlace, OnPC, TurnPC, OnlyCompressPC, LockInv, HasSession, Session,
         TalkInv, WakeInv, NilInv, HasAgent, UsePC
    <3> QED BY <2>1, <3>1, <3>2 DEF Suited, Suits
  <2> QED BY <2>1 DEF InConversation
<1> QED BY <1>1, <1>2, <1>3, PTL DEF Spec

-----------------------------------------------------------------------------
(* The refinement of ChatLine *)

\* A chat that nobody resets or stops, while the engine runs and agents start.
PlainChat == /\ StopCmd = {} /\ NewCmd = {} /\ CompressCmd = {} /\ ~AutoCompress
             /\ Faults \cap {"start", "shutdown"} = {}

\* Where a goroutine works on a turn whose message has not heard yet.
SpeakPC == {"slot", "start", "ready", "send", "events", "event", "perm", "next"}

\* The message that has the turn is that of the goroutine which works on it.
TurnOf ==
  /\ \A m \in Msg : fate[m] = "turn" => \E r \in Runner : pc[r] \in SpeakPC /\ cur[r] = m
  /\ \A r \in Runner : pc[r] \in SpeakPC => cur[r] \in Msg /\ fate[cur[r]] = "turn"

\* Only the cleanups of turns drop queues.
OnlyCleanups == \A c \in Request :
  pc[c] \notin {"resolve", "drop"} /\ (pc[c] = "notify" => c \in Runner)

\* The invariant under which every step is one of ChatLine, or none.
ServeInv == LineInv /\ WakeInv /\ phase = "run" /\ OnlyCleanups /\ TurnOf

Serves == TurnOf' /\ [Line!Next]_(Line!lineVars)

LEMMA ServeTyped ==
  ASSUME PlainChat, ServeInv
  PROVE  /\ WakeTypes /\ Awake /\ NilInv /\ LockInv /\ IInv /\ Msg = Runner
         /\ fate \in [Msg -> Fates] /\ queue \in [State -> Seq(Msg)]
         /\ cur \in [Request -> Msg \cup {None}] /\ DOMAIN pc = Request
<1>1. WakeTypes /\ Awake /\ NilInv /\ LockInv /\ IInv /\ Msg = Runner
  BY WakeTyped DEF PlainChat, ServeInv, WakeInv, NilInv, Runner
<1>2. QED
  BY <1>1 DEF IInv, TypeOK, NewsOK, QueuesOK, TurnsOK, PlacesOK

\* The line, when it is known where it can be.
LEMMA LineAt ==
  ASSUME NEW q, NEW s \in State, \A x \in State \ {s} : q[x] = <<>>
  PROVE  OneOf(q) = q[s]
<1>. DEFINE lined == {x \in State : q[x] # <<>>}
<1>1. CASE lined = {}
  BY <1>1 DEF OneOf
<1>2. CASE lined # {}
  <2>1. lined = {s}
    BY <1>2
  <2>2. (CHOOSE x \in lined : TRUE) = s
    BY <2>1
  <2> QED BY <1>2, <2>2 DEF OneOf
<1> QED BY <1>1, <1>2

\* All messages that wait are in the queue of the entry.
LEMMA OnlyEntry ==
  ASSUME PlainChat, ServeInv, entry # None
  PROVE  \A x \in State \ {entry} : queue[x] = <<>>
<1>0. WakeTypes /\ Awake
  BY ServeTyped
<1>1. SUFFICES ASSUME NEW x \in State, queue[x] # <<>> PROVE x = entry
  OBVIOUS
<1>2. ASSUME NEW r \in Runner, mine[r] = x, pc[r] \in TurnPC \/ (Holds(r) /\ pc[r] # "release")
      PROVE  x = entry
  <2>1. pc[r] \in BeforePC \/ pc[r] \in OnlyCompressPC \/ pc[r] \in TurnPC
    BY <1>2 DEF Holds, HoldPC, BeforePC, OnlyCompressPC, TurnPC, CleanPC
  <2> QED BY <1>0, <1>2, <2>1 DEF WakeTypes, Awake, InPlace
<1>3. ASSUME NEW c \in Request, WillDrop(c, x)  PROVE x = entry
  <2>1. c \in Runner /\ pc[c] = "notify" /\ tgt[c] = x
    BY <1>3 DEF WillDrop, ServeInv, OnlyCleanups
  <2>2. mine[c] = x /\ pc[c] \in TurnPC
    BY <1>0, <2>1 DEF Awake, InPlace, CleanPC, TurnPC
  <2> QED BY <1>2, <2>1, <2>2
<1> QED BY <1>0, <1>1, <1>2, <1>3 DEF Awake, NoLostWakeup, WillServe, ServeInv, ctxDone

\* All messages that wait are in the queue of the state that a turn works with.
LEMMA OnlyMine ==
  ASSUME PlainChat, ServeInv, NEW r \in Runner, pc[r] \in TurnPC
  PROVE  mine[r] \in State /\ \A x \in State \ {mine[r]} : queue[x] = <<>>
<1>0. WakeTypes /\ Awake /\ LockInv /\ Holds(r) /\ NewCmd = {}
  BY ServeTyped DEF PlainChat, Holds, HoldPC, TurnPC, CleanPC
<1>1. mine[r] \in State /\ entry \in {None, mine[r]}
  BY <1>0 DEF WakeTypes, TurnPC, CleanPC, MinePC, Awake, InPlace
<1>2. CASE entry = mine[r]
  BY <1>0, <1>1, <1>2, OnlyEntry DEF WakeTypes
<1>3. CASE entry = None
  <2>1. SUFFICES ASSUME NEW x \in State, queue[x] # <<>> PROVE x = mine[r]
    BY <1>1
  <2>2. ASSUME NEW c \in Runner, WillServe(c, x) PROVE x = mine[r]
    BY <1>0, <1>3, <2>2, Solo DEF WillServe, WakeTypes
  <2>3. ASSUME NEW c \in Request, WillDrop(c, x) PROVE x = mine[r]
    <3>1. c \in Runner /\ pc[c] = "notify" /\ tgt[c] = x
      BY <2>3 DEF WillDrop, ServeInv, OnlyCleanups
    <3>2. mine[c] = x /\ Holds(c)
      BY <1>0, <3>1 DEF Awake, InPlace, CleanPC, Holds, HoldPC
    <3> QED BY <1>0, <3>1, <3>2, Solo
  <2> QED BY <1>0, <2>1, <2>2, <2>3 DEF Awake, NoLostWakeup, ServeInv, ctxDone
<1> QED BY <1>1, <1>2, <1>3

\* Without a turn they are there as well, or there are none.
LEMMA QueuedSomewhere ==
  ASSUME PlainChat, ServeInv, \A r \in Runner : pc[r] \notin TurnPC, NEW s \in State,
         queue[s] # <<>>
  PROVE  entry = s
<1>0. WakeTypes /\ Awake
  BY ServeTyped
<1>1. ASSUME NEW r \in Runner, WillServe(r, s) PROVE entry = s
  <2>1. pc[r] \in BeforePC => mine[r] # s
    BY <1>0 DEF WakeTypes, Awake, InPlace
  <2>2. Holds(r) /\ pc[r] # "release" => pc[r] \in BeforePC \cup OnlyCompressPC
    BY DEF Holds, HoldPC, BeforePC, OnlyCompressPC, TurnPC, CleanPC
  <2> QED BY <1>0, <1>1, <2>1, <2>2 DEF WillServe, Awake, InPlace
<1>2. ASSUME NEW c \in Request PROVE ~WillDrop(c, s)
  BY DEF WillDrop, ServeInv, OnlyCleanups, TurnPC, CleanPC
<1> QED BY <1>0, <1>1, <1>2 DEF Awake, NoLostWakeup, ServeInv, ctxDone

\* The messages in the line are those whose senders have heard that they are queued.
LEMMA InLine ==
  ASSUME PlainChat, ServeInv, NEW s \in State, \A x \in State \ {s} : queue[x] = <<>>
  PROVE  /\ Waits = queue[s]
         /\ \A m \in Msg : fate[m] = "queued" <=> m \in Waiting(s)
         /\ Waiting(s) \subseteq Msg /\ Waiting(s) = {Waits[i] : i \in DOMAIN Waits}
<1>1. Waits = queue[s]
  BY LineAt DEF Waits
<1>2. \A x \in State \ {s} : Waiting(x) = {}
  BY DEF Waiting
<1>3. QED
  BY <1>1, <1>2, ServeTyped DEF Waiting, ServeInv, LineInv, Seats, QueuedIsThere

\* One goroutine speaks, and only for its message.
LEMMA Speaker ==
  ASSUME PlainChat, ServeInv, NEW r \in Runner, pc[r] \in HoldPC
  PROVE  /\ \A c \in Runner \ {r} : pc[c] \notin HoldPC
         /\ pc[r] \in SpeakPC => cur[r] \in Msg /\ Speaking = {cur[r]}
         /\ pc[r] \notin SpeakPC => Speaking = {}
<1>0. LockInv /\ NewCmd = {}
  BY ServeTyped DEF PlainChat
<1>1. \A c \in Runner \ {r} : pc[c] \notin HoldPC
  BY <1>0, Solo DEF Holds
<1>2. \A c \in Runner \ {r} : pc[c] \notin SpeakPC
  BY <1>1 DEF SpeakPC, HoldPC
<1>3. QED
  BY <1>1, <1>2 DEF ServeInv, TurnOf, Speaking

\* Steps that tell nobody anything and keep the line.
LEMMA SilentStep ==
  ASSUME TurnOf, fate' = fate, Waits' = Waits,
         \A r \in Runner : pc'[r] \in SpeakPC <=> pc[r] \in SpeakPC,
         \A r \in Runner : pc[r] \in SpeakPC => cur'[r] = cur[r]
  PROVE  Serves
<1>1. TurnOf'
  BY DEF TurnOf
<1>2. UNCHANGED Line!lineVars
  BY DEF Line!lineVars, Speaking, Informed
<1> QED BY <1>1, <1>2 DEF Serves

\* The turn of r ends; all who wait may be told with it.
LEMMA EndStep ==
  ASSUME PlainChat, ServeInv, NEW r \in Runner, pc[r] \in SpeakPC \cap TurnPC,
         pc' = [pc EXCEPT ![r] = pc'[r]], pc'[r] \notin SpeakPC, cur' = cur,
         NEW news \in Fates \ {"none", "queued", "turn"},
         \/ queue' = queue /\ fate' = Told(fate, r, news)
         \/ DropQueue(mine[r]) /\ fate' = Told(Dropped(mine[r]), r, news)
  PROVE  Serves
<1>0. /\ r \in Request /\ fate \in [Msg -> Fates] /\ queue \in [State -> Seq(Msg)]
      /\ mine[r] \in State /\ \A x \in State \ {mine[r]} : queue[x] = <<>>
      /\ \A c \in Runner \ {r} : pc'[c] = pc[c]
  BY ServeTyped, OnlyMine DEF WakeTypes
<1>1. /\ cur[r] \in Msg /\ Speaking = {cur[r]} /\ fate[cur[r]] = "turn" /\ cur[r] # None
      /\ \A c \in Runner : pc'[c] \notin SpeakPC
  <2>1. pc[r] \in HoldPC
    BY DEF SpeakPC, HoldPC
  <2> QED BY <1>0, <2>1, Speaker, ServeTyped, Kinds DEF SpeakPC, HoldPC, Speaking, Agent
<1>2. /\ Waits = queue[mine[r]]
      /\ \A m \in Msg : fate[m] = "queued" <=> m \in Waiting(mine[r])
      /\ Waiting(mine[r]) \subseteq Msg /\ Waiting(mine[r]) = {Waits[i] : i \in DOMAIN Waits}
  BY <1>0, InLine
<1>3. CASE queue' = queue /\ fate' = Told(fate, r, news)
  <2>1. \A m \in Msg : fate'[m] = IF m = cur[r] THEN news ELSE fate[m]
    BY <1>0, <1>1, <1>3 DEF Told
  <2>2. Speaking' = {} /\ Informed' = Informed \cup Speaking /\ Waits' = Waits
    BY <1>1, <1>3, <2>1 DEF Speaking, Informed, Waits
  <2>3. TurnOf'
    BY <1>1, <2>2 DEF TurnOf, Speaking
  <2> QED BY <1>1, <2>2, <2>3 DEF Serves, Line!Next, Line!End
<1>4. CASE DropQueue(mine[r]) /\ fate' = Told(Dropped(mine[r]), r, news)
  <2>1. \A m \in Msg : fate'[m] = IF m = cur[r] THEN news
                                  ELSE IF m \in Waiting(mine[r]) THEN "dropped" ELSE fate[m]
    BY <1>1, <1>4 DEF Told, Dropped
  <2>2. /\ Speaking' = {}
        /\ Informed' = Informed \cup Speaking \cup {Waits[i] : i \in DOMAIN Waits}
    BY <1>1, <1>2, <2>1 DEF Speaking, Informed
  <2>3. Waits' = <<>>
    <3>1. queue'[mine[r]] = <<>> /\ \A x \in State \ {mine[r]} : queue'[x] = <<>>
      BY <1>0, <1>4 DEF DropQueue
    <3> QED BY <1>0, <3>1, LineAt DEF Waits
  <2>4. TurnOf'
    BY <1>1, <2>2 DEF TurnOf, Speaking
  <2>5. CASE Waits = <<>>
    <3>1. Informed' = Informed \cup Speaking
      BY <2>2, <2>5
    <3> QED BY <1>1, <2>2, <2>3, <2>4, <2>5, <3>1 DEF Serves, Line!Next, Line!End
  <2>6. CASE Waits # <<>>
    BY <2>2, <2>3, <2>4, <2>6 DEF Serves, Line!Next, Line!DropAll
  <2> QED BY <2>5, <2>6
<1> QED BY <1>3, <1>4

\* Everybody in the line is told that nothing will come, while nobody has the turn.
LEMMA DropStep ==
  ASSUME PlainChat, ServeInv, NEW s \in State, \A x \in State \ {s} : queue[x] = <<>>,
         Speaking = {}, \A c \in Runner : pc'[c] \notin SpeakPC,
         DropQueue(s), fate' = Dropped(s)
  PROVE  Serves
<1>0. queue \in [State -> Seq(Msg)]
  BY ServeTyped
<1>1. /\ Waits = queue[s]
      /\ \A m \in Msg : fate[m] = "queued" <=> m \in Waiting(s)
      /\ Waiting(s) \subseteq Msg /\ Waiting(s) = {Waits[i] : i \in DOMAIN Waits}
  BY InLine
<1>2. \A m \in Msg : fate'[m] = IF m \in Waiting(s) THEN "dropped" ELSE fate[m]
  BY DEF Dropped
<1>3. /\ Speaking' = Speaking
      /\ Informed' = Informed \cup {Waits[i] : i \in DOMAIN Waits}
  BY <1>1, <1>2 DEF Speaking, Informed
<1>4. Waits' = <<>>
  <2>1. queue'[s] = <<>> /\ \A x \in State \ {s} : queue'[x] = <<>>
    BY <1>0 DEF DropQueue
  <2> QED BY <2>1, LineAt DEF Waits
<1>5. TurnOf'
  BY <1>3 DEF TurnOf, Speaking
<1>6. CASE Waits = <<>>
  <2>1. UNCHANGED <<Speaking, Waits, Informed>>
    BY <1>3, <1>4, <1>6
  <2> QED BY <1>5, <2>1 DEF Serves, Line!lineVars
<1>7. CASE Waits # <<>>
  BY <1>3, <1>4, <1>5, <1>7 DEF Serves, Line!Next, Line!DropAll
<1> QED BY <1>6, <1>7

\* The first in the line gets the turn of r.
LEMMA ServeStep ==
  ASSUME PlainChat, ServeInv, NEW r \in Runner, pc[r] \in TurnPC \ SpeakPC,
         queue[mine[r]] # <<>>, queue' = [queue EXCEPT ![mine[r]] = Tail(@)],
         fate' = [fate EXCEPT ![Head(queue[mine[r]])] = "turn"],
         cur' = [cur EXCEPT ![r] = Head(queue[mine[r]])],
         pc' = [pc EXCEPT ![r] = pc'[r]], pc'[r] \in SpeakPC
  PROVE  Serves
<1>. DEFINE s == mine[r]
            next == Head(queue[s])
<1>0. /\ r \in Request /\ fate \in [Msg -> Fates] /\ queue \in [State -> Seq(Msg)]
      /\ s \in State /\ \A x \in State \ {s} : queue[x] = <<>>
      /\ \A c \in Runner \ {r} : pc'[c] = pc[c] /\ cur'[c] = cur[c]
      /\ cur'[r] = next
  BY ServeTyped, OnlyMine DEF WakeTypes
<1>1. /\ Speaking = {} /\ \A c \in Runner \ {r} : pc[c] \notin HoldPC
  <2>1. pc[r] \in HoldPC
    BY DEF TurnPC, HoldPC, CleanPC
  <2> QED BY <2>1, Speaker
<1>2. Waits = queue[s] /\ \A m \in Msg : fate[m] = "queued" <=> m \in Waiting(s)
  BY <1>0, InLine
<1>3. next \in Msg /\ next = queue[s][1] /\ 1 \in DOMAIN queue[s]
  BY <1>0
<1>4. fate[next] = "queued"
  BY <1>2, <1>3 DEF Waiting
<1>5. \A m \in Msg : fate'[m] = IF m = next THEN "turn" ELSE fate[m]
  BY <1>0
<1>6. Speaking' = {next} /\ Informed' = Informed
  BY <1>1, <1>3, <1>4, <1>5 DEF Speaking, Informed
<1>7. Waits' = Tail(queue[s])
  <2>1. queue'[s] = Tail(queue[s]) /\ \A x \in State \ {s} : queue'[x] = <<>>
    BY <1>0
  <2> QED BY <1>0, <2>1, LineAt DEF Waits
<1>8. TurnOf'
  <2>1. \A m \in Msg : fate'[m] = "turn" => m = next
    BY <1>6 DEF Speaking
  <2>2. \A c \in Runner : pc'[c] \in SpeakPC => c = r
    BY <1>0, <1>1 DEF SpeakPC, HoldPC
  <2> QED BY <1>0, <1>3, <1>5, <2>1, <2>2 DEF TurnOf
<1> QED BY <1>1, <1>2, <1>6, <1>7, <1>8 DEF Serves, Line!Next, Line!Serve

\* Somebody who has not been told anything is no part of the line.
LEMMA IsNew ==
  ASSUME PlainChat, ServeInv, NEW m \in Msg, fate[m] = "none"
  PROVE  Line!New(m)
<1>1. m \notin Speaking \cup Informed
  BY DEF Speaking, Informed
<1>2. \A i \in DOMAIN Waits : Waits[i] # m
  <2>1. CASE \E s \in State : queue[s] # <<>>
    <3>1. PICK s \in State : queue[s] # <<>>
      BY <2>1
    <3>2. \A x \in State \ {s} : queue[x] = <<>>
      <4>1. CASE entry # None
        BY <3>1, <4>1, OnlyEntry, ServeTyped DEF WakeTypes
      <4>2. CASE \E r \in Runner : pc[r] \in TurnPC
        BY <3>1, <4>2, OnlyMine
      <4>3. CASE entry = None /\ \A r \in Runner : pc[r] \notin TurnPC
        BY <3>1, <4>3, QueuedSomewhere
      <4> QED BY <4>1, <4>2, <4>3
    <3>3. fate[m] = "queued" <=> m \in {Waits[i] : i \in DOMAIN Waits}
      BY <3>2, InLine
    <3> QED BY <3>3
  <2>2. CASE \A s \in State : queue[s] = <<>>
    BY <2>2 DEF Waits, OneOf
  <2> QED BY <2>1, <2>2
<1> QED BY <1>1, <1>2 DEF Line!New

\* A message is refused.
LEMMA RefuseStep ==
  ASSUME PlainChat, ServeInv, NEW m \in Msg, fate[m] = "none",
         NEW news \in Fates \ {"none", "queued", "turn"}, fate' = [fate EXCEPT ![m] = news],
         UNCHANGED <<queue, cur>>,
         \A r \in Runner : pc'[r] \in SpeakPC <=> pc[r] \in SpeakPC
  PROVE  Serves
<1>0. Line!New(m) /\ fate \in [Msg -> Fates]
  BY IsNew, ServeTyped
<1>1. \A x \in Msg : fate'[x] = IF x = m THEN news ELSE fate[x]
  BY <1>0
<1>2. Speaking' = Speaking /\ Informed' = Informed \cup {m} /\ Waits' = Waits
  BY <1>1 DEF Speaking, Informed, Waits
<1>3. TurnOf'
  BY <1>1 DEF ServeInv, TurnOf
<1> QED BY <1>0, <1>2, <1>3 DEF Serves, Line!Next, Line!Refuse

\* A message joins the line.
LEMMA JoinStep ==
  ASSUME PlainChat, ServeInv, NEW m \in Msg, QueueMessage(m), entry # None, CanQueue(entry)
  PROVE  Serves
<1>0. /\ m \in Request /\ fate \in [Msg -> Fates] /\ queue \in [State -> Seq(Msg)]
      /\ entry \in State /\ \A x \in State \ {entry} : queue[x] = <<>>
      /\ DOMAIN pc = Request /\ fate[m] = "none"
  BY ServeTyped, OnlyEntry, Kinds DEF WakeTypes, QueueMessage, ServeInv, LineInv, News
<1>1. /\ pc' = [pc EXCEPT ![m] = "retry"] /\ pc[m] = "enqueue" /\ cur' = cur
      /\ fate' = [fate EXCEPT ![m] = "queued"] /\ Len(queue[entry]) < MaxQueue
      /\ queue' = [queue EXCEPT ![entry] = Append(@, m)]
  BY DEF QueueMessage, CanQueue
<1>2. \A x \in Msg : fate'[x] = IF x = m THEN "queued" ELSE fate[x]
  BY <1>0, <1>1
<1>3. Speaking' = Speaking /\ Informed' = Informed
  BY <1>0, <1>2 DEF Speaking, Informed
<1>4. Waits = queue[entry] /\ Waits' = Append(queue[entry], m)
  <2>1. queue'[entry] = Append(queue[entry], m)
        /\ \A x \in State \ {entry} : queue'[x] = <<>>
    BY <1>0, <1>1
  <2> QED BY <1>0, <2>1, LineAt, InLine DEF Waits
<1>5. TurnOf'
  <2>1. \A r \in Runner : pc'[r] \in SpeakPC <=> pc[r] \in SpeakPC
    BY <1>0, <1>1 DEF SpeakPC
  <2> QED BY <1>0, <1>1, <1>2, <2>1 DEF ServeInv, TurnOf
<1>6. Line!Join(m)
  BY <1>0, <1>1, <1>3, <1>4, IsNew DEF Line!Join
<1> QED BY <1>5, <1>6 DEF Serves, Line!Next

\* A message finds the Session free, and gets its turn.
LEMMA BeginStep ==
  ASSUME PlainChat, ServeInv, NEW m \in Msg, TryLock(m), ~busy[sess[m]]
  PROVE  Serves
<1>0. /\ m \in Request /\ m \in Runner /\ fate \in [Msg -> Fates] /\ DOMAIN pc = Request
      /\ pc[m] = "try" /\ fate[m] = "none" /\ NilInv /\ NewCmd = {}
      /\ cur \in [Request -> Msg \cup {None}]
      /\ Runner \subseteq Request
  BY ServeTyped, Kinds DEF TryLock, ServeInv, LineInv, News, PlainChat
<1>1. \A r \in Runner : pc[r] \notin SpeakPC
  BY <1>0, NobodyHolds DEF SpeakPC, HoldPC
<1>2. /\ pc' = [pc EXCEPT ![m] = "slot"] /\ cur' = [cur EXCEPT ![m] = m]
      /\ fate' = [fate EXCEPT ![m] = "turn"] /\ queue' = queue
  BY DEF TryLock
<1>3. \A x \in Msg : fate'[x] = IF x = m THEN "turn" ELSE fate[x]
  BY <1>0, <1>2
<1>4. Speaking = {} /\ Speaking' = {m} /\ Informed' = Informed /\ Waits' = Waits
  <2>1. Speaking = {}
    BY <1>1 DEF ServeInv, TurnOf, Speaking
  <2> QED BY <1>0, <1>2, <1>3, <2>1 DEF Speaking, Informed, Waits
<1>5. TurnOf'
  <2>1. pc'[m] = "slot" /\ cur'[m] = m /\ \A r \in Runner \ {m} : pc'[r] \notin SpeakPC
    BY <1>0, <1>1, <1>2
  <2>2. \A x \in Msg : fate'[x] = "turn" => x = m
    BY <1>4 DEF Speaking
  <2> QED BY <1>0, <1>3, <2>1, <2>2 DEF TurnOf, SpeakPC
<1> QED BY <1>0, <1>4, <1>5, IsNew DEF Serves, Line!Next, Line!Begin

\* A new state takes over the line, in its order.
LEMMA AdoptStep ==
  ASSUME PlainChat, ServeInv, NEW m \in Msg, StartAgent(m)
  PROVE  Serves
<1>0. /\ m \in Request /\ m \in Runner /\ DOMAIN pc = Request /\ pc[m] = "start"
      /\ queue \in [State -> Seq(Msg)] /\ entry \in State \cup {None} /\ Awake
  BY ServeTyped, Kinds DEF StartAgent, WakeTypes
<1>s. Live(m) \in State /\ sess[m] = First
  BY <1>0, ServeTyped DEF Live, State, LockInv, HasSession, Session, PlainChat
<1>1. ~(entry # None /\ Usable(entry))
  BY <1>0, <1>s DEF StartAgent, Fits, Mismatch, Awake, SameTalk
<1>2. /\ pc' = [pc EXCEPT ![m] = "ready"] /\ UNCHANGED <<cur, fate>>
      /\ queue' = IF entry = None THEN queue
                  ELSE [queue EXCEPT ![Live(m)] = queue[entry], ![entry] = <<>>]
  BY <1>1 DEF StartAgent, Install, Live
<1>3. Waits' = Waits
  <2>1. CASE entry = None
    BY <1>2, <2>1 DEF Waits
  <2>2. CASE entry # None
    <3>1. /\ entry \in State /\ entry # Live(m)
          /\ \A x \in State \ {entry} : queue[x] = <<>>
      BY <1>0, <2>2, OnlyEntry DEF ServeInv, LineInv, CloseInv, Fresh, Early, Unborn
    <3>2. queue'[Live(m)] = queue[entry] /\ \A x \in State \ {Live(m)} : queue'[x] = <<>>
      BY <1>0, <1>s, <1>2, <2>2, <3>1
    <3> QED BY <1>0, <1>s, <3>1, <3>2, LineAt, InLine DEF Waits
  <2> QED BY <2>1, <2>2
<1>4. \A r \in Runner : pc'[r] \in SpeakPC <=> pc[r] \in SpeakPC
  BY <1>0, <1>2 DEF SpeakPC
<1> QED BY <1>2, <1>3, <1>4, SilentStep DEF ServeInv

\* The steps of a message before its turn.
LEMMA HandleMessageServes ==
  ASSUME PlainChat, ServeInv, NEW m \in Msg, HandleMessage(m)
  PROVE  Serves
<1>0. /\ m \in Request /\ m \in Runner /\ DOMAIN pc = Request /\ TurnOf
      /\ pc[m] \in {"idle", "try", "enqueue"} => fate[m] = "none"
      /\ Runner \subseteq Request /\ WakeTypes /\ Awake
      /\ fate \in [Msg -> Fates]
  BY ServeTyped, Kinds DEF ServeInv, LineInv, News
<1>1. CASE HintPending(m)
  <2>1. fate' = [fate EXCEPT ![m] = "hinted"] /\ UNCHANGED <<queue, cur>> /\ fate[m] = "none"
        /\ pc' = [pc EXCEPT ![m] = "done"] /\ pc[m] = "idle"
    BY <1>0, <1>1 DEF HintPending
  <2>2. \A r \in Runner : pc'[r] \in SpeakPC <=> pc[r] \in SpeakPC
    BY <1>0, <2>1 DEF SpeakPC
  <2>3. "hinted" \in Fates \ {"none", "queued", "turn"}
    BY DEF Fates
  <2> QED BY <2>1, <2>2, <2>3, RefuseStep
<1>2. CASE QueueMessage(m) /\ ~(entry # None /\ CanQueue(entry))
  <2>1. fate' = [fate EXCEPT ![m] = "rejected"] /\ UNCHANGED <<queue, cur>> /\ fate[m] = "none"
        /\ pc' = [pc EXCEPT ![m] = "done"] /\ pc[m] = "enqueue"
    BY <1>0, <1>2 DEF QueueMessage
  <2>2. \A r \in Runner : pc'[r] \in SpeakPC <=> pc[r] \in SpeakPC
    BY <1>0, <2>1 DEF SpeakPC
  <2>3. "rejected" \in Fates \ {"none", "queued", "turn"}
    BY DEF Fates
  <2> QED BY <2>1, <2>2, <2>3, RefuseStep
<1>3. CASE QueueMessage(m) /\ entry # None /\ CanQueue(entry)
  BY <1>3, JoinStep
<1>4. CASE TryLock(m) /\ ~busy[sess[m]]
  BY <1>4, BeginStep
<1>5. CASE \/ Arrive(m) \/ (TryLock(m) /\ busy[sess[m]]) \/ RetryLock(m) \/ EnsureSlot(m)
           \/ DrainOrphaned(m) /\ (entry = None \/ Usable(entry))
  <2>1. /\ UNCHANGED <<queue, cur, fate>> /\ pc' = [pc EXCEPT ![m] = pc'[m]]
        /\ pc'[m] \in SpeakPC <=> pc[m] \in SpeakPC
    BY <1>0, <1>5 DEF Arrive, TryLock, RetryLock, EnsureSlot, DrainOrphaned, SpeakPC
  <2>2. \A r \in Runner : pc'[r] \in SpeakPC <=> pc[r] \in SpeakPC
    BY <1>0, <2>1
  <2> QED BY <1>0, <2>1, <2>2, SilentStep DEF Waits
<1>6. CASE DrainOrphaned(m) /\ entry # None /\ ~Usable(entry)
  <2>1. /\ pc' = [pc EXCEPT ![m] = "release"] /\ pc[m] = "orphan"
        /\ DropQueue(entry) /\ fate' = Dropped(entry) /\ entry \in State
    BY <1>0, <1>6 DEF DrainOrphaned, DropQueue, WakeTypes
  <2>2. Speaking = {} /\ \A c \in Runner \ {m} : pc[c] \notin HoldPC
    BY <1>0, <2>1, Speaker DEF HoldPC, SpeakPC
  <2>3. \A c \in Runner : pc'[c] \notin SpeakPC
    BY <1>0, <2>1, <2>2 DEF SpeakPC, HoldPC
  <2> QED BY <1>6, <2>1, <2>2, <2>3, OnlyEntry, DropStep
<1> QED BY <1>1, <1>2, <1>3, <1>4, <1>5, <1>6 DEF HandleMessage

LEMMA StartTurnServes ==
  ASSUME PlainChat, ServeInv, NEW m \in Msg, StartTurn(m)
  PROVE  Serves
<1>0. /\ m \in Request /\ m \in Runner /\ DOMAIN pc = Request /\ TurnOf
      /\ Runner \subseteq Request /\ Awake /\ ~ctxDone /\ "start" \notin Faults
  BY ServeTyped, Kinds DEF ServeInv, PlainChat, ctxDone
<1>1. CASE StartAgent(m)
  BY <1>1, AdoptStep
<1>2. ~Abandon(m) /\ ~StartFails(m)
  BY <1>0 DEF Abandon, StartFails
<1>3. CASE Reuse(m) \/ Ready(m)
  <2>0. pc[m] = "ready" => agentOf[mine[m]] # None
    BY <1>0 DEF Awake, InPlace
  <2>1. /\ UNCHANGED <<queue, cur, fate>> /\ pc' = [pc EXCEPT ![m] = pc'[m]]
        /\ pc'[m] \in SpeakPC <=> pc[m] \in SpeakPC
    BY <1>0, <1>3, <2>0 DEF Reuse, Ready, SpeakPC
  <2>2. \A r \in Runner : pc'[r] \in SpeakPC <=> pc[r] \in SpeakPC
    BY <1>0, <2>1
  <2> QED BY <1>0, <2>1, <2>2, SilentStep DEF Waits
<1> QED BY <1>1, <1>2, <1>3 DEF StartTurn

LEMMA RunTurnServes ==
  ASSUME PlainChat, ServeInv, NEW r \in Runner, RunTurn(r)
  PROVE  Serves
<1>0. /\ r \in Request /\ DOMAIN pc = Request /\ TurnOf /\ Runner \subseteq Request
      /\ ~NilCall(r) \/ pc[r] \notin UsePC
      /\ pc \in [Request -> PCs]
  BY ServeTyped, Kinds DEF ServeInv, NilInv, HasAgent, NilCall, WakeTypes
<1>1. CASE \/ Dispatch(r) \/ SendReturns(r) \/ ReceiveEvent(r) \/ EventText(r)
           \/ EventPermission(r) \/ SendNext(r) \/ ResultLast(r) \/ ReturnLast(r)
           \/ DrainEmpty(r) \/ Release(r)
  <2>1. /\ UNCHANGED <<queue, cur, fate>> /\ pc' = [pc EXCEPT ![r] = pc'[r]]
        /\ pc'[r] \in SpeakPC <=> pc[r] \in SpeakPC
    <3>. USE DEF SpeakPC, UsePC
    <3>1. CASE Dispatch(r) \/ SendNext(r)
      BY <1>0, <3>1 DEF Dispatch, SendNext
    <3>5. CASE SendReturns(r)
      BY <1>0, <3>5 DEF SendReturns
    <3>2. CASE ReceiveEvent(r) \/ EventText(r) \/ EventPermission(r)
      BY <1>0, <3>2 DEF ReceiveEvent, EventText, EventPermission
    <3>3. CASE ResultLast(r) \/ ReturnLast(r)
      BY <1>0, <3>3 DEF ResultLast, ReturnLast
    <3>4. CASE DrainEmpty(r) \/ Release(r)
      <4>1. depth[r] = 0
        BY ServeTyped DEF LockInv, NotNested
      <4> QED BY <1>0, <3>4, <4>1 DEF DrainEmpty, Release, UnlockAndReturn
    <3> QED BY <1>1, <3>1, <3>2, <3>3, <3>4, <3>5
  <2>2. \A c \in Runner : pc'[c] \in SpeakPC <=> pc[c] \in SpeakPC
    BY <1>0, <2>1
  <2> QED BY <1>0, <2>1, <2>2, SilentStep DEF Waits
<1>2. CASE \/ SendFails(r) \/ EventError(r) \/ ChannelClosed(r) \/ SeeStop(r)
           \/ ResultUnsent(r) \/ ResultSent(r) \/ IdleTimeout(r)
  <2>1. /\ pc[r] \in SpeakPC \cap TurnPC /\ pc' = [pc EXCEPT ![r] = pc'[r]]
        /\ pc'[r] \notin SpeakPC /\ cur' = cur
    BY <1>0, <1>2 DEF SendFails, EventError, ChannelClosed, SeeStop, ResultUnsent, ResultSent,
       IdleTimeout, Cleanup, SpeakPC, TurnPC
  <2>2. \E news \in {"failed", "exited", "stopped", "answered"} :
          \/ queue' = queue /\ fate' = Told(fate, r, news)
          \/ DropQueue(mine[r]) /\ fate' = Told(Dropped(mine[r]), r, news)
    BY <1>2 DEF SendFails, EventError, ChannelClosed, SeeStop, ResultUnsent, ResultSent,
       IdleTimeout
  <2>3. {"failed", "exited", "stopped", "answered"} \subseteq Fates \ {"none", "queued", "turn"}
    BY DEF Fates
  <2> QED BY <2>1, <2>2, <2>3, EndStep
<1>3. CASE ResultNext(r) \/ (DrainNext(r) /\ Usable(mine[r]))
  <2>1. /\ pc[r] \in TurnPC \ SpeakPC /\ pc' = [pc EXCEPT ![r] = pc'[r]] /\ pc'[r] \in SpeakPC
        /\ queue[mine[r]] # <<>> /\ queue' = [queue EXCEPT ![mine[r]] = Tail(@)]
        /\ fate' = [fate EXCEPT ![Head(queue[mine[r]])] = "turn"]
        /\ cur' = [cur EXCEPT ![r] = Head(queue[mine[r]])]
    BY <1>0, <1>3 DEF ResultNext, DrainNext, SpeakPC, TurnPC
  <2> QED BY <2>1, ServeStep
<1>4. CASE DrainNext(r) /\ ~Usable(mine[r])
  <2>1. /\ pc' = [pc EXCEPT ![r] = "release"] /\ pc[r] = "drain"
        /\ DropQueue(mine[r]) /\ fate' = Dropped(mine[r])
    BY <1>4 DEF DrainNext
  <2>2. Speaking = {} /\ \A c \in Runner \ {r} : pc[c] \notin HoldPC
    BY <2>1, Speaker DEF HoldPC, SpeakPC
  <2>3. \A c \in Runner : pc'[c] \notin SpeakPC
    BY <1>0, <2>1, <2>2 DEF SpeakPC, HoldPC
  <2>4. mine[r] \in State /\ \A x \in State \ {mine[r]} : queue[x] = <<>>
    BY <2>1, OnlyMine DEF TurnPC
  <2> QED BY <2>1, <2>2, <2>3, <2>4, DropStep
<1>5. ~ResultCompress(r)
  BY DEF ResultCompress, PlainChat
<1> QED BY <1>1, <1>2, <1>3, <1>4, <1>5 DEF RunTurn

LEMMA CleanUpServes ==
  ASSUME PlainChat, ServeInv, NEW r \in Runner, CleanUp(r)
  PROVE  Serves
<1>0. /\ r \in Request /\ DOMAIN pc = Request /\ TurnOf /\ Runner \subseteq Request
      /\ Awake
      /\ pc[r] \in CleanPC => ret[r] = "drain" /\ tgt[r] = mine[r]
  BY ServeTyped, Kinds DEF ServeInv, Awake, InPlace
<1>1. CASE Detach(r) \/ Close(r) \/ Unmap(r)
  <2>1. /\ UNCHANGED <<queue, cur, fate>> /\ pc' = [pc EXCEPT ![r] = pc'[r]]
        /\ pc'[r] \in SpeakPC <=> pc[r] \in SpeakPC
    BY <1>0, <1>1 DEF Detach, Close, Unmap, SpeakPC, CleanPC
  <2>2. \A c \in Runner : pc'[c] \in SpeakPC <=> pc[c] \in SpeakPC
    BY <1>0, <2>1
  <2> QED BY <1>0, <2>1, <2>2, SilentStep DEF Waits
<1>2. CASE Notify(r)
  <2>1. /\ pc' = [pc EXCEPT ![r] = "close"] /\ pc[r] = "notify"
        /\ DropQueue(mine[r]) /\ fate' = Dropped(mine[r])
    BY <1>0, <1>2 DEF Notify, CleanPC
  <2>2. Speaking = {} /\ \A c \in Runner \ {r} : pc[c] \notin HoldPC
    BY <2>1, Speaker DEF HoldPC, SpeakPC
  <2>3. \A c \in Runner : pc'[c] \notin SpeakPC
    BY <1>0, <2>1, <2>2 DEF SpeakPC, HoldPC
  <2>4. mine[r] \in State /\ \A x \in State \ {mine[r]} : queue[x] = <<>>
    BY <2>1, OnlyMine DEF TurnPC, CleanPC
  <2> QED BY <2>1, <2>2, <2>3, <2>4, DropStep
<1> QED BY <1>1, <1>2 DEF CleanUp

\* Answers, and agents that die.
LEMMA OthersServe ==
  ASSUME PlainChat, ServeInv,
         \/ \E c \in Answer : AnswerRead(c) \/ AnswerResolve(c)
         \/ (\E a \in Agent : AgentDies(a) \/ AgentCloses(a)) \/ UNCHANGED vars
         \/ (\E q \in State : LateSend(q))
  PROVE  Serves
<1>0. DOMAIN pc = Request /\ TurnOf /\ PlacesOK
  BY ServeTyped DEF ServeInv, IInv, TypeOK
<1>1. UNCHANGED <<queue, cur, fate>>
  BY DEF AnswerRead, AnswerResolve, AgentDies, AgentCloses, LateSend, vars
<1>2. \A r \in Runner : pc'[r] \in SpeakPC <=> pc[r] \in SpeakPC
  <2>1. ASSUME NEW c \in Answer, AnswerRead(c), NEW r \in Runner
        PROVE  pc'[r] \in SpeakPC <=> pc[r] \in SpeakPC
    BY <1>0, <2>1, Kinds DEF AnswerRead
  <2>2. ASSUME NEW c \in Answer, AnswerResolve(c), NEW r \in Runner
        PROVE  pc'[r] \in SpeakPC <=> pc[r] \in SpeakPC
    <3>1. /\ Woken(grip[c]) \in [Request -> PCs]
          /\ Woken(grip[c])[r] = pc[r] \/ (pc[r] = "perm" /\ Woken(grip[c])[r] = "events")
          /\ pc' = [Woken(grip[c]) EXCEPT ![c] = "done"] /\ r # c
      BY <1>0, <2>2, Wakes, Kinds DEF AnswerResolve
    <3> HIDE DEF Woken
    <3>2. pc'[r] = Woken(grip[c])[r]
      BY <3>1
    <3> QED BY <3>1, <3>2 DEF SpeakPC
  <2>3. CASE (\E a \in Agent : AgentDies(a) \/ AgentCloses(a)) \/ UNCHANGED vars
         \/ (\E q \in State : LateSend(q))
    BY <2>3 DEF AgentDies, AgentCloses, LateSend, vars
  <2> QED BY <2>1, <2>2, <2>3
<1> QED BY <1>0, <1>1, <1>2, SilentStep DEF Waits

\* Only turns clean up, and the engine runs on.
LEMMA NextPlain ==
  ASSUME PlainChat, ServeInv, [Next]_vars
  PROVE  OnlyCleanups' /\ phase' = "run"
<1>0. WakeTypes /\ PlacesOK /\ phase = "run" /\ OnlyCleanups /\ Awake
  BY ServeTyped DEF ServeInv, IInv, TypeOK
<1>. USE DEF OnlyCleanups, WakeTypes
<1>1. ASSUME NEW m \in Msg, HandleMessage(m) \/ StartTurn(m)
      PROVE  OnlyCleanups' /\ phase' = "run"
  BY <1>0, <1>1, Kinds DEF HandleMessage, StartTurn, HintPending, Arrive, TryLock, QueueMessage,
     RetryLock, DrainOrphaned, EnsureSlot, Abandon, Reuse, StartAgent, StartFails, Ready, Install
<1>2. ASSUME NEW r \in Runner, RunTurn(r)
      PROVE  OnlyCleanups' /\ phase' = "run"
  BY <1>0, <1>2, Kinds DEF RunTurn, Dispatch, SendReturns, SendFails, SeeStop, ReceiveEvent,
     EventText, EventPermission, ResultUnsent, ResultSent, ResultCompress, ResultNext, SendNext,
     ResultLast, ReturnLast, EventError, ChannelClosed, IdleTimeout, DrainEmpty, DrainNext,
     Release, UnlockAndReturn, NilCall, Cleanup
<1>3. ASSUME NEW r \in Runner, CleanUp(r)
      PROVE  OnlyCleanups' /\ phase' = "run"
  BY <1>0, <1>3, Kinds DEF CleanUp, Detach, Notify, Close, Unmap, Awake, InPlace, CleanPC
<1>4. ASSUME NEW c \in Answer, AnswerRead(c) \/ AnswerResolve(c)
      PROVE  OnlyCleanups' /\ phase' = "run"
  <2>1. CASE AnswerRead(c)
    BY <1>0, <2>1 DEF AnswerRead
  <2>2. CASE AnswerResolve(c)
    <3>1. /\ Woken(grip[c]) \in [Request -> PCs]
          /\ \A d \in Request : \/ Woken(grip[c])[d] = pc[d]
                                \/ pc[d] = "perm" /\ Woken(grip[c])[d] = "events"
          /\ pc' = [Woken(grip[c]) EXCEPT ![c] = "done"] /\ phase' = phase
      BY <1>0, <2>2, Wakes DEF AnswerResolve
    <3> HIDE DEF Woken
    <3> QED BY <1>0, <3>1
  <2> QED BY <1>4, <2>1, <2>2
<1>5. CASE (\E a \in Agent : AgentDies(a) \/ AgentCloses(a)) \/ UNCHANGED vars
         \/ (\E q \in State : LateSend(q))
  BY <1>0, <1>5 DEF AgentDies, AgentCloses, LateSend, vars
<1>6. ASSUME NEW r \in Runner PROVE ~Compress(r)
  BY <1>0 DEF Awake, InPlace, OnlyCompressPC, Compress, RunCompress, CompressStopped,
     CompressBroken, CompressDrop, CompressEnds, CompressDies, CompressEvent
<1>7. ~Cancel /\ ~Sweep
  BY <1>0 DEF Cancel, Sweep, PlainChat
<1> QED BY <1>1, <1>2, <1>3, <1>4, <1>5, <1>6, <1>7 DEF Next, PlainChat

\* Every step is one of ChatLine, and keeps the invariant.
LEMMA NextServe ==
  ASSUME PlainChat, ServeInv, [Next]_vars
  PROVE  ServeInv' /\ [Line!Next]_(Line!lineVars)
<1>1. Serves
  <2>1. ASSUME NEW r \in Runner PROVE ~Compress(r)
    BY ServeTyped DEF Awake, InPlace, OnlyCompressPC, Compress, RunCompress, CompressStopped,
       CompressBroken, CompressDrop, CompressEnds, CompressDies, CompressEvent
  <2>2. ~Cancel /\ ~Sweep
    BY DEF ServeInv, Cancel, Sweep, PlainChat
  <2> QED BY <2>1, <2>2, HandleMessageServes, StartTurnServes, RunTurnServes, CleanUpServes,
             OthersServe DEF Next, PlainChat
<1>2. LineInv' /\ WakeInv'
  BY NextLine, NextWake DEF ServeInv, PlainChat
<1> QED BY <1>1, <1>2, NextPlain DEF ServeInv, Serves

LEMMA InitServe == Init => ServeInv /\ Line!Init
<1>. SUFFICES ASSUME Init PROVE ServeInv /\ Line!Init
  OBVIOUS
<1>1. LineInv /\ WakeInv
  BY InitLine, InitWake
<1>2. OnlyCleanups /\ TurnOf /\ phase = "run"
  BY Kinds DEF Init, OnlyCleanups, TurnOf, SpeakPC
<1>3. Line!Init
  BY DEF Init, Line!Init, Speaking, Waits, OneOf, Informed
<1> QED BY <1>1, <1>2, <1>3 DEF ServeInv

\* In a chat that nobody resets or stops, whatever its agents and platform do once
\* they have started, the engine implements ChatLine: every step of every goroutine
\* begins, ends, serves, refuses, queues or drops as a line may, or is invisible.
\* The adoption of a queue by the next state and the drain after a cleanup keep the
\* order, and a message that has been told something is never touched again.
THEOREM LineServed == ASSUME PlainChat PROVE Spec => ServesLine
<1>1. ServeInv /\ [Next]_vars => ServeInv' /\ [Line!Next]_(Line!lineVars)
  BY NextServe
<1> QED BY <1>1, InitServe, PTL DEF Spec, ServesLine, Line!Spec
=============================================================================
