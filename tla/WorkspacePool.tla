---------------------------- MODULE WorkspacePool ----------------------------
(***************************************************************************)
(* Multi-workspace mode: the workspacePool of core/workspace_state.go, the *)
(* idle reaper, and the way a message takes through the pool in            *)
(* core/engine.go, from the Touch of handleMessage to the EndTurn of       *)
(* processInteractiveMessageWith.                                          *)
(*                                                                         *)
(* The pool has a lock, and each workspaceState its own; the reaper may    *)
(* run between any two sections.  A state that is made again for the same  *)
(* directory brings a second agent and a second SessionManager, which does *)
(* not know what the first one has in memory.                              *)
(***************************************************************************)
EXTENDS Naturals, FiniteSets

CONSTANTS
  Dirs,      \* workspace directories, normalized
  Messages   \* bound: messages, each with a goroutine

ASSUME WsFinite == IsFiniteSet(Messages)
ASSUME WsDirs == "none" \notin Dirs

VARIABLES
  pool,      \* workspacePool.states: directory -> state, 0 for none
  turnsOf,   \* per state: activeTurns
  idle,      \* per state: lastActivity is before the reaper's cutoff
  manager,   \* per state: its agent and SessionManager, 0 before they are made
  agentIn,   \* directories where an earlier turn has left a live agent to a chat
  wsAt,      \* per message: where it is
  wsMsg      \* per message: the directory it runs in, whether the clock of that
             \* directory was set on its way ("late" if too long ago), the state it
             \* holds, its manager and the counted state

WsVars == <<pool, turnsOf, idle, manager, agentIn, wsAt, wsMsg>>

\* Names for states and managers; one that nothing points to any more is given again.
States == 1 .. 2 * Cardinality(Messages) + 1

NoMsg == [dir |-> "none", touched |-> "no", state |-> 0, manager |-> 0, counted |-> 0]

WsInit ==
  /\ pool = [d \in Dirs |-> 0]
  /\ turnsOf = [st \in States |-> 0]
  /\ idle = [st \in States |-> FALSE]
  /\ manager = [st \in States |-> 0]
  /\ agentIn = {}
  /\ wsAt = [m \in Messages |-> "new"]
  /\ wsMsg = [m \in Messages |-> NoMsg]

WsGo(m, from, to) == wsAt[m] = from /\ wsAt' = [wsAt EXCEPT ![m] = to]
WsDone(m, from)   == WsGo(m, from, "done") /\ wsMsg' = [wsMsg EXCEPT ![m] = NoMsg]

InUse == {pool[d] : d \in Dirs} \cup {wsMsg[m].state : m \in Messages}
         \cup {wsMsg[m].counted : m \in Messages}
ManagersInUse == {manager[st] : st \in InUse \ {0}} \cup {wsMsg[m].manager : m \in Messages}
LeastUnused(i, used) == i \in States \ used /\ \A j \in States \ used : i <= j

\* GetOrCreate: the state for a directory, fresh if there is none.
GetOrCreate(d, st) ==
  IF pool[d] # 0
  THEN st = pool[d] /\ UNCHANGED <<pool, manager, turnsOf, idle>>
  ELSE /\ LeastUnused(st, InUse)
       /\ pool' = [pool EXCEPT ![d] = st]
       /\ turnsOf' = [turnsOf EXCEPT ![st] = 0]
       /\ idle' = [idle EXCEPT ![st] = FALSE]
       /\ manager' = [manager EXCEPT ![st] = 0]

-----------------------------------------------------------------------------
(* A message *)

\* handleMessage touches the workspace that the channel is bound to.  The message
\* runs there, or in the directory that /workspace or /dir has set for the chat; a
\* cron job with a work_dir touches nothing.
WsTouch(m) ==
  /\ WsGo(m, "new", "touched")
  /\ \E bound \in Dirs \cup {"none"}, d \in Dirs :
       /\ wsMsg' = [wsMsg EXCEPT ![m].dir = d, ![m].touched = IF bound = d THEN "yes" ELSE "no"]
       /\ idle' = [st \in States |->
            IF bound # "none" /\ st = pool[bound] THEN FALSE ELSE idle[st]]
  /\ UNCHANGED <<pool, turnsOf, manager, agentIn>>

\* getOrCreateWorkspaceAgent looks the state up under the pool's lock ...
WsLookup(m) ==
  /\ WsGo(m, "touched", "found")
  /\ \E st \in States :
       /\ GetOrCreate(wsMsg[m].dir, st)
       /\ wsMsg' = [wsMsg EXCEPT ![m].state = st,
                                  ![m].touched = IF pool[wsMsg[m].dir] = 0 /\ @ = "no"
                                                  THEN "yes" ELSE @]
  /\ UNCHANGED agentIn

\* Mutant: nobody looks whether another message has made them.
MakeAnyway(m) ==
  /\ WsGo(m, "found", "ready")
  /\ \E its \in States :
       /\ LeastUnused(its, ManagersInUse)
       /\ manager' = [manager EXCEPT ![wsMsg[m].state] = its]
       /\ wsMsg' = [wsMsg EXCEPT ![m].manager = its]
  /\ UNCHANGED <<pool, turnsOf, idle, agentIn>>

\* ... and makes its agent and SessionManager, once, under the state's.  CreateAgent
\* may fail.
WsAgent(m) ==
  /\ wsAt[m] = "found"
  /\ LET st == wsMsg[m].state
     IN  \/ /\ WsGo(m, "found", "ready")
            /\ \E its \in States :
                 /\ IF manager[st] = 0 THEN LeastUnused(its, ManagersInUse)
                    ELSE its = manager[st]
                 /\ manager' = [manager EXCEPT ![st] = its]
                 /\ wsMsg' = [wsMsg EXCEPT ![m].manager = its]
         \/ /\ manager[st] = 0
            /\ WsDone(m, "found")
            /\ UNCHANGED manager
  /\ UNCHANGED <<pool, turnsOf, idle, agentIn>>

\* A command, a message that waits in the queue of a busy session, a failed start: the
\* goroutine runs no turn.
WsLeave(m) ==
  /\ WsDone(m, "ready")
  /\ UNCHANGED <<pool, turnsOf, idle, manager, agentIn>>

\* The message was queued and its second TryLock succeeds, or it is a /compress: the
\* goroutine runs the turns of the queue with the agent that is there, for as long as
\* they last (drainOrphanedQueue, runCompress).  It asks for no state and counts none.
WsDrain(m) ==
  /\ WsGo(m, "ready", "drain")
  /\ wsMsg[m].dir \in agentIn
  /\ UNCHANGED <<pool, turnsOf, idle, manager, agentIn, wsMsg>>

WsDrainEnd(m) ==
  /\ WsDone(m, "drain")
  /\ UNCHANGED <<pool, turnsOf, idle, manager, agentIn>>

\* The turn starts: once more GetOrCreate, with the directory ...
WsReenter(m) ==
  /\ WsGo(m, "ready", "entering")
  /\ \E st \in States :
       /\ GetOrCreate(wsMsg[m].dir, st)
       /\ wsMsg' = [wsMsg EXCEPT ![m].counted = st]
  /\ UNCHANGED agentIn

\* ... and BeginTurn.  Its agent may outlive it.
WsBeginTurn(m) ==
  LET st == wsMsg[m].counted
  IN  /\ WsGo(m, "entering", "turn")
      /\ turnsOf' = [turnsOf EXCEPT ![st] = @ + 1]
      /\ idle' = [idle EXCEPT ![st] = FALSE]
      /\ agentIn' = agentIn \cup {wsMsg[m].dir}
      /\ UNCHANGED <<pool, manager, wsMsg>>

\* Mutant: an early return skips the EndTurn.
LeaveTurnCounted(m) ==
  /\ WsDone(m, "turn")
  /\ UNCHANGED <<pool, turnsOf, idle, manager, agentIn>>

WsEndTurn(m) ==
  LET st == wsMsg[m].counted
  IN  /\ WsDone(m, "turn")
      /\ turnsOf' = [turnsOf EXCEPT ![st] = @ - 1]
      /\ idle' = [idle EXCEPT ![st] = FALSE]
      /\ UNCHANGED <<pool, manager, agentIn>>

WsStep(m) == WsTouch(m) \/ WsLookup(m) \/ WsAgent(m) \/ WsLeave(m) \/ WsDrain(m)
             \/ WsDrainEnd(m) \/ WsReenter(m) \/ WsBeginTurn(m) \/ WsEndTurn(m)

-----------------------------------------------------------------------------
(* Time and the reaper *)

\* A message on its way from the Touch, or the making of the state, to the turn.
OnTheWay(m, st) ==
  /\ wsAt[m] \in {"touched", "found", "ready", "entering"}
  /\ wsMsg[m].touched = "yes" /\ st = pool[wsMsg[m].dir]

\* The idle timeout of a state passes.  A message on its way that has set the clock has
\* then been so for the whole timeout (15 minutes).
WsAge(st) ==
  /\ ~idle[st] /\ \E d \in Dirs : pool[d] = st
  /\ idle' = [idle EXCEPT ![st] = TRUE]
  /\ wsMsg' = [m \in Messages |->
       IF OnTheWay(m, st) THEN [wsMsg[m] EXCEPT !.touched = "late"] ELSE wsMsg[m]]
  /\ UNCHANGED <<pool, turnsOf, manager, agentIn, wsAt>>

\* Mutant: the reaper does not ask HasActiveTurn.
ReapActive ==
  LET reaped == {d \in Dirs : pool[d] # 0 /\ idle[pool[d]]}
  IN  /\ reaped # {}
      /\ pool' = [d \in Dirs |-> IF d \in reaped THEN 0 ELSE pool[d]]
      /\ agentIn' = agentIn \ reaped
      /\ UNCHANGED <<turnsOf, idle, manager, wsAt, wsMsg>>

\* ReapIdle, and the cleanup of the interactive states of these directories, which
\* closes their agents (its steps are those of InteractiveTurns).
ReapIdle ==
  LET reaped == {d \in Dirs : pool[d] # 0 /\ idle[pool[d]] /\ turnsOf[pool[d]] = 0}
  IN  /\ reaped # {}
      /\ pool' = [d \in Dirs |-> IF d \in reaped THEN 0 ELSE pool[d]]
      /\ agentIn' = agentIn \ reaped
      /\ UNCHANGED <<turnsOf, idle, manager, wsAt, wsMsg>>

WsNext ==
  \/ \E m \in Messages : WsStep(m)
  \/ \E st \in States : WsAge(st)
  \/ ReapIdle

\* Goroutines run on, time passes, the ticker ticks.
WsFair == /\ WF_WsVars(\E m \in Messages : WsStep(m))
          /\ WF_WsVars(\E st \in States : WsAge(st))
          /\ WF_WsVars(ReapIdle)

WsSpec == WsInit /\ [][WsNext]_WsVars /\ WsFair

-----------------------------------------------------------------------------
(* Properties *)

WsTypeOK ==
  /\ pool \in [Dirs -> States \cup {0}]
  /\ turnsOf \in [States -> 0 .. Cardinality(Messages)]
  /\ idle \in [States -> BOOLEAN]
  /\ manager \in [States -> States \cup {0}]
  /\ agentIn \in SUBSET Dirs
  /\ wsAt \in [Messages -> {"new", "touched", "found", "ready", "entering", "turn",
                            "drain", "done"}]

\* Counted turns of messages that set the clock of their directory on the way, by Touch
\* or by making its state, and were not late, share one agent and one SessionManager
\* with every other such turn there, however the reaper runs between their steps: their
\* Session locks exclude each other.  Not claimed of a turn that came to its BeginTurn
\* without setting the clock (OneManager), nor of those that drains run (ReapsIdle).
InTurn(m) == wsAt[m] = "turn" /\ wsMsg[m].touched = "yes"
SoleManager == \A m, n \in Messages :
  InTurn(m) /\ InTurn(n) /\ wsMsg[m].dir = wsMsg[n].dir
    => wsMsg[m].manager = wsMsg[n].manager

\* Such a turn, however long, is counted on the state that the pool has for its
\* directory, so that the reaper leaves it and later messages find it.
TurnPooled == \A m \in Messages : InTurn(m) =>
  /\ pool[wsMsg[m].dir] = wsMsg[m].counted
  /\ turnsOf[wsMsg[m].counted] > 0

NoneLate == \A m \in Messages : wsMsg[m].touched # "late"

\* "getOrCreateWorkspaceAgent returns (or creates) a per-workspace agent and session
\* manager": turns in one directory share them, also those of messages that have not
\* touched it (cron jobs with a work_dir, chats in a directory set by /dir), while no
\* message takes the whole timeout to begin its turn.  The code does not keep this.
OneManager == NoneLate => \A m, n \in Messages :
  wsAt[m] = "turn" /\ wsAt[n] = "turn" /\ wsMsg[m].dir = wsMsg[n].dir
    => wsMsg[m].manager = wsMsg[n].manager

\* "idle reaper closed a session with an active turn" is a failure: the reaper takes no
\* directory in which a turn is running, whichever goroutine runs it.  The code does not
\* keep this: the turns of WsDrain are counted nowhere.
ReapsIdle == [][NoneLate => \A m \in Messages :
                  wsAt[m] \in {"turn", "drain"} /\ pool[wsMsg[m].dir] # 0
                    => pool'[wsMsg[m].dir] # 0]_WsVars

\* No turn stays counted for ever: when the messages are over, the pool empties.
PoolEmpties == <>[](\A d \in Dirs : pool[d] = 0)
=============================================================================
