--------------------------- MODULE Services_proofs ---------------------------
(***************************************************************************)
(* Proofs about Heartbeat, CliSinks, Relay and WorkspacePool.              *)
(***************************************************************************)
EXTENDS MCServices, CronScheduler_proofs, SessionStore_proofs, TerminalTurns_proofs,
        FiniteSetTheorems, TLAPS

-----------------------------------------------------------------------------
(* Heartbeat *)

\* What makes LateBeats inductive: the beat that was checked before the pause has
\* begun, or is about to, never both.
HbShape ==
  /\ {paused, changed, ticking} \subseteq [Projects -> BOOLEAN]
  /\ beatAt \in [Projects -> {"wait", "tick", "execute", "beat"}]
  /\ lateBeats \in [Projects -> Nat]
OneLate(p) == paused[p] => lateBeats[p] + (IF beatAt[p] = "execute" THEN 1 ELSE 0) <= 1
LateInv == HbShape /\ \A p \in Projects : OneLate(p)

\* The flags keep their shape, whatever the step.
LEMMA HbShapeStep == ASSUME HbShape, [HbNext]_HbVars PROVE HbShape'
<1> USE DEF HbShape
<1>1. CASE UNCHANGED HbVars
  BY <1>1 DEF HbVars
<1>2. ASSUME NEW p \in Projects, Pause(p) PROVE HbShape'
  BY <1>2 DEF Pause
<1>3. ASSUME NEW p \in Projects, Resume(p) PROVE HbShape'
  BY <1>3 DEF Resume
<1>4. ASSUME NEW p \in Projects, SetInterval(p) PROVE HbShape'
  BY <1>4 DEF SetInterval
<1>5. ASSUME NEW p \in Projects, RunStep(p) PROVE HbShape'
  <2>1. CASE HbTick(p)
    BY <2>1 DEF HbTick, BeatGo, hbTables
  <2>2. CASE HbPaused(p)
    BY <2>2 DEF HbPaused, BeatGo, hbTables
  <2>3. CASE Execute(p)
    BY <2>3 DEF Execute, BeatGo, hbTables
  <2>4. CASE BeatDone(p)
    BY <2>4 DEF BeatDone, BeatGo, hbTables
  <2> QED BY <1>5, <2>1, <2>2, <2>3, <2>4 DEF RunStep
<1>6. CASE HbRestart
  BY <1>6 DEF HbRestart
<1> QED BY <1>1, <1>2, <1>3, <1>4, <1>5, <1>6 DEF HbNext

\* A paused heartbeat beats at most once more, for any number of projects.
THEOREM PausedIsQuiet == HbSpec => []LateBeats
<1>1. HbInit => LateInv
  BY DEF HbInit, LateInv, HbShape, OneLate
<1>2. LateInv /\ [HbNext]_HbVars => LateInv'
  <2> SUFFICES ASSUME LateInv, [HbNext]_HbVars, NEW q \in Projects PROVE OneLate(q)'
    BY HbShapeStep DEF LateInv
  <2> USE DEF LateInv, HbShape, OneLate
  <2>1. CASE UNCHANGED HbVars
    BY <2>1 DEF HbVars
  <2>2. ASSUME NEW p \in Projects, Pause(p) PROVE OneLate(q)'
    BY <2>2 DEF Pause
  <2>3. ASSUME NEW p \in Projects, Resume(p) PROVE OneLate(q)'
    BY <2>3 DEF Resume
  <2>4. ASSUME NEW p \in Projects, SetInterval(p) PROVE OneLate(q)'
    BY <2>4 DEF SetInterval
  <2>5. ASSUME NEW p \in Projects, RunStep(p) PROVE OneLate(q)'
    <3>1. CASE HbTick(p)
      BY <3>1 DEF HbTick, BeatGo, hbTables
    <3>2. CASE HbPaused(p)
      BY <3>2 DEF HbPaused, BeatGo, hbTables
    <3>3. CASE Execute(p)
      BY <3>3 DEF Execute, BeatGo, hbTables
    <3>4. CASE BeatDone(p)
      BY <3>4 DEF BeatDone, BeatGo, hbTables
    <3> QED BY <2>5, <3>1, <3>2, <3>3, <3>4 DEF RunStep
  <2>6. CASE HbRestart
    BY <2>6 DEF HbRestart
  <2> QED BY <2>1, <2>2, <2>3, <2>4, <2>5, <2>6 DEF HbNext
<1>3. LateInv => LateBeats
  BY DEF LateInv, HbShape, OneLate, LateBeats
<1> QED BY <1>1, <1>2, <1>3, PTL DEF HbSpec

\* The file agrees with the flags after a write that did not fail.
FileInv ==
  HbShape /\ (~hbFailed => hbFile = [p \in Projects |-> Saved(paused[p], changed[p])])

\* Reading back what Saved wrote.
LEMMA SavedRead ==
  ASSUME NEW b \in BOOLEAN, NEW c \in BOOLEAN
  PROVE  /\ (\E s \in Saved(b, c) : s.paused) <=> b
         /\ (\E s \in Saved(b, c) : s.changed) <=> c
<1>1. CASE b \/ c
  <2> DEFINE line == [paused |-> b, changed |-> c]
  <2>1. line.paused = b /\ line.changed = c
    OBVIOUS
  <2>2. Saved(b, c) = {line}
    BY <1>1 DEF Saved
  <2> HIDE DEF line
  <2> QED BY <2>1, <2>2, Zenon
<1>2. CASE ~b /\ ~c
  BY <1>2 DEF Saved
<1> QED BY <1>1, <1>2

\* A restart after a good write restores every flag.
LEMMA RestoreAll ==
  ASSUME FileInv, ~hbFailed, HbRestart
  PROVE  paused' = paused /\ changed' = changed
<1>1. \A p \in Projects : paused[p] \in BOOLEAN /\ changed[p] \in BOOLEAN
  BY DEF FileInv, HbShape
<1>2. \A p \in Projects : /\ (\E s \in hbFile[p] : s.paused) <=> paused[p]
                          /\ (\E s \in hbFile[p] : s.changed) <=> changed[p]
  BY <1>1, SavedRead DEF FileInv
<1>3. /\ paused = [p \in Projects |-> paused[p]]
      /\ changed = [p \in Projects |-> changed[p]]
  BY DEF FileInv, HbShape
<1>4. /\ paused' = [p \in Projects |-> \E s \in hbFile[p] : s.paused]
      /\ changed' = [p \in Projects |-> \E s \in hbFile[p] : s.changed]
  BY DEF HbRestart
<1> QED BY <1>1, <1>2, <1>3, <1>4, Zenon

\* Pauses and intervals survive restarts, for any number of projects.
THEOREM OverridesKept == HbSpec => OverridesSurvive
<1>1. HbInit => FileInv
  BY DEF HbInit, FileInv, HbShape, Saved
<1>2. FileInv /\ [HbNext]_HbVars => FileInv'
  <2> SUFFICES ASSUME FileInv, [HbNext]_HbVars PROVE FileInv'
    OBVIOUS
  <2>1. HbShape'
    BY HbShapeStep DEF FileInv
  <2>2. ASSUME ~hbFailed', Persist
        PROVE  hbFile' = [p \in Projects |-> Saved(paused'[p], changed'[p])]
    BY <2>2 DEF Persist
  <2>3. CASE UNCHANGED HbVars
    BY <2>1, <2>3 DEF HbVars, FileInv
  <2>4. ASSUME NEW p \in Projects, Pause(p) \/ Resume(p) \/ SetInterval(p)
        PROVE FileInv'
    BY <2>1, <2>2, <2>4 DEF Pause, Resume, SetInterval, FileInv
  <2>5. ASSUME NEW p \in Projects, RunStep(p) PROVE FileInv'
    BY <2>1, <2>5 DEF RunStep, HbTick, HbPaused, Execute, BeatDone, BeatGo, hbTables,
                      FileInv
  <2>6. CASE HbRestart
    BY <2>1, <2>6, RestoreAll DEF HbRestart, FileInv
  <2> QED BY <2>3, <2>4, <2>5, <2>6 DEF HbNext
<1>3. FileInv /\ [HbNext]_HbVars
        => [hbRestarts' # hbRestarts /\ ~hbFailed
              => paused' = paused /\ changed' = changed]_HbVars
  <2> SUFFICES ASSUME FileInv, HbNext, hbRestarts' # hbRestarts, ~hbFailed
               PROVE  paused' = paused /\ changed' = changed
    BY DEF HbVars
  <2>1. HbRestart
    BY DEF HbNext, Pause, Resume, SetInterval, RunStep, HbTick, HbPaused, Execute,
           BeatDone, hbTables
  <2> QED BY <2>1, RestoreAll
<1> QED BY <1>1, <1>2, <1>3, PTL DEF HbSpec, OverridesSurvive

LEMMA SavedType ==
  ASSUME NEW b \in BOOLEAN, NEW c \in BOOLEAN
  PROVE  Saved(b, c) \in SUBSET [paused : BOOLEAN, changed : BOOLEAN]
BY DEF Saved

\* What persistLocked leaves in the file is one line per project, or nothing.
LEMMA PersistType ==
  ASSUME HbTypeOK, Persist, {paused, changed}' \subseteq [Projects -> BOOLEAN]
  PROVE  /\ hbFile' \in [Projects -> SUBSET [paused : BOOLEAN, changed : BOOLEAN]]
         /\ hbFailed' \in BOOLEAN
<1>1. \A p \in Projects : Saved(paused'[p], changed'[p])
                            \in SUBSET [paused : BOOLEAN, changed : BOOLEAN]
  BY SavedType
<1>2. CASE hbFile' = [p \in Projects |-> Saved(paused'[p], changed'[p])] /\ hbFailed' = FALSE
  BY <1>1, <1>2
<1>3. CASE hbFile' \in {hbFile, [p \in Projects |-> {}]} /\ hbFailed' = TRUE
  BY <1>3 DEF HbTypeOK
<1> QED BY <1>2, <1>3 DEF Persist

LEMMA HbTypeStep == ASSUME HbTypeOK, [HbNext]_HbVars PROVE HbTypeOK'
<1> USE BeatBounds
<1>1. HbShape
  BY DEF HbTypeOK, HbShape
<1>2. HbShape'
  BY <1>1, HbShapeStep
<1>3. lateBeats' \in [Projects -> 0 .. BeatsMax]
  BY DEF HbTypeOK, HbNext, HbVars, Pause, Resume, SetInterval, RunStep, HbTick, HbPaused,
         Execute, BeatDone, hbTables, HbRestart
<1>4. hbRestarts' \in 0 .. HbRestartsMax
  BY DEF HbTypeOK, HbNext, HbVars, Pause, Resume, SetInterval, RunStep, HbTick, HbPaused,
         Execute, BeatDone, hbTables, HbRestart
<1>5. /\ hbFile' \in [Projects -> SUBSET [paused : BOOLEAN, changed : BOOLEAN]]
      /\ hbFailed' \in BOOLEAN
  <2>1. Persist \/ UNCHANGED <<hbFile, hbFailed>>
    BY DEF HbNext, HbVars, Pause, Resume, SetInterval, RunStep, HbTick, HbPaused,
           Execute, BeatDone, hbTables, HbRestart
  <2> QED BY <1>2, <2>1, PersistType DEF HbShape, HbTypeOK
<1> QED BY <1>2, <1>3, <1>4, <1>5 DEF HbTypeOK, HbShape

LEMMA HbTypeStart == HbInit => HbTypeOK
<1> SUFFICES ASSUME HbInit PROVE HbTypeOK
  OBVIOUS
<1>1. 0 \in 0 .. BeatsMax /\ 0 \in 0 .. HbRestartsMax
  BY BeatBounds
<1>2. hbFile \in [Projects -> SUBSET [paused : BOOLEAN, changed : BOOLEAN]]
  BY DEF HbInit
<1> QED BY <1>1, <1>2 DEF HbInit, HbTypeOK

\* The flags, the places of the goroutines and the file keep their types.
LEMMA HbTypes == HbInit /\ [][HbNext]_HbVars => []HbTypeOK
BY HbTypeStart, HbTypeStep, PTL

-----------------------------------------------------------------------------
(* CliSinks *)

\* A channel that may still be closed has one owner: the state, a closer that has
\* captured it, or the handler that has taken it off the state.
OneOwner(c) ==
  /\ closes[c] \in {0, 1}
  /\ cliAt[c] \in {"new", "resolved"}
       => c \notin sinks /\ closes[c] = 0 /\ \A g \in Closers : c \notin taken[g]
  /\ c \in sinks
       => closes[c] = 0 /\ cliAt[c] # "closing" /\ \A g \in Closers : c \notin taken[g]
  /\ cliAt[c] = "closing" => closes[c] = 0 /\ \A g \in Closers : c \notin taken[g]
  /\ \A g \in Closers : c \in taken[g]
       => closes[c] = 0 /\ \A h \in Closers : c \in taken[h] => g = h
SinkInv ==
  /\ sinks \subseteq CliClients
  /\ taken \in [Closers -> SUBSET CliClients]
  /\ closes \in [CliClients -> Nat]
  /\ DOMAIN cliAt = CliClients
  /\ \A c \in CliClients : OneOwner(c)

LEMMA SinkInvStep == ASSUME SinkInv, [CliNext]_CliVars PROVE SinkInv'
<1> USE DEF SinkInv, OneOwner
<1>1. CASE UNCHANGED CliVars
  BY <1>1 DEF CliVars
<1>2. ASSUME NEW c \in CliClients, Handler(c) \/ CliHangUp(c) PROVE SinkInv'
  <2>1. CASE CliResolve(c)
    BY <2>1 DEF CliResolve, CliGo
  <2>2. CASE CliRegister(c)
    BY <2>2 DEF CliRegister, CliGo
  <2>3. CASE CliReady(c)
    BY <2>3 DEF CliReady, CliGo
  <2>4. CASE CliRead(c)
    BY <2>4 DEF CliRead
  <2>5. CASE CliHangUp(c) \/ CliEnd(c)
    BY <2>5 DEF CliHangUp, CliEnd, CliGo
  <2>6. CASE CliDetach(c)
    BY <2>6 DEF CliDetach, CliGo
  <2>7. CASE CliClose(c)
    BY <2>7 DEF CliClose, CliGo
  <2> QED BY <1>2, <2>1, <2>2, <2>3, <2>4, <2>5, <2>6, <2>7 DEF Handler
<1>3. ASSUME NEW g \in Closers, CliTake(g) PROVE SinkInv'
  BY <1>3 DEF CliTake
<1>4. ASSUME NEW g \in Closers, NEW c \in CliClients, CliCloseTaken(g, c) PROVE SinkInv'
  BY <1>4 DEF CliCloseTaken
<1>5. ASSUME NEW g \in Closers, CliRemove(g) PROVE SinkInv'
  BY <1>5 DEF CliRemove
<1>6. ASSUME NEW e \in Emitters, EmitBegin(e) \/ Emitting(e) PROVE SinkInv'
  BY <1>6 DEF EmitBegin, Emitting, EmitCollect, EmitSend
<1> QED BY <1>1, <1>2, <1>3, <1>4, <1>5, <1>6 DEF CliNext, Closing

\* A sink is closed once, for any number of clients, closers and emitters.
THEOREM ClosedOnce == CliSpec => []SinkClosedOnce
<1>1. CliInit => SinkInv
  BY DEF CliInit, SinkInv, OneOwner
<1>2. SinkInv /\ [CliNext]_CliVars => SinkInv'
  BY SinkInvStep
<1>3. SinkInv => SinkClosedOnce
  BY DEF SinkInv, OneOwner, SinkClosedOnce
<1> QED BY <1>1, <1>2, <1>3, PTL DEF CliSpec

\* The sinks keep their types.
LEMMA CliTypeStart == CliInit => CliTypeOK
<1> SUFFICES ASSUME CliInit PROVE CliTypeOK
  OBVIOUS
<1>1. 0 \in 0 .. SinkCap /\ 0 \in 0 .. EmitMax /\ 0 \in Nat
  BY CliBounds
<1> QED BY <1>1 DEF CliInit, CliTypeOK

LEMMA CliTypeStep == ASSUME CliTypeOK, [CliNext]_CliVars PROVE CliTypeOK'
<1> USE CliBounds DEF CliTypeOK
<1>1. CASE UNCHANGED CliVars
  BY <1>1 DEF CliVars
<1>2. ASSUME NEW c \in CliClients, Handler(c) \/ CliHangUp(c) PROVE CliTypeOK'
  <2>1. CASE CliResolve(c)
    BY <2>1 DEF CliResolve, CliGo
  <2>2. CASE CliRegister(c)
    BY <2>2 DEF CliRegister, CliGo
  <2>3. CASE CliReady(c)
    BY <2>3 DEF CliReady, CliGo
  <2>4. CASE CliRead(c)
    BY <2>4 DEF CliRead
  <2>5. CASE CliHangUp(c) \/ CliEnd(c)
    BY <2>5 DEF CliHangUp, CliEnd, CliGo
  <2>6. CASE CliDetach(c)
    BY <2>6 DEF CliDetach, CliGo
  <2>7. CASE CliClose(c)
    BY <2>7 DEF CliClose, CliGo
  <2> QED BY <1>2, <2>1, <2>2, <2>3, <2>4, <2>5, <2>6, <2>7 DEF Handler
<1>3. ASSUME NEW g \in Closers, CliTake(g) PROVE CliTypeOK'
  BY <1>3 DEF CliTake
<1>4. ASSUME NEW g \in Closers, NEW c \in CliClients, CliCloseTaken(g, c) PROVE CliTypeOK'
  BY <1>4 DEF CliCloseTaken
<1>5. ASSUME NEW g \in Closers, CliRemove(g) PROVE CliTypeOK'
  BY <1>5 DEF CliRemove
<1>6. ASSUME NEW e \in Emitters, EmitBegin(e) PROVE CliTypeOK'
  BY <1>6 DEF EmitBegin
<1>7. ASSUME NEW e \in Emitters, EmitCollect(e) PROVE CliTypeOK'
  BY <1>7 DEF EmitCollect
<1>8. ASSUME NEW e \in Emitters, NEW c \in CliClients, EmitSend(e, c) PROVE CliTypeOK'
  BY <1>8 DEF EmitSend
<1> QED BY <1>1, <1>2, <1>3, <1>4, <1>5, <1>6, <1>7, <1>8 DEF CliNext, Closing, Emitting

\* No channel ever holds more frames than it has room for.
LEMMA CliTypes == CliInit /\ [][CliNext]_CliVars => []CliTypeOK
BY CliTypeStart, CliTypeStep, PTL

-----------------------------------------------------------------------------
(* Relay *)

\* Where a call is tells what has become of its agent.
AgentOf(c) ==
  /\ rAt[c] \in {"new", "read", "retry"} => agentAt[c] = "none" /\ rCloses[c] = 0
  /\ rAt[c] \in {"open", "wait", "drain"}
       => agentAt[c] \in {"working", "asking", "idle", "dead"} /\ rCloses[c] = 0
  /\ rAt[c] = "done" => \/ agentAt[c] = "none" /\ rCloses[c] = 0
                        \/ agentAt[c] = "closed" /\ rCloses[c] = 1
RelayShape ==
  /\ rAt \in [RelayCalls -> {"new", "read", "retry", "open", "wait", "drain", "done"}]
  /\ DOMAIN agentAt = RelayCalls /\ DOMAIN rCloses = RelayCalls
  /\ DOMAIN conv = RelayCalls
  /\ overlap \in BOOLEAN
CloseInv == RelayShape /\ \A c \in RelayCalls : AgentOf(c)

\* The steps of a relay, one by one.
LEMMA RelaySteps ==
  ASSUME RelayNext
  PROVE  \E c \in RelayCalls :
           \/ RelayRead(c) \/ RelayStart(c) \/ RelayRetry(c) \/ RelaySend(c)
           \/ RelayEvent(c) \/ RelayExited(c) \/ DrainEvent(c) \/ DrainEnd(c)
           \/ RelayLate(c) \/ AgentExit(c)
           \/ \E event \in {"text", "ask", "result", "error"} : AgentEvent(c, event)
  BY DEF RelayNext, RelayStep, AgentStep

LEMMA CloseInvStep == ASSUME CloseInv, [RelayNext]_RelayVars PROVE CloseInv'
<1> USE DEF CloseInv, RelayShape, AgentOf, RelayGo, RelayClose
<1>1. CASE UNCHANGED RelayVars
  BY <1>1 DEF RelayVars
<1>2. ASSUME NEW c \in RelayCalls,
             \/ RelayRead(c) \/ RelayStart(c) \/ RelayRetry(c) \/ RelaySend(c)
             \/ RelayEvent(c) \/ RelayExited(c) \/ DrainEvent(c) \/ DrainEnd(c)
             \/ RelayLate(c) \/ AgentExit(c)
             \/ \E event \in {"text", "ask", "result", "error"} : AgentEvent(c, event)
      PROVE  CloseInv'
  <2>1. CASE RelayRead(c)
    BY <2>1 DEF RelayRead
  <2>2. CASE RelayStart(c)
    BY <2>2 DEF RelayStart
  <2>3. CASE RelayRetry(c)
    BY <2>3 DEF RelayRetry
  <2>4. CASE RelaySend(c)
    BY <2>4 DEF RelaySend
  <2>5. CASE RelayEvent(c)
    BY <2>5 DEF RelayEvent
  <2>6. CASE RelayExited(c)
    BY <2>6 DEF RelayExited
  <2>7. CASE DrainEvent(c)
    BY <2>7 DEF DrainEvent
  <2>8. CASE DrainEnd(c)
    BY <2>8 DEF DrainEnd
  <2>9. CASE RelayLate(c)
    BY <2>9 DEF RelayLate
  <2>10. CASE AgentExit(c)
    BY <2>10 DEF AgentExit
  <2>11. ASSUME NEW event \in {"text", "ask", "result", "error"}, AgentEvent(c, event)
         PROVE  CloseInv'
    BY <2>11 DEF AgentEvent
  <2> QED BY <1>2, <2>1, <2>2, <2>3, <2>4, <2>5, <2>6, <2>7, <2>8, <2>9, <2>10, <2>11
<1> QED BY <1>1, <1>2, RelaySteps

\* Every relay agent is closed once, for any number of calls that overlap.
THEOREM RelayAgentsClosed == RelaySpec => []RelayClosedOnce
<1>1. RelayInit => CloseInv
  BY DEF RelayInit, CloseInv, RelayShape, AgentOf
<1>2. CloseInv /\ [RelayNext]_RelayVars => CloseInv'
  BY CloseInvStep
<1>3. CloseInv => RelayClosedOnce
  BY DEF CloseInv, RelayShape, AgentOf, RelayClosedOnce
<1> QED BY <1>1, <1>2, <1>3, PTL DEF RelaySpec

\* Until calls overlap, the one that runs is in the conversation of the Session.
SameConv(c) ==
  /\ rAt[c] = "read" => conv[c] = relayId
  /\ rAt[c] = "retry" => relayId = 0
  /\ rAt[c] \in {"open", "wait", "drain"} => relayId \in {0, conv[c]}
ConvInv ==
  /\ RelayShape
  /\ ~overlap => \A c \in RelayCalls : c \in Running =>
                   SameConv(c) /\ \A d \in RelayCalls : d \in Running => c = d

LEMMA ConvInvStep ==
  ASSUME ConvInv, [RelayNext]_RelayVars
  PROVE  /\ ConvInv'
         /\ relayId # 0 /\ relayId' \notin {0, relayId} => overlap
<1> USE DEF ConvInv, RelayShape, SameConv, Running, RelayGo, RelayClose
<1> DEFINE Goal == /\ ConvInv'
                   /\ relayId # 0 /\ relayId' \notin {0, relayId} => overlap
<1>1. CASE UNCHANGED RelayVars
  BY <1>1 DEF RelayVars
<1>2. ASSUME NEW c \in RelayCalls,
             \/ RelayRead(c) \/ RelayStart(c) \/ RelayRetry(c) \/ RelaySend(c)
             \/ RelayEvent(c) \/ RelayExited(c) \/ DrainEvent(c) \/ DrainEnd(c)
             \/ RelayLate(c) \/ AgentExit(c)
             \/ \E event \in {"text", "ask", "result", "error"} : AgentEvent(c, event)
      PROVE  Goal
  <2>1. CASE RelayRead(c)
    BY <2>1 DEF RelayRead
  <2>2. CASE RelayStart(c)
    BY <2>2 DEF RelayStart
  <2>3. CASE RelayRetry(c)
    BY <2>3 DEF RelayRetry
  <2>4. CASE RelaySend(c)
    BY <2>4 DEF RelaySend, CasId
  <2>5. CASE RelayEvent(c)
    BY <2>5 DEF RelayEvent, CasId
  <2>6. CASE RelayExited(c)
    BY <2>6 DEF RelayExited
  <2>7. CASE DrainEvent(c)
    BY <2>7 DEF DrainEvent, SetRelayId
  <2>8. CASE DrainEnd(c)
    BY <2>8 DEF DrainEnd
  <2>9. CASE RelayLate(c)
    BY <2>9 DEF RelayLate
  <2>10. CASE AgentExit(c)
    BY <2>10 DEF AgentExit
  <2>11. ASSUME NEW event \in {"text", "ask", "result", "error"}, AgentEvent(c, event)
         PROVE  Goal
    BY <2>11 DEF AgentEvent
  <2> QED BY <1>2, <2>1, <2>2, <2>3, <2>4, <2>5, <2>6, <2>7, <2>8, <2>9, <2>10, <2>11
<1> QED BY <1>1, <1>2, RelaySteps

\* Relays that do not overlap keep to one conversation, however many there are.
THEOREM OneConversation == RelaySpec => KeepsConversation
<1>1. RelayInit => ConvInv
  BY DEF RelayInit, ConvInv, RelayShape, Running
<1>2. ConvInv /\ [RelayNext]_RelayVars => ConvInv'
  BY ConvInvStep
<1>3. ConvInv /\ [RelayNext]_RelayVars
        => [relayId # 0 /\ relayId' \notin {0, relayId} => overlap]_RelayVars
  BY ConvInvStep
<1> QED BY <1>1, <1>2, <1>3, PTL DEF RelaySpec, KeepsConversation

\* The calls whose agent was started.
Opened == {d \in RelayCalls : agentAt[d] # "none"}

\* An id that the Session has, or that a call has read there, is one that an agent was
\* given; so there is always an id that no call has.
TakenIds == {0} \cup {conv[d] : d \in Opened}

\* An agent that still has something to say has said less than the bound.
RelayTyped ==
  /\ CloseInv /\ RelayTypeOK
  /\ rEvents \in [RelayCalls -> Seq({"text", "ask", "result", "error"})]
  /\ \A c \in RelayCalls :
       agentAt[c] \in {"none", "working", "asking"} => rCount[c] <= RelayEvents
  /\ relayId \in TakenIds
  /\ \A c \in RelayCalls : conv[c] \in TakenIds

LEMMA RelayTypeStart == RelayInit => RelayTyped
<1> SUFFICES ASSUME RelayInit PROVE RelayTyped
  OBVIOUS
<1>1. CloseInv
  BY DEF RelayInit, CloseInv, RelayShape, AgentOf
<1>2. 0 \in 0 .. RelayEvents + 1 /\ 0 <= RelayEvents /\ Len(<<>>) <= 0
  BY RelayBounds
<1>3. RelayTypeOK
  BY <1>2 DEF RelayInit, RelayTypeOK
<1> QED BY <1>1, <1>2, <1>3 DEF RelayInit, RelayTyped, TakenIds

\* As many ids as calls: while one call has no agent, an id is free.
LEMMA FreshIsFree ==
  ASSUME RelayTyped, NEW c \in RelayCalls, c \notin Opened
  PROVE  Fresh \in Convs
<1> DEFINE others == RelayCalls \ {c}
<1> SUFFICES \E i \in Convs : \A d \in RelayCalls : conv[d] # i
  BY Zenon DEF Fresh
<1> SUFFICES ASSUME \A i \in Convs : \E d \in RelayCalls : conv[d] = i PROVE FALSE
  OBVIOUS
<1>1. \A i \in Convs : \E d \in others : conv[d] = i
  <2> SUFFICES ASSUME NEW i \in Convs PROVE \E d \in others : conv[d] = i
    OBVIOUS
  <2>1. i # 0
    BY DEF Convs
  <2>2. i \in TakenIds
    BY DEF RelayTyped
  <2> QED BY <2>1, <2>2 DEF TakenIds, Opened
<1> DEFINE holder == [i \in Convs |-> CHOOSE d \in others : conv[d] = i]
<1>2. holder \in [Convs -> others] /\ \A i \in Convs : conv[holder[i]] = i
  BY <1>1
<1>3. Cardinality(RelayCalls) \in Nat /\ IsFiniteSet(RelayCalls)
  BY RelayBounds, FS_CardinalityType
<1>4. IsFiniteSet(others) /\ Cardinality(others) = Cardinality(RelayCalls) - 1
  BY <1>3, FS_RemoveElement
<1>5. IsFiniteSet(Convs) /\ Cardinality(Convs) = Cardinality(RelayCalls)
  <2>1. IsFiniteSet(Convs) /\ Cardinality(Convs) =
          IF 1 > Cardinality(RelayCalls) THEN 0 ELSE Cardinality(RelayCalls) - 1 + 1
    BY <1>3, FS_Interval DEF Convs
  <2> QED BY <1>3, <2>1
<1>6. Cardinality(others) < Cardinality(Convs)
  BY <1>3, <1>4, <1>5
<1> HIDE DEF holder, others
<1>7. \E i, k \in Convs : i # k /\ holder[i] = holder[k]
  BY <1>2, <1>4, <1>5, <1>6, FS_PigeonHole
<1> QED BY <1>2, <1>7

\* Ids stay taken while calls that have no agent are given one, or read the Session's.
LEMMA StaysTaken ==
  ASSUME \A d \in Opened : conv'[d] = conv[d] /\ agentAt'[d] # "none"
  PROVE  TakenIds \subseteq TakenIds'
BY DEF TakenIds, Opened

LEMMA RelayTypeStep == ASSUME RelayTyped, [RelayNext]_RelayVars PROVE RelayTyped'
<1> USE RelayBounds
<1>0. CloseInv'
  BY CloseInvStep DEF RelayTyped
<1> DEFINE Kinds == {"text", "ask", "result", "error"}
           Counted == /\ rEvents \in [RelayCalls -> Seq(Kinds)]
                      /\ rCount \in [RelayCalls -> 0 .. RelayEvents + 1]
                      /\ \A c \in RelayCalls : Len(rEvents[c]) <= rCount[c]
                      /\ \A c \in RelayCalls : agentAt[c] \in {"none", "working", "asking"}
                                                 => rCount[c] <= RelayEvents
           Named == /\ relayId \in Convs \cup {0} /\ conv \in [RelayCalls -> Convs \cup {0}]
                    /\ relayId \in TakenIds /\ \A c \in RelayCalls : conv[c] \in TakenIds
           Placed == /\ agentAt \in [RelayCalls -> {"none", "working", "asking", "idle",
                                                    "dead", "closed"}]
                     /\ rAt \in [RelayCalls -> {"new", "read", "retry", "open", "wait",
                                                "drain", "done"}]
                     /\ overlap \in BOOLEAN
<1>1. Counted /\ Named /\ Placed /\ CloseInv
  BY DEF RelayTyped, RelayTypeOK
<1>2. Counted' /\ Named' /\ Placed' => RelayTyped'
  BY <1>0 DEF RelayTyped, RelayTypeOK
<1>3. CASE UNCHANGED RelayVars
  BY <1>1, <1>2, <1>3 DEF RelayVars, TakenIds, Opened
<1>4. ASSUME NEW c \in RelayCalls, RelayRead(c) PROVE RelayTyped'
  <2>1. Counted' /\ Placed'
    BY <1>1, <1>4 DEF RelayRead, RelayGo
  <2>2. c \notin Opened
    BY <1>1, <1>4 DEF RelayRead, CloseInv, AgentOf, Opened
  <2>3. \A d \in Opened : conv'[d] = conv[d] /\ agentAt'[d] # "none"
    BY <1>1, <1>4, <2>2 DEF RelayRead, Opened
  <2>4. \A d \in RelayCalls : conv'[d] \in {conv[d], relayId}
    BY <1>1, <1>4 DEF RelayRead
  <2>5. Named'
    BY <1>1, <1>4, <2>3, <2>4, StaysTaken DEF RelayRead
  <2> QED BY <1>2, <2>1, <2>5
<1>5. ASSUME NEW c \in RelayCalls, RelayStart(c) \/ RelayRetry(c) PROVE RelayTyped'
  <2>1. Counted' /\ Placed'
    BY <1>1, <1>5 DEF RelayStart, RelayRetry, RelayGo, CloseInv, AgentOf
  <2>2. c \notin Opened
    BY <1>1, <1>5 DEF RelayStart, RelayRetry, CloseInv, AgentOf, Opened
  <2>3. Fresh \in Convs
    BY <2>2, FreshIsFree
  <2>4. \A d \in Opened : conv'[d] = conv[d] /\ agentAt'[d] # "none"
    BY <1>1, <1>5, <2>2 DEF RelayStart, RelayRetry, Opened
  <2>5. relayId' \in {0, relayId}
    BY <1>5 DEF RelayStart, RelayRetry
  <2>6. conv' \in [RelayCalls -> Convs \cup {0}]
    BY <1>1, <1>5, <2>3 DEF RelayStart, RelayRetry
  <2>7. \A d \in RelayCalls : conv'[d] = conv[d] \/ (d = c /\ agentAt'[c] = "working")
    BY <1>1, <1>5 DEF RelayStart, RelayRetry
  <2>8. \A d \in RelayCalls : conv'[d] \in TakenIds'
    <3> SUFFICES ASSUME NEW d \in RelayCalls PROVE conv'[d] \in TakenIds'
      OBVIOUS
    <3>1. CASE conv'[d] = conv[d]
      BY <1>1, <2>4, <3>1, StaysTaken
    <3>2. CASE d = c /\ agentAt'[c] = "working"
      BY <3>2 DEF TakenIds, Opened
    <3> QED BY <2>7, <3>1, <3>2
  <2>9. relayId' \in TakenIds'
    <3>1. CASE relayId' = 0
      BY <3>1 DEF TakenIds
    <3>2. CASE relayId' = relayId
      BY <1>1, <2>4, <3>2, StaysTaken
    <3> QED BY <2>5, <3>1, <3>2
  <2> QED BY <1>1, <1>2, <2>1, <2>5, <2>6, <2>8, <2>9
<1>6. ASSUME NEW c \in RelayCalls, Placed', Counted', UNCHANGED conv,
             c \in Opened, relayId' \in {0, relayId, conv[c]},
             \A d \in Opened : agentAt'[d] # "none"
      PROVE  RelayTyped'
  <2>1. \A d \in RelayCalls : conv'[d] \in TakenIds'
    BY <1>1, <1>6, StaysTaken
  <2>2. relayId' \in TakenIds'
    <3>1. CASE relayId' = 0
      BY <3>1 DEF TakenIds
    <3>2. CASE relayId' = relayId
      BY <1>1, <1>6, <3>2, StaysTaken
    <3>3. CASE relayId' = conv[c]
      BY <1>6, <2>1, <3>3 DEF Opened
    <3> QED BY <1>6, <3>1, <3>2, <3>3
  <2>3. relayId' \in Convs \cup {0}
    BY <1>1, <1>6
  <2> QED BY <1>1, <1>2, <1>6, <2>1, <2>2, <2>3
<1>7. ASSUME NEW c \in RelayCalls,
             RelaySend(c) \/ RelayEvent(c) \/ RelayExited(c) \/ DrainEvent(c) \/ DrainEnd(c)
      PROVE  RelayTyped'
  <2>1. c \in Opened
    BY <1>1, <1>7 DEF RelaySend, RelayEvent, RelayExited, DrainEvent, DrainEnd, CloseInv,
                      AgentOf, Opened
  <2>2. Placed'
    BY <1>1, <1>7 DEF RelaySend, RelayEvent, RelayExited, DrainEvent, DrainEnd, RelayGo,
                      RelayClose
  <2>3. \A d \in Opened : agentAt'[d] # "none"
    BY <1>1, <1>7 DEF RelaySend, RelayEvent, RelayExited, DrainEvent, DrainEnd, RelayClose,
                      Opened
  <2>4. UNCHANGED conv /\ relayId' \in {0, relayId, conv[c]}
    BY <1>7 DEF RelaySend, RelayEvent, RelayExited, DrainEvent, DrainEnd, CasId, SetRelayId
  <2>5. CASE UNCHANGED rEvents
    <3>1. rCount' = rCount /\ \A d \in RelayCalls : agentAt'[d] \in {agentAt[d], "closed"}
      BY <1>1, <1>7, <2>5 DEF RelaySend, RelayEvent, RelayExited, DrainEvent, DrainEnd, RelayClose
    <3>2. Counted'
      BY <1>1, <2>5, <3>1
    <3> QED BY <1>6, <2>1, <2>2, <2>3, <2>4, <3>2
  <2>6. CASE rEvents[c] # <<>> /\ rEvents' = [rEvents EXCEPT ![c] = Tail(@)]
    <3>1. rCount' = rCount /\ UNCHANGED rCount
      BY <1>7 DEF RelaySend, RelayEvent, RelayExited, DrainEvent, DrainEnd
    <3>2. \A d \in RelayCalls : agentAt'[d] \in {agentAt[d], "closed"}
                                \/ (agentAt[d] = "asking" /\ agentAt'[d] = "working")
      BY <1>1, <1>7 DEF RelaySend, RelayEvent, RelayExited, DrainEvent, DrainEnd, RelayClose
    <3>3. /\ Tail(rEvents[c]) \in Seq(Kinds) /\ Len(Tail(rEvents[c])) = Len(rEvents[c]) - 1
          /\ Len(rEvents[c]) \in Nat
      BY <1>1, <2>6
    <3>4. Counted'
      BY <1>1, <2>6, <3>1, <3>2, <3>3
    <3> QED BY <1>6, <2>1, <2>2, <2>3, <2>4, <3>4
  <2> QED BY <1>7, <2>5, <2>6 DEF RelaySend, RelayEvent, RelayExited, DrainEvent, DrainEnd
<1>8. ASSUME NEW c \in RelayCalls, NEW event \in Kinds, AgentEvent(c, event)
      PROVE  RelayTyped'
  <2>1. c \in Opened
    BY <1>8 DEF AgentEvent, Opened
  <2>2. Placed'
    BY <1>1, <1>8 DEF AgentEvent
  <2>3. \A d \in Opened : agentAt'[d] # "none"
    BY <1>1, <1>8 DEF AgentEvent, Opened
  <2>4. Append(rEvents[c], event) \in Seq(Kinds)
        /\ Len(Append(rEvents[c], event)) = Len(rEvents[c]) + 1 /\ Len(rEvents[c]) \in Nat
    BY <1>1
  <2>5. rCount[c] <= RelayEvents /\ (event \in {"text", "ask"} => rCount[c] < RelayEvents)
    BY <1>1, <1>8 DEF AgentEvent
  <2>6. Counted'
    BY <1>1, <1>8, <2>4, <2>5 DEF AgentEvent
  <2> QED BY <1>6, <1>8, <2>1, <2>2, <2>3, <2>6 DEF AgentEvent
<1>9. ASSUME NEW c \in RelayCalls, AgentExit(c) PROVE RelayTyped'
  <2>1. c \in Opened /\ Placed' /\ Counted' /\ \A d \in Opened : agentAt'[d] # "none"
    BY <1>1, <1>9 DEF AgentExit, Opened
  <2> QED BY <1>6, <1>9, <2>1 DEF AgentExit
<1>10. ASSUME NEW c \in RelayCalls, RelayLate(c) PROVE RelayTyped'
  <2>1. Placed' /\ Counted' /\ Named'
    BY <1>1, <1>10 DEF RelayLate, TakenIds, Opened
  <2> QED BY <1>2, <2>1
<1> QED BY <1>3, <1>4, <1>5, <1>7, <1>8, <1>9, <1>10, RelaySteps

\* The calls keep their types, however many overlap: each agent says no more than the
\* bound, and there is a conversation id for everyone.
LEMMA RelayTypes == RelayInit /\ [][RelayNext]_RelayVars => []RelayTypeOK
<1>1. RelayTyped => RelayTypeOK
  BY DEF RelayTyped
<1> QED BY <1>1, RelayTypeStart, RelayTypeStep, PTL

-----------------------------------------------------------------------------
(* WorkspacePool *)

\* The messages in a turn that is counted on state st.
TurnsOn(st) == {m \in Messages : wsAt[m] = "turn" /\ wsMsg[m].counted = st}

WsShape ==
  /\ pool \in [Dirs -> States \cup {0}]
  /\ turnsOf \in [States -> Nat]
  /\ idle \in [States -> BOOLEAN]
  /\ manager \in [States -> States \cup {0}]
  /\ agentIn \in SUBSET Dirs
  /\ wsAt \in [Messages -> {"new", "touched", "found", "ready", "entering", "turn",
                            "drain", "done"}]
  /\ wsMsg \in [Messages -> [dir : Dirs \cup {"none"}, touched : {"no", "yes", "late"},
                             state : States \cup {0}, manager : States \cup {0},
                             counted : States \cup {0}]]

\* What a message holds at each place.
MessageHolds == \A m \in Messages :
  /\ wsAt[m] \in {"new", "done"} => wsMsg[m] = NoMsg
  /\ wsAt[m] \notin {"new", "done"} => wsMsg[m].dir \in Dirs
  /\ wsAt[m] \in {"found", "ready", "entering", "turn"} => wsMsg[m].state # 0
  /\ wsAt[m] \in {"ready", "entering", "turn"} => wsMsg[m].manager # 0
  /\ wsMsg[m].counted # 0 <=> wsAt[m] \in {"entering", "turn"}

\* activeTurns is the number of turns that will call EndTurn.
Counts == \A st \in States : turnsOf[st] = Cardinality(TurnsOn(st))

\* Two directories never share a state.
OneDir == \A d, e \in Dirs : pool[d] = pool[e] /\ pool[d] # 0 => d = e

\* A message that has set the clock of its directory, and is not late, works with the
\* state that the pool has for it, which is not idle until its turn begins.
KeepsState(m) == LET st == pool[wsMsg[m].dir] IN
  /\ wsAt[m] \in {"found", "ready", "entering", "turn"} => wsMsg[m].state = st
  /\ wsAt[m] \in {"entering", "turn"} => wsMsg[m].counted = st
  /\ wsAt[m] \in {"ready", "entering", "turn"} => wsMsg[m].manager = manager[st]
  /\ wsAt[m] \in {"touched", "found", "ready", "entering"} /\ st # 0 => ~idle[st]

PoolInv == WsShape /\ MessageHolds /\ Counts /\ OneDir
           /\ \A m \in Messages : wsMsg[m].touched = "yes" => KeepsState(m)

\* The names of states do not begin with nil.
LEMMA StateNames == 0 \notin States /\ States \subseteq Nat
<1>1. Cardinality(Messages) \in Nat
  BY FS_CardinalityType, WsFinite
<1>2. QED
  BY <1>1 DEF States

\* The turns counted on a state are finitely many, none when no message holds it.
LEMMA TurnsFinite ==
  ASSUME NEW st
  PROVE  /\ IsFiniteSet(TurnsOn(st)) /\ Cardinality(TurnsOn(st)) \in Nat
         /\ Cardinality(TurnsOn(st)) = 0 <=> TurnsOn(st) = {}
<1>1. TurnsOn(st) \in SUBSET Messages
  BY DEF TurnsOn
<1>2. IsFiniteSet(TurnsOn(st))
  BY <1>1, FS_Subset, WsFinite
<1>3. QED
  BY <1>2, FS_CardinalityType, FS_EmptySet

\* GetOrCreate gives the pool's state, or a fresh one that nobody held: whatever is
\* known in the pool stays as it is.
LEMMA Created ==
  ASSUME PoolInv, NEW d \in Dirs, NEW st \in States, GetOrCreate(d, st)
  PROVE  /\ pool' \in [Dirs -> States \cup {0}] /\ pool'[d] = st
         /\ turnsOf' \in [States -> Nat] /\ idle' \in [States -> BOOLEAN]
         /\ manager' \in [States -> States \cup {0}]
         /\ OneDir'
         /\ \A s \in States : turnsOf'[s] = Cardinality(TurnsOn(s))
         /\ \A e \in Dirs : pool'[e] # pool[e] => pool[e] = 0 /\ ~idle'[pool'[e]]
         /\ \A e \in Dirs : pool[e] # 0 =>
              manager'[pool[e]] = manager[pool[e]] /\ idle'[pool[e]] = idle[pool[e]]
<1>. USE StateNames DEF PoolInv, WsShape
<1>1. CASE pool[d] # 0
  BY <1>1 DEF GetOrCreate, OneDir, Counts
<1>2. CASE pool[d] = 0
  <2>1. /\ st \notin InUse
        /\ pool' = [pool EXCEPT ![d] = st] /\ turnsOf' = [turnsOf EXCEPT ![st] = 0]
        /\ idle' = [idle EXCEPT ![st] = FALSE] /\ manager' = [manager EXCEPT ![st] = 0]
    BY <1>2 DEF GetOrCreate, LeastUnused
  <2>2. (\A e \in Dirs : pool[e] # st) /\ (\A m \in Messages : wsMsg[m].counted # st)
    BY <2>1 DEF InUse
  <2>3. OneDir'
    BY <2>1, <2>2 DEF OneDir
  <2>4. \A s \in States : turnsOf'[s] = Cardinality(TurnsOn(s))
    <3>1. TurnsOn(st) = {}
      BY <2>2 DEF TurnsOn
    <3>2. Cardinality(TurnsOn(st)) = 0
      BY <3>1, FS_EmptySet
    <3>3. QED
      BY <2>1, <3>2 DEF Counts
  <2>5. \A e \in Dirs : pool'[e] # pool[e] => pool[e] = 0 /\ ~idle'[pool'[e]]
    BY <1>2, <2>1
  <2>6. \A e \in Dirs : pool[e] # 0 =>
          manager'[pool[e]] = manager[pool[e]] /\ idle'[pool[e]] = idle[pool[e]]
    BY <2>1, <2>2
  <2>7. QED
    BY <2>1, <2>3, <2>4, <2>5, <2>6
<1>3. QED
  BY <1>1, <1>2

\* A step that moves no message into or out of a turn.
LEMMA SameTurns ==
  ASSUME Counts, NEW m \in Messages, wsAt[m] # "turn", wsAt'[m] # "turn",
         \A n \in Messages \ {m} : wsAt'[n] = wsAt[n] /\ wsMsg'[n] = wsMsg[n],
         \A s \in States : turnsOf'[s] = Cardinality(TurnsOn(s))
  PROVE  Counts'
<1>1. ASSUME NEW s \in States PROVE TurnsOn(s)' = TurnsOn(s)
  BY DEF TurnsOn
<1>2. QED
  BY <1>1 DEF Counts

\* A message takes a step, and the pool is at most extended.
LEMMA MessageStep ==
  ASSUME PoolInv, NEW m \in Messages, WsShape', MessageHolds', OneDir', Counts',
         \A n \in Messages \ {m} : wsAt'[n] = wsAt[n] /\ wsMsg'[n] = wsMsg[n],
         \A e \in Dirs : pool'[e] # pool[e] => pool[e] = 0 /\ ~idle'[pool'[e]],
         \A e \in Dirs : pool[e] # 0 => /\ idle'[pool[e]] => idle[pool[e]]
                                        /\ \/ manager'[pool[e]] = manager[pool[e]]
                                           \/ manager[pool[e]] = 0,
         wsMsg'[m].touched = "yes" => KeepsState(m)'
  PROVE  PoolInv'
<1>. USE StateNames DEF PoolInv, WsShape
<1>1. ASSUME NEW n \in Messages \ {m}, wsMsg'[n].touched = "yes" PROVE KeepsState(n)'
  <2>1. wsAt'[n] = wsAt[n] /\ wsMsg'[n] = wsMsg[n] /\ KeepsState(n)
    BY <1>1
  <2>2. wsAt[n] \notin {"new", "done"} /\ wsMsg[n].dir \in Dirs
    BY <1>1, <2>1 DEF MessageHolds, NoMsg
  <2>3. wsAt[n] \notin {"touched", "drain"} => pool[wsMsg[n].dir] # 0
    BY <2>1, <2>2 DEF MessageHolds, KeepsState
  <2>4. QED
    BY <2>1, <2>2, <2>3 DEF MessageHolds, KeepsState
<1>2. QED
  BY <1>1

\* The steps of a message.
LEMMA WsStepInv == ASSUME PoolInv, NEW m \in Messages, WsStep(m) PROVE PoolInv'
<1>. USE StateNames DEF PoolInv, WsShape, WsGo
<1>1. CASE WsTouch(m)
  <2>1. PICK bound \in Dirs \cup {"none"}, d \in Dirs :
          /\ wsMsg' = [wsMsg EXCEPT ![m].dir = d, ![m].touched = IF bound = d THEN "yes" ELSE "no"]
          /\ idle' = [st \in States |->
               IF bound # "none" /\ st = pool[bound] THEN FALSE ELSE idle[st]]
    BY <1>1 DEF WsTouch
  <2>2. /\ wsAt[m] = "new" /\ wsAt' = [wsAt EXCEPT ![m] = "touched"] /\ wsMsg[m] = NoMsg
        /\ UNCHANGED <<pool, turnsOf, manager, agentIn>>
    BY <1>1 DEF WsTouch, MessageHolds
  <2> DEFINE here == IF bound = d THEN "yes" ELSE "no"
  <2>a. here \in {"no", "yes"} /\ (here = "yes" => bound = d)
    OBVIOUS
  <2>b. wsMsg' = [wsMsg EXCEPT ![m].dir = d, ![m].touched = here]
    BY <2>1
  <2> HIDE DEF here
  <2>3. /\ wsMsg' \in [Messages -> [dir : Dirs \cup {"none"}, touched : {"no", "yes", "late"},
                                  state : States \cup {0}, manager : States \cup {0},
                                  counted : States \cup {0}]]
        /\ wsMsg'[m].dir = d /\ wsMsg'[m].touched = here /\ wsMsg'[m].counted = 0
        /\ \A n \in Messages \ {m} : wsAt'[n] = wsAt[n] /\ wsMsg'[n] = wsMsg[n]
    <3> DEFINE half == [wsMsg EXCEPT ![m].dir = d]
    <3>1. /\ half \in [Messages -> [dir : Dirs \cup {"none"}, touched : {"no", "yes", "late"},
                                         state : States \cup {0}, manager : States \cup {0},
                                         counted : States \cup {0}]]
          /\ half[m].dir = d /\ half[m].counted = 0
          /\ \A n \in Messages \ {m} : half[n] = wsMsg[n]
      <4>1. wsMsg[m].counted = 0
        BY <2>2 DEF MessageHolds
      <4>2. QED
        BY <4>1
    <3>2. wsMsg' = [half EXCEPT ![m].touched = here]
      BY <2>b
    <3> HIDE DEF half
    <3>3. here \in {"no", "yes", "late"}
      BY <2>a
    <3>4. wsMsg' \in [Messages -> [dir : Dirs \cup {"none"}, touched : {"no", "yes", "late"},
                                  state : States \cup {0}, manager : States \cup {0},
                                  counted : States \cup {0}]]
      BY <3>1, <3>2, <3>3
    <3>5. QED
      BY <2>2, <3>1, <3>2, <3>4
  <2>4. WsShape' /\ OneDir' /\ MessageHolds'
    <3>1. idle' \in [States -> BOOLEAN]
      BY <2>1
    <3>2. WsShape' /\ OneDir'
      BY <2>2, <2>3, <3>1 DEF OneDir
    <3>3. \A n \in Messages \ {m} : wsAt'[n] = wsAt[n] /\ wsMsg'[n] = wsMsg[n]
      BY <2>3
    <3>4. /\ wsAt'[m] = "touched" /\ wsMsg'[m].dir = d /\ wsMsg'[m].counted = 0
      BY <2>2, <2>3
    <3>5. MessageHolds'
      BY <3>3, <3>4 DEF MessageHolds
    <3>6. QED
      BY <3>2, <3>5
  <2>5. Counts'
    BY <2>2, <2>3, SameTurns DEF Counts
  <2>6. /\ ~idle'[pool[d]] \/ pool[d] = 0 \/ wsMsg'[m].touched = "no"
        /\ \A e \in Dirs : pool[e] # 0 => (idle'[pool[e]] => idle[pool[e]])
    <3>1. wsMsg'[m].touched = here
      BY <2>3
    <3>2. \A st \in States : idle'[st] = IF bound # "none" /\ st = pool[bound] THEN FALSE
                                        ELSE idle[st]
      BY <2>1
    <3>3. bound = d /\ pool[d] \in States => bound # "none" /\ ~idle'[pool[d]]
      BY <3>2, WsDirs
    <3>4. QED
      <4>1. \A e \in Dirs : pool[e] # 0 => (idle'[pool[e]] => idle[pool[e]])
        BY <3>2
      <4>2. QED
        BY <2>a, <3>1, <3>3, <4>1
  <2>7. wsMsg'[m].touched = "yes" => KeepsState(m)'
    BY <2>2, <2>3, <2>6 DEF KeepsState
  <2>8. QED
    BY <2>2, <2>3, <2>4, <2>5, <2>6, <2>7, MessageStep
<1>2. CASE WsLookup(m)
  <2>1. PICK st \in States :
          /\ GetOrCreate(wsMsg[m].dir, st)
          /\ wsMsg' = [wsMsg EXCEPT ![m].state = st,
                                    ![m].touched = IF pool[wsMsg[m].dir] = 0 /\ @ = "no"
                                                    THEN "yes" ELSE @]
    BY <1>2 DEF WsLookup
  <2>2. /\ wsAt[m] = "touched" /\ wsAt' = [wsAt EXCEPT ![m] = "found"]
        /\ wsMsg[m].dir \in Dirs /\ wsMsg[m].counted = 0 /\ agentIn' = agentIn
    BY <1>2 DEF WsLookup, MessageHolds
  <2> DEFINE half  == [wsMsg EXCEPT ![m].state = st]
             clock == IF pool[wsMsg[m].dir] = 0 /\ wsMsg[m].touched = "no"
                      THEN "yes" ELSE wsMsg[m].touched
  <2>a. /\ half \in [Messages -> [dir : Dirs \cup {"none"}, touched : {"no", "yes", "late"},
                                  state : States \cup {0}, manager : States \cup {0},
                                  counted : States \cup {0}]]
        /\ half[m].state = st /\ half[m].dir = wsMsg[m].dir /\ half[m].counted = 0
        /\ \A n \in Messages \ {m} : half[n] = wsMsg[n]
    BY <2>2
  <2>b. wsMsg' = [half EXCEPT ![m].touched = clock]
    BY <2>1
  <2>c. /\ clock \in {"no", "yes", "late"}
        /\ clock = "yes" => pool[wsMsg[m].dir] = 0 \/ wsMsg[m].touched = "yes"
    OBVIOUS
  <2> HIDE DEF half, clock
  <2>d. /\ wsMsg' \in [Messages -> [dir : Dirs \cup {"none"}, touched : {"no", "yes", "late"},
                                  state : States \cup {0}, manager : States \cup {0},
                                  counted : States \cup {0}]]
        /\ wsMsg'[m].state = st /\ wsMsg'[m].dir = wsMsg[m].dir /\ wsMsg'[m].counted = 0
        /\ wsMsg'[m].touched = clock
        /\ \A n \in Messages \ {m} : wsMsg'[n] = wsMsg[n]
    BY <2>a, <2>b, <2>c
  <2>3. /\ pool' \in [Dirs -> States \cup {0}] /\ pool'[wsMsg[m].dir] = st
        /\ turnsOf' \in [States -> Nat] /\ idle' \in [States -> BOOLEAN]
        /\ manager' \in [States -> States \cup {0}]
        /\ OneDir'
        /\ \A s \in States : turnsOf'[s] = Cardinality(TurnsOn(s))
        /\ \A e \in Dirs : pool'[e] # pool[e] => pool[e] = 0 /\ ~idle'[pool'[e]]
        /\ \A e \in Dirs : pool[e] # 0 =>
             manager'[pool[e]] = manager[pool[e]] /\ idle'[pool[e]] = idle[pool[e]]
    BY <2>1, <2>2, Created
  <2>4. WsShape'
    BY <2>2, <2>3, <2>d
  <2>5. MessageHolds'
    BY <2>2, <2>d DEF MessageHolds, NoMsg
  <2>6. Counts'
    BY <2>2, <2>3, <2>d, SameTurns
  <2>7. wsMsg'[m].touched = "yes" => KeepsState(m)'
    BY <2>2, <2>3, <2>c, <2>d DEF KeepsState
  <2>8. QED
    BY <2>2, <2>3, <2>4, <2>5, <2>6, <2>7, <2>d, MessageStep
<1>3. CASE WsAgent(m)
  <2>1. CASE WsGo(m, "found", "ready")
    <3>1. PICK its \in States :
            /\ IF manager[wsMsg[m].state] = 0 THEN LeastUnused(its, ManagersInUse)
               ELSE its = manager[wsMsg[m].state]
            /\ manager' = [manager EXCEPT ![wsMsg[m].state] = its]
            /\ wsMsg' = [wsMsg EXCEPT ![m].manager = its]
      BY <1>3, <2>1 DEF WsAgent, WsDone
    <3>2. /\ wsAt[m] = "found" /\ wsAt' = [wsAt EXCEPT ![m] = "ready"]
          /\ wsMsg[m].state \in States /\ UNCHANGED <<pool, turnsOf, idle, agentIn>>
      BY <1>3, <2>1 DEF WsAgent, MessageHolds
    <3>3. WsShape' /\ OneDir'
      BY <3>1, <3>2 DEF OneDir
    <3>4. MessageHolds'
      BY <3>1, <3>2 DEF MessageHolds, NoMsg
    <3>5. Counts'
      BY <3>1, <3>2, SameTurns DEF Counts
    <3>6. wsMsg'[m].touched = "yes" => KeepsState(m)'
      BY <3>1, <3>2 DEF KeepsState
    <3>7. \A e \in Dirs : manager'[pool[e]] = manager[pool[e]] \/ manager[pool[e]] = 0
      BY <3>1, <3>2
    <3>8. \A n \in Messages \ {m} : wsAt'[n] = wsAt[n] /\ wsMsg'[n] = wsMsg[n]
      BY <3>1, <3>2
    <3>9. QED
      BY <3>2, <3>3, <3>4, <3>5, <3>6, <3>7, <3>8, MessageStep
  <2>2. CASE WsDone(m, "found")
    <3>1. /\ wsAt[m] = "found" /\ wsAt' = [wsAt EXCEPT ![m] = "done"]
          /\ wsMsg' = [wsMsg EXCEPT ![m] = NoMsg]
          /\ UNCHANGED <<pool, turnsOf, idle, manager, agentIn>>
      BY <1>3, <2>2 DEF WsAgent, WsDone
    <3>2. WsShape' /\ OneDir'
      BY <3>1 DEF OneDir, NoMsg
    <3>3. MessageHolds'
      BY <3>1 DEF MessageHolds, NoMsg
    <3>4. Counts'
      BY <3>1, SameTurns DEF Counts
    <3>5. QED
      BY <3>1, <3>2, <3>3, <3>4, MessageStep DEF NoMsg
  <2>3. QED
    BY <1>3, <2>1, <2>2 DEF WsAgent
<1>4. CASE WsLeave(m) \/ WsDrainEnd(m)
  <2>1. /\ wsAt[m] \in {"ready", "drain"} /\ wsAt' = [wsAt EXCEPT ![m] = "done"]
        /\ wsMsg' = [wsMsg EXCEPT ![m] = NoMsg]
        /\ UNCHANGED <<pool, turnsOf, idle, manager, agentIn>>
    BY <1>4 DEF WsLeave, WsDrainEnd, WsDone
  <2>2. WsShape' /\ OneDir'
    BY <2>1 DEF OneDir, NoMsg
  <2>3. MessageHolds'
    BY <2>1 DEF MessageHolds, NoMsg
  <2>4. Counts'
    BY <2>1, SameTurns DEF Counts
  <2>5. QED
    BY <2>1, <2>2, <2>3, <2>4, MessageStep DEF NoMsg
<1>8. CASE WsDrain(m)
  <2>1. /\ wsAt[m] = "ready" /\ wsAt' = [wsAt EXCEPT ![m] = "drain"]
        /\ UNCHANGED <<pool, turnsOf, idle, manager, agentIn, wsMsg>>
    BY <1>8 DEF WsDrain
  <2>2. WsShape' /\ OneDir'
    BY <2>1 DEF OneDir
  <2>3. MessageHolds'
    BY <2>1 DEF MessageHolds
  <2>4. Counts'
    BY <2>1, SameTurns DEF Counts
  <2>5. KeepsState(m)'
    BY <2>1 DEF KeepsState
  <2>6. QED
    BY <2>1, <2>2, <2>3, <2>4, <2>5, MessageStep
<1>5. CASE WsReenter(m)
  <2>1. PICK st \in States : /\ GetOrCreate(wsMsg[m].dir, st)
                             /\ wsMsg' = [wsMsg EXCEPT ![m].counted = st]
    BY <1>5 DEF WsReenter
  <2>2. /\ wsAt[m] = "ready" /\ wsAt' = [wsAt EXCEPT ![m] = "entering"]
        /\ wsMsg[m].dir \in Dirs /\ agentIn' = agentIn
    BY <1>5 DEF WsReenter, MessageHolds
  <2>3. /\ pool' \in [Dirs -> States \cup {0}] /\ pool'[wsMsg[m].dir] = st
        /\ turnsOf' \in [States -> Nat] /\ idle' \in [States -> BOOLEAN]
        /\ manager' \in [States -> States \cup {0}]
        /\ OneDir'
        /\ \A s \in States : turnsOf'[s] = Cardinality(TurnsOn(s))
        /\ \A e \in Dirs : pool'[e] # pool[e] => pool[e] = 0 /\ ~idle'[pool'[e]]
        /\ \A e \in Dirs : pool[e] # 0 =>
             manager'[pool[e]] = manager[pool[e]] /\ idle'[pool[e]] = idle[pool[e]]
    BY <2>1, <2>2, Created
  <2>4. WsShape'
    <3>1. wsMsg' \in [Messages -> [dir : Dirs \cup {"none"}, touched : {"no", "yes", "late"},
                                  state : States \cup {0}, manager : States \cup {0},
                                  counted : States \cup {0}]]
      BY <2>1, SMTT(30)
    <3>2. QED
      BY <2>2, <2>3, <3>1
  <2>5. MessageHolds'
    BY <2>1, <2>2 DEF MessageHolds, NoMsg
  <2>6. Counts'
    BY <2>1, <2>2, <2>3, SameTurns
  <2>7. wsMsg'[m].touched = "yes" => KeepsState(m)'
    BY <2>1, <2>2, <2>3 DEF KeepsState, MessageHolds
  <2>8. QED
    BY <2>1, <2>2, <2>3, <2>4, <2>5, <2>6, <2>7, MessageStep
<1>6. CASE WsBeginTurn(m)
  <2>0. PICK c \in States : c = wsMsg[m].counted
    BY <1>6 DEF WsBeginTurn, MessageHolds
  <2>z. wsMsg[m].dir \in Dirs
    BY <1>6 DEF WsBeginTurn, MessageHolds
  <2>1. /\ wsAt[m] = "entering" /\ wsAt' = [wsAt EXCEPT ![m] = "turn"]
        /\ turnsOf' = [turnsOf EXCEPT ![c] = @ + 1] /\ idle' = [idle EXCEPT ![c] = FALSE]
        /\ agentIn' \in SUBSET Dirs /\ UNCHANGED <<pool, manager, wsMsg>>
    BY <1>6, <2>0, <2>z DEF WsBeginTurn
  <2>2. WsShape' /\ OneDir'
    BY <2>1 DEF OneDir
  <2>3. MessageHolds'
    BY <2>1 DEF MessageHolds, NoMsg
  <2>4. Counts'
    <3>1. TurnsOn(c)' = TurnsOn(c) \cup {m} /\ m \notin TurnsOn(c)
      BY <2>0, <2>1 DEF TurnsOn
    <3>2. Cardinality(TurnsOn(c)') = Cardinality(TurnsOn(c)) + 1
      BY <3>1, TurnsFinite, FS_AddElement
    <3>3. \A s \in States \ {c} : TurnsOn(s)' = TurnsOn(s)
      BY <2>0, <2>1 DEF TurnsOn
    <3>4. QED
      BY <2>1, <3>2, <3>3 DEF Counts
  <2>5. wsMsg'[m].touched = "yes" => KeepsState(m)'
    BY <2>0, <2>1 DEF KeepsState
  <2>6. QED
    BY <2>0, <2>1, <2>2, <2>3, <2>4, <2>5, MessageStep
<1>7. CASE WsEndTurn(m)
  <2>0. PICK c \in States : c = wsMsg[m].counted
    BY <1>7 DEF WsEndTurn, WsGo, WsDone, MessageHolds
  <2>1. /\ wsAt[m] = "turn" /\ wsAt' = [wsAt EXCEPT ![m] = "done"]
        /\ turnsOf' = [turnsOf EXCEPT ![c] = @ - 1] /\ idle' = [idle EXCEPT ![c] = FALSE]
        /\ wsMsg' = [wsMsg EXCEPT ![m] = NoMsg]
        /\ UNCHANGED <<pool, manager, agentIn>>
    BY <1>7, <2>0 DEF WsEndTurn, WsDone
  <2>2. /\ Cardinality(TurnsOn(c)') = Cardinality(TurnsOn(c)) - 1
        /\ Cardinality(TurnsOn(c)') \in Nat
    <3>1. TurnsOn(c)' = TurnsOn(c) \ {m} /\ m \in TurnsOn(c)
      BY <2>0, <2>1 DEF TurnsOn, NoMsg
    <3>2. IsFiniteSet(TurnsOn(c) \ {m})
      BY TurnsFinite, FS_RemoveElement
    <3>3. QED
      BY <3>1, <3>2, TurnsFinite, FS_RemoveElement, FS_CardinalityType
  <2>3. Counts'
    <3>1. \A s \in States \ {c} : TurnsOn(s)' = TurnsOn(s)
      BY <2>0, <2>1 DEF TurnsOn, NoMsg
    <3>2. QED
      BY <2>1, <2>2, <3>1 DEF Counts
  <2>4. WsShape' /\ OneDir'
    BY <2>1, <2>2 DEF OneDir, NoMsg, Counts
  <2>5. MessageHolds'
    BY <2>1 DEF MessageHolds, NoMsg
  <2>6. QED
    BY <2>1, <2>3, <2>4, <2>5, MessageStep DEF NoMsg
<1>9. QED
  BY <1>1, <1>2, <1>3, <1>4, <1>5, <1>6, <1>7, <1>8 DEF WsStep

\* The reaper takes no state that a message works with, and time makes no such state
\* idle before the message is late.
LEMMA ReaperInv ==
  ASSUME PoolInv, ReapIdle \/ \E st \in States : WsAge(st)  PROVE PoolInv'
<1>. USE StateNames DEF PoolInv, WsShape
<1>1. CASE ReapIdle
  <2>0. UNCHANGED <<turnsOf, manager, wsAt, wsMsg>> /\ MessageHolds' /\ Counts'
    BY <1>1 DEF ReapIdle, MessageHolds, Counts, TurnsOn
  <2>1. /\ idle' = idle /\ agentIn' \in SUBSET Dirs
        /\ pool' = [d \in Dirs |-> IF pool[d] # 0 /\ idle[pool[d]] /\ turnsOf[pool[d]] = 0
                                   THEN 0 ELSE pool[d]]
    BY <1>1 DEF ReapIdle
  <2>2. ASSUME NEW m \in Messages, wsMsg[m].touched = "yes"
        PROVE  KeepsState(m)'
    <3>1. /\ wsAt[m] \notin {"new", "done"}
          /\ wsMsg[m].dir \in Dirs /\ KeepsState(m)
      BY <2>2 DEF MessageHolds, NoMsg
    <3>2. CASE wsAt[m] = "turn"
      <4>1. /\ m \in TurnsOn(pool[wsMsg[m].dir]) /\ pool[wsMsg[m].dir] \in States
        BY <3>1, <3>2 DEF TurnsOn, KeepsState, MessageHolds
      <4>2. turnsOf[pool[wsMsg[m].dir]] # 0
        BY <4>1, TurnsFinite DEF Counts
      <4>3. QED
        BY <2>0, <2>1, <3>1, <3>2, <4>2 DEF KeepsState
    <3>3. CASE wsAt[m] # "turn"
      BY <2>0, <2>1, <3>1, <3>3 DEF KeepsState
    <3>4. QED
      BY <3>2, <3>3
  <2>3. QED
    BY <2>0, <2>1, <2>2 DEF OneDir
<1>2. ASSUME NEW st \in States, WsAge(st)  PROVE PoolInv'
  <2>1. /\ UNCHANGED <<pool, turnsOf, manager, agentIn, wsAt>>
        /\ idle' = [idle EXCEPT ![st] = TRUE]
        /\ wsMsg' = [m \in Messages |-> IF OnTheWay(m, st)
                       THEN [wsMsg[m] EXCEPT !.touched = "late"] ELSE wsMsg[m]]
    BY <1>2 DEF WsAge
  <2>2. /\ wsMsg' \in [Messages -> [dir : Dirs \cup {"none"}, touched : {"no", "yes", "late"},
                                  state : States \cup {0}, manager : States \cup {0},
                                  counted : States \cup {0}]]
        /\ \A m \in Messages :
             /\ UNCHANGED <<wsMsg[m].dir, wsMsg[m].state, wsMsg[m].manager, wsMsg[m].counted>>
             /\ wsMsg'[m].touched = "yes" =>
                  wsMsg[m].touched = "yes" /\ wsMsg'[m] = wsMsg[m] /\ ~OnTheWay(m, st)
             /\ wsAt[m] \in {"new", "done"} => wsMsg'[m] = wsMsg[m]
    <3> HIDE DEF OnTheWay
    <3>1. \A m \in Messages : wsAt[m] \in {"new", "done"} => ~OnTheWay(m, st)
      BY DEF OnTheWay
    <3>2. QED
      BY <2>1, <3>1
  <2>3. MessageHolds' /\ Counts'
    <3>1. \A s \in States : TurnsOn(s)' = TurnsOn(s)
      BY <2>1, <2>2 DEF TurnsOn
    <3>2. QED
      BY <2>1, <2>2, <3>1 DEF MessageHolds, Counts
  <2>4. ASSUME NEW m \in Messages, wsMsg'[m].touched = "yes"  PROVE KeepsState(m)'
    <3>1. KeepsState(m) /\ wsMsg'[m] = wsMsg[m] /\ ~OnTheWay(m, st) /\ wsMsg[m].touched = "yes"
      BY <2>2, <2>4
    <3>2. wsMsg[m].dir \in Dirs
      BY <3>1 DEF MessageHolds, NoMsg
    <3>3. QED
      BY <2>1, <3>1, <3>2 DEF OnTheWay, KeepsState
  <2>5. QED
    BY <2>1, <2>2, <2>3, <2>4 DEF OneDir
<1>3. QED
  BY <1>1, <1>2

\* The invariant of the pool holds of every behaviour.
LEMMA PoolInvariant == WsInit /\ [][WsNext]_WsVars => []PoolInv
<1>1. WsInit => PoolInv
  <2>1. ASSUME WsInit, NEW st \in States PROVE turnsOf[st] = Cardinality(TurnsOn(st))
    <3>1. TurnsOn(st) = {}
      BY <2>1 DEF WsInit, TurnsOn
    <3>2. QED
      BY <2>1, <3>1, FS_EmptySet DEF WsInit
  <2>2. QED
    BY <2>1, StateNames DEF WsInit, PoolInv, WsShape, MessageHolds, Counts, OneDir, NoMsg
<1>2. PoolInv /\ [WsNext]_WsVars => PoolInv'
  <2>1. PoolInv /\ UNCHANGED WsVars => PoolInv'
    BY DEF WsVars, PoolInv, WsShape, MessageHolds, Counts, TurnsOn, OneDir, KeepsState
  <2>2. QED
    BY <2>1, WsStepInv, ReaperInv DEF WsNext
<1>3. QED
  BY <1>1, <1>2, PTL

\* TurnPooled, for any number of messages and directories: the counted turn of a message
\* that set the clock of its directory on its way, and was not late, is counted on the
\* state that the pool has.  BeginTurn finds it although the reaper may run between the
\* two look-ups, and between the second one and BeginTurn.
THEOREM TurnsArePooled == WsSpec => []TurnPooled
<1>1. PoolInv => TurnPooled
  <2> SUFFICES ASSUME PoolInv, NEW m \in Messages, InTurn(m)
               PROVE  /\ pool[wsMsg[m].dir] = wsMsg[m].counted
                      /\ turnsOf[wsMsg[m].counted] > 0
    BY DEF TurnPooled
  <2>1. pool[wsMsg[m].dir] = wsMsg[m].counted /\ wsMsg[m].counted \in States
    BY DEF PoolInv, WsShape, KeepsState, MessageHolds, InTurn
  <2>2. m \in TurnsOn(wsMsg[m].counted)
    BY DEF InTurn, TurnsOn
  <2>3. Cardinality(TurnsOn(wsMsg[m].counted)) > 0
    BY <2>2, TurnsFinite
  <2>4. QED
    BY <2>1, <2>3 DEF PoolInv, Counts
<1>2. QED
  BY <1>1, PoolInvariant, PTL DEF WsSpec

\* SoleManager, for any number of messages and directories: the counted turns of such
\* messages in one directory share one agent and SessionManager.  It says nothing of the
\* turns that drains run, nor of messages that set no clock.
THEOREM ManagersAreShared == WsSpec => []SoleManager
<1>1. PoolInv => SoleManager
  BY DEF PoolInv, SoleManager, InTurn, KeepsState
<1>2. QED
  BY <1>1, PoolInvariant, PTL DEF WsSpec

\* The pool keeps its types: a state never counts more turns than there are messages.
LEMMA WsTypes == WsInit /\ [][WsNext]_WsVars => []WsTypeOK
<1>1. PoolInv => WsTypeOK
  <2> SUFFICES ASSUME PoolInv PROVE WsTypeOK
    OBVIOUS
  <2>1. ASSUME NEW st \in States PROVE turnsOf[st] \in 0 .. Cardinality(Messages)
    <3>1. TurnsOn(st) \in SUBSET Messages
      BY DEF TurnsOn
    <3>2. Cardinality(TurnsOn(st)) <= Cardinality(Messages) /\ Cardinality(Messages) \in Nat
      BY <3>1, WsFinite, FS_Subset, FS_CardinalityType
    <3> QED BY <3>2, TurnsFinite DEF PoolInv, Counts
  <2> QED BY <2>1 DEF PoolInv, WsShape, WsTypeOK
<1> QED BY <1>1, PoolInvariant, PTL

-----------------------------------------------------------------------------
(* The services side by side *)

\* A behaviour of the services is one of each of them.
THEOREM SideBySide ==
  Spec => /\ CronInit /\ [][CronNext]_CronVars
          /\ SmInit /\ [][SmNext]_SmVars
          /\ WsInit /\ [][WsNext]_WsVars
          /\ HbInit /\ [][HbNext]_HbVars
          /\ TermInit /\ [][TermNext]_TermVars
          /\ CliInit /\ [][CliNext]_CliVars
          /\ RelayInit /\ [][RelayNext]_RelayVars
<1>1. Init => CronInit /\ SmInit /\ WsInit /\ HbInit /\ TermInit /\ CliInit /\ RelayInit
  BY DEF Init
<1>2. ASSUME [Next]_vars
      PROVE  /\ [CronNext]_CronVars /\ [SmNext]_SmVars /\ [WsNext]_WsVars /\ [HbNext]_HbVars
             /\ [TermNext]_TermVars /\ [CliNext]_CliVars /\ [RelayNext]_RelayVars
  <2>1. CASE UNCHANGED vars
    BY <2>1 DEF vars
  <2>2. CASE Next
    BY <2>2 DEF Next, OthersStay
  <2> QED BY <1>2, <2>1, <2>2
<1> QED BY <1>1, <1>2, PTL DEF Spec

\* ServicesTypeOK, whatever the jobs, requests, sessions, messages, projects, chats,
\* clients and calls.
THEOREM ServicesTyped == Spec => []ServicesTypeOK
BY SideBySide, CronTypes, SmTypes, WsTypes, HbTypes, TermTypesHold, CliTypes, RelayTypes,
   PTL DEF ServicesTypeOK
=============================================================================
