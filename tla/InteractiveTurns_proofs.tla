----------------------- MODULE InteractiveTurns_proofs -----------------------
(***************************************************************************)
(* Proofs about InteractiveTurns, for any set of messages and commands.    *)
(***************************************************************************)
EXTENDS InteractiveTurns, TLAPS

-----------------------------------------------------------------------------
(* The Session lock                                                        *)
(*                                                                         *)
(* Only few actions take or give back a lock; every other one moves one    *)
(* goroutine between places on the same side of TryLock and Unlock.  The   *)
(* invariant is TurnExclusion and LockHeld, strengthened by what the moves *)
(* rely on: a goroutine past its arrival has a Session, a cleanup returns  *)
(* to a place where the lock is still held, and no runCompress is nested.  *)

CleanupPC == {"detach", "notify", "close", "unmap"}

\* The part of the state that decides who holds which lock.
LockTypes ==
  /\ active \in Session
  /\ busy \in [Session -> BOOLEAN]
  /\ pc \in [Request -> PCs]
  /\ sess \in [Request -> Session \cup {None}]
  /\ depth \in [Request -> Nat]
  /\ ret \in [Request -> {"drain", "release", "cdrop", "swap", "done"}]

HasSession == \A r \in Runner : pc[r] \notin {"idle", "done"} => sess[r] \in Session

ReturnsHolding == \A r \in Runner :
  pc[r] \in CleanupPC => ret[r] \in {"drain", "release", "cdrop"}

NotNested == \A r \in Runner : depth[r] = 0

LockInv == /\ LockTypes /\ HasSession /\ ReturnsHolding /\ NotNested
           /\ TurnExclusion /\ LockHeld

\* A step that moves one goroutine and leaves locks and Sessions alone.
Moves(r, p) == /\ pc' = [pc EXCEPT ![r] = p]
               /\ UNCHANGED <<active, busy, sess, depth>>

LEMMA RunnerKinds == /\ Msg \subseteq Runner /\ CompressCmd \subseteq Runner
               /\ Runner \subseteq Request
               /\ StopCmd \cup NewCmd \cup Answer \subseteq Request \ Runner
               /\ HoldPC \subseteq PCs /\ CleanupPC \subseteq HoldPC
               /\ None \notin Session
  BY Disjoint DEF Runner, Request, Session, HoldPC, PCs, CleanupPC

lockVars == <<active, busy, pc, sess, depth, ret>>

LEMMA NothingMoves == ASSUME LockInv, UNCHANGED lockVars PROVE LockInv'
  BY DEF lockVars, LockInv, LockTypes, HasSession, ReturnsHolding, NotNested,
         TurnExclusion, LockHeld, Holds

LEMMA PanicKeepsLocks == ASSUME NEW r \in Runner, NilCall(r) PROVE UNCHANGED lockVars
  BY DEF NilCall, lockVars, sessVars, turnVars, cleanVars

\* A holder that moves on while it holds keeps the invariant.
LEMMA HolderMoves ==
  ASSUME LockInv, NEW r \in Runner, NEW p \in HoldPC, pc[r] \in HoldPC, Moves(r, p),
         ret' \in [Request -> {"drain", "release", "cdrop", "swap", "done"}],
         \A q \in Runner \ {r} : ret'[q] = ret[q],
         p \in CleanupPC => ret'[r] \in {"drain", "release", "cdrop"}
  PROVE  LockInv'
<1>1. LockTypes'
  BY RunnerKinds DEF LockInv, LockTypes, Moves
<1>2. HasSession' /\ ReturnsHolding' /\ NotNested'
  BY RunnerKinds DEF LockInv, LockTypes, HasSession, ReturnsHolding, NotNested, Moves,
               HoldPC, CleanupPC
<1>3. \A q \in Runner : Holds(q)' <=> Holds(q)
  BY RunnerKinds DEF LockInv, LockTypes, Holds, Moves
<1>4. TurnExclusion' /\ LockHeld'
  BY <1>3 DEF LockInv, TurnExclusion, LockHeld, Moves
<1>5. QED
  BY <1>1, <1>2, <1>4 DEF LockInv

LEMMA CleansUp ==
  ASSUME LockInv, NEW r \in Runner, pc[r] \in HoldPC, NEW p \in {"drain", "cdrop"},
         Cleanup(r, p), UNCHANGED <<active, busy, sess, depth>>
  PROVE  LockInv'
  BY RunnerKinds, HolderMoves DEF Cleanup, Moves, Go, LockInv, LockTypes, HoldPC

\* So does a goroutine that moves without the lock, before or instead of TryLock.
LEMMA OtherMoves ==
  ASSUME LockInv, NEW r \in Request, NEW p \in PCs, pc' = [pc EXCEPT ![r] = p],
         UNCHANGED <<busy, depth>>, active' \in Session,
         sess' \in [Request -> Session \cup {None}],
         \A q \in Runner \ {r} : sess'[q] = sess[q],
         ret' \in [Request -> {"drain", "release", "cdrop", "swap", "done"}],
         \A q \in Runner \ {r} : ret'[q] = ret[q],
         r \in Runner => /\ pc[r] \notin HoldPC /\ p \notin HoldPC
                         /\ p = "done" \/ sess'[r] \in Session
  PROVE  LockInv'
<1>1. LockTypes'
  BY RunnerKinds DEF LockInv, LockTypes
<1>2. HasSession' /\ ReturnsHolding' /\ NotNested'
  BY RunnerKinds DEF LockInv, LockTypes, HasSession, ReturnsHolding, NotNested, HoldPC, CleanupPC
<1>3. \A q \in Runner : (Holds(q)' <=> Holds(q)) /\ (Holds(q) => sess'[q] = sess[q])
  BY RunnerKinds DEF LockInv, LockTypes, Holds
<1>4. TurnExclusion' /\ LockHeld'
  BY <1>3 DEF LockInv, TurnExclusion, LockHeld
<1>5. QED
  BY <1>1, <1>2, <1>4 DEF LockInv

\* TryLock of a free Session by a goroutine that has not got it yet.
LEMMA Acquires ==
  ASSUME LockInv, NEW r \in Runner, NEW p \in HoldPC \ CleanupPC,
         pc[r] \notin HoldPC \cup {"idle", "done"}, ~busy[sess[r]],
         busy' = [busy EXCEPT ![sess[r]] = TRUE], pc' = [pc EXCEPT ![r] = p],
         UNCHANGED <<active, sess, depth, ret>>
  PROVE  LockInv'
<1>0. sess[r] \in Session
  BY DEF LockInv, HasSession
<1>1. LockTypes'
  BY RunnerKinds DEF LockInv, LockTypes
<1>2. HasSession' /\ ReturnsHolding' /\ NotNested'
  BY RunnerKinds, <1>0 DEF LockInv, LockTypes, HasSession, ReturnsHolding, NotNested,
                     HoldPC, CleanupPC
<1>3. \A q \in Runner : Holds(q)' <=> Holds(q) \/ q = r
  BY RunnerKinds DEF LockInv, LockTypes, Holds
<1>4. \A q \in Runner : Holds(q) => sess[q] # sess[r]
  BY <1>0 DEF LockInv, LockHeld
<1>5. TurnExclusion'
  BY <1>3, <1>4 DEF LockInv, TurnExclusion
<1>6. LockHeld'
  BY <1>0, <1>3 DEF LockInv, LockTypes, LockHeld
<1>7. QED
  BY <1>1, <1>2, <1>5, <1>6 DEF LockInv

\* The deferred Unlock of the goroutine that holds the Session.
LEMMA Releases ==
  ASSUME LockInv, NEW r \in Runner, pc[r] \in HoldPC, UnlockAndReturn(r)
  PROVE  LockInv'
<1>0. /\ sess[r] \in Session /\ Holds(r) /\ UNCHANGED <<active, sess, depth, ret>>
      /\ busy' = [busy EXCEPT ![sess[r]] = FALSE] /\ pc' = [pc EXCEPT ![r] = "done"]
  BY DEF LockInv, HasSession, NotNested, Holds, HoldPC, UnlockAndReturn, Go, cleanVars
<1>1. LockTypes'
  BY <1>0 DEF LockInv, LockTypes, PCs
<1>2. HasSession' /\ ReturnsHolding' /\ NotNested'
  BY RunnerKinds, <1>0 DEF LockInv, LockTypes, HasSession, ReturnsHolding, NotNested, CleanupPC
<1>3. \A q \in Runner : Holds(q)' <=> Holds(q) /\ q # r
  BY RunnerKinds, <1>0 DEF LockInv, LockTypes, Holds, HoldPC
<1>4. \A q \in Runner : Holds(q) /\ sess[q] = sess[r] => q = r
  BY <1>0 DEF LockInv, TurnExclusion
<1>5. TurnExclusion'
  BY <1>0, <1>3 DEF LockInv, TurnExclusion
<1>6. LockHeld'
  BY <1>0, <1>3, <1>4 DEF LockInv, LockTypes, LockHeld
<1>7. QED
  BY <1>1, <1>2, <1>5, <1>6 DEF LockInv

-----------------------------------------------------------------------------
(* Every action, one by one: the lock side of each step. *)

LEMMA HandleMessageLock ==
  ASSUME LockInv, NEW m \in Msg, HandleMessage(m)  PROVE LockInv'
<1>. m \in Runner /\ m \in Request
  BY RunnerKinds
<1>1. CASE HintPending(m)
  BY <1>1, OtherMoves, ZenonT(60) DEF HintPending, At, Go, sessVars, turnVars, cleanVars, LockInv,
                          LockTypes, HoldPC, PCs
<1>2. CASE Arrive(m)
  <2>1. /\ pc[m] = "idle" /\ pc' = [pc EXCEPT ![m] = "try"]
        /\ sess' = [sess EXCEPT ![m] = active] /\ UNCHANGED <<active, busy, depth, ret>>
    BY <1>2 DEF Arrive, At, Go, sessVars, cleanVars
  <2>2. /\ sess' \in [Request -> Session \cup {None}] /\ sess'[m] \in Session
        /\ \A q \in Runner \ {m} : sess'[q] = sess[q]
    BY <2>1, RunnerKinds DEF LockInv, LockTypes
  <2>3. active' \in Session /\ ret' \in [Request -> {"drain", "release", "cdrop", "swap", "done"}]
    BY <2>1 DEF LockInv, LockTypes
  <2>4. "try" \in PCs /\ "try" \notin HoldPC /\ pc[m] \notin HoldPC
    BY <2>1 DEF HoldPC, PCs
  <2>5. QED
    BY <2>1, <2>2, <2>3, <2>4, OtherMoves
<1>3. CASE TryLock(m)
  <2>1. CASE busy[sess[m]]
    BY <1>3, <2>1, OtherMoves DEF TryLock, At, Go, cleanVars, LockInv, LockTypes,
                                  HasSession, HoldPC, PCs
  <2>2. CASE ~busy[sess[m]]
    BY <1>3, <2>2, Acquires DEF TryLock, At, Go, cleanVars, HoldPC, CleanupPC
  <2>3. QED BY <2>1, <2>2
<1>4. CASE QueueMessage(m)
  <2>1. PICK p \in {"retry", "done"} : pc' = [pc EXCEPT ![m] = p]
    BY <1>4 DEF QueueMessage, Go
  <2>2. pc[m] = "enqueue" /\ UNCHANGED <<active, busy, sess, depth, ret>>
    BY <1>4 DEF QueueMessage, At, sessVars, turnVars, cleanVars
  <2>3. QED
    BY <2>1, <2>2, OtherMoves, ZenonT(60) DEF LockInv, LockTypes, HasSession, HoldPC, PCs
<1>5. CASE RetryLock(m)
  <2>1. CASE busy[sess[m]]
    BY <1>5, <2>1, OtherMoves, SMTT(30) DEF RetryLock, At, Go, turnVars, cleanVars, LockInv,
                                  LockTypes, HasSession, HoldPC, PCs
  <2>2. CASE ~busy[sess[m]]
    BY <1>5, <2>2, Acquires DEF RetryLock, At, Go, turnVars, cleanVars, HoldPC, CleanupPC
  <2>3. QED BY <2>1, <2>2
<1>6. CASE DrainOrphaned(m)
  BY <1>6, HolderMoves DEF DrainOrphaned, At, Go, Moves, sessVars, cleanVars, LockInv,
                           LockTypes, HoldPC, CleanupPC
<1>7. CASE EnsureSlot(m)
  BY <1>7, HolderMoves DEF EnsureSlot, At, Go, Moves, sessVars, turnVars, cleanVars,
                           LockInv, LockTypes, HoldPC, CleanupPC
<1>8. QED
  BY <1>1, <1>2, <1>3, <1>4, <1>5, <1>6, <1>7 DEF HandleMessage

LEMMA StartTurnLock ==
  ASSUME LockInv, NEW m \in Msg, StartTurn(m)  PROVE LockInv'
<1>. m \in Runner
  BY RunnerKinds
<1>. USE DEF At, Go, Moves, sessVars, turnVars, cleanVars, LockInv, LockTypes, HoldPC,
             CleanupPC
<1>1. CASE Abandon(m)
  BY <1>1, HolderMoves DEF Abandon
<1>2. CASE Reuse(m)
  BY <1>2, HolderMoves DEF Reuse
<1>3. CASE StartAgent(m)
  BY <1>3, HolderMoves DEF StartAgent, Install
<1>4. CASE StartFails(m)
  BY <1>4, HolderMoves DEF StartFails, Install
<1>5. CASE Ready(m)
  BY <1>5, HolderMoves DEF Ready
<1>6. QED
  BY <1>1, <1>2, <1>3, <1>4, <1>5 DEF StartTurn

LEMMA RunTurnLock ==
  ASSUME ~AutoCompress, LockInv, NEW r \in Runner, RunTurn(r)  PROVE LockInv'
<1>. USE DEF At, Go, Moves, sessVars, turnVars, cleanVars, LockInv, LockTypes,
             HoldPC, CleanupPC
<1>0. CASE NilCall(r)
  BY <1>0, PanicKeepsLocks, NothingMoves
<1>1. CASE Dispatch(r)
  BY <1>0, <1>1, HolderMoves DEF Dispatch
<1>2. CASE SendReturns(r)
  BY <1>0, <1>2, NothingMoves DEF SendReturns, lockVars
<1>3. CASE SendFails(r)
  <2>1. CASE Usable(mine[r])
    BY <1>3, <2>1, HolderMoves DEF SendFails, NoCleanup
  <2>2. CASE ~Usable(mine[r])
    BY <1>3, <2>2, CleansUp DEF SendFails
  <2>3. QED BY <2>1, <2>2
<1>4. CASE SeeStop(r)
  BY <1>4, HolderMoves DEF SeeStop
<1>5. CASE ReceiveEvent(r)
  BY <1>5, HolderMoves DEF ReceiveEvent
<1>6. CASE EventText(r)
  BY <1>6, HolderMoves DEF EventText
<1>7. CASE EventPermission(r)
  BY <1>7, HolderMoves DEF EventPermission
<1>8. CASE ResultUnsent(r)
  BY <1>8, HolderMoves DEF ResultUnsent
<1>9. CASE ResultSent(r)
  BY <1>9, HolderMoves DEF ResultSent
<1>10. CASE ResultNext(r)
  BY <1>10, HolderMoves DEF ResultNext
<1>11. CASE SendNext(r)
  BY <1>0, <1>11, HolderMoves DEF SendNext
<1>12. CASE ResultLast(r)
  BY <1>12, HolderMoves DEF ResultLast
<1>13. CASE ReturnLast(r)
  BY <1>13, HolderMoves DEF ReturnLast
<1>14. CASE EventError(r)
  BY <1>14, HolderMoves DEF EventError
<1>15. CASE ChannelClosed(r)
  BY <1>15, CleansUp DEF ChannelClosed
<1>16. CASE IdleTimeout(r)
  BY <1>16, CleansUp DEF IdleTimeout
<1>17. CASE DrainEmpty(r)
  BY <1>17, Releases DEF DrainEmpty
<1>18. CASE DrainNext(r)
  BY <1>18, HolderMoves DEF DrainNext
<1>19. CASE Release(r)
  BY <1>19, Releases DEF Release
<1>20. ~ResultCompress(r)
  BY DEF ResultCompress
<1>21. QED
  BY <1>1, <1>2, <1>3, <1>4, <1>5, <1>6, <1>7, <1>8, <1>9, <1>10, <1>11, <1>12, <1>13,
     <1>14, <1>15, <1>16, <1>17, <1>18, <1>19, <1>20 DEF RunTurn

LEMMA CompressLock ==
  ASSUME LockInv, NEW r \in Runner, Compress(r)  PROVE LockInv'
<1>. USE DEF At, Go, Moves, sessVars, turnVars, cleanVars, LockInv, LockTypes, HoldPC,
             CleanupPC
<1>0. CASE NilCall(r)
  BY <1>0, PanicKeepsLocks, NothingMoves
<1>1. CASE RunCompress(r)
  <2>1. CASE UNCHANGED ret
    BY <1>0, <1>1, <2>1, HolderMoves DEF RunCompress
  <2>2. CASE Go(r, "detach") /\ ret' = [ret EXCEPT ![r] = "release"] /\ ~NilCall(r)
    <3>1. pc[r] \in HoldPC /\ Moves(r, "detach")
      BY <1>1, <2>2 DEF RunCompress
    <3>2. /\ ret' \in [Request -> {"drain", "release", "cdrop", "swap", "done"}]
          /\ \A q \in Runner \ {r} : ret'[q] = ret[q]
          /\ ret'[r] = "release"
      BY <2>2, RunnerKinds
    <3>3. QED
      BY <3>1, <3>2, HolderMoves
  <2>3. QED
    BY <1>0, <1>1, <2>1, <2>2 DEF RunCompress
<1>2. CASE CompressStopped(r)
  BY <1>2, HolderMoves DEF CompressStopped
<1>3. CASE CompressBroken(r)
  BY <1>3, CleansUp DEF CompressBroken
<1>4. CASE CompressDrop(r)
  BY <1>4, HolderMoves DEF CompressDrop
<1>5. CASE CompressEnds(r)
  BY <1>5, HolderMoves DEF CompressEnds, CompressEvent
<1>6. CASE CompressDies(r)
  BY <1>0, <1>6, HolderMoves DEF CompressDies, CompressEvent
<1>7. QED
  BY <1>1, <1>2, <1>3, <1>4, <1>5, <1>6 DEF Compress

LEMMA CleanUpLock ==
  ASSUME LockInv, NEW r \in Runner \cup NewCmd, CleanUp(r)  PROVE LockInv'
<1>1. PICK p \in {"notify", "close", "unmap", ret[r]} :
        /\ pc[r] \in CleanupPC /\ Moves(r, p) /\ UNCHANGED ret
  BY DEF CleanUp, Detach, Notify, Close, Unmap, At, Go, Moves, sessVars, turnVars,
         cleanVars, CleanupPC
<1>2. CASE r \in Runner
  <2>1. p \in HoldPC /\ pc[r] \in HoldPC
    BY <1>1, <1>2 DEF LockInv, ReturnsHolding, HoldPC, CleanupPC
  <2>2. QED
    BY <1>1, <1>2, <2>1, HolderMoves DEF LockInv, LockTypes, ReturnsHolding
<1>3. CASE r \notin Runner
  <2>1. p \in PCs /\ r \in Request
    BY <1>1, RunnerKinds DEF LockInv, LockTypes, PCs
  <2>2. QED
    BY <1>1, <1>3, <2>1, OtherMoves DEF Moves, LockInv, LockTypes
<1>4. QED
  BY <1>2, <1>3

LEMMA CommandLock ==
  ASSUME LockInv, NEW c \in CompressCmd, CmdCompress(c) \/ CompressTryLock(c)
  PROVE  LockInv'
<1>. c \in Runner /\ c \in Request
  BY RunnerKinds
<1>1. CASE CmdCompress(c)
  <2>1. PICK p \in {"ctry", "done"} :
          /\ pc[c] = "idle" /\ pc' = [pc EXCEPT ![c] = p]
          /\ p = "ctry" => sess' = [sess EXCEPT ![c] = active]
          /\ p = "done" => sess' = sess
          /\ UNCHANGED <<active, busy, depth, ret>>
    BY <1>1 DEF CmdCompress, At, Go, sessVars, cleanVars
  <2>2. /\ sess' \in [Request -> Session \cup {None}]
        /\ p = "done" \/ sess'[c] \in Session
        /\ \A q \in Runner \ {c} : sess'[q] = sess[q]
    BY <2>1, RunnerKinds DEF LockInv, LockTypes
  <2>3. p \in PCs /\ p \notin HoldPC /\ pc[c] \notin HoldPC
    BY <2>1 DEF HoldPC, PCs
  <2>4. QED
    BY <2>1, <2>2, <2>3, OtherMoves DEF LockInv, LockTypes
<1>2. CASE CompressTryLock(c)
  <2>1. CASE busy[sess[c]]
    BY <1>2, <2>1, OtherMoves DEF CompressTryLock, At, Go, turnVars, cleanVars, LockInv,
                                  LockTypes, HasSession, HoldPC, PCs
  <2>2. CASE ~busy[sess[c]]
    BY <1>2, <2>2, Acquires DEF CompressTryLock, At, Go, turnVars, cleanVars, HoldPC,
                                CleanupPC
  <2>3. QED BY <2>1, <2>2
<1>3. QED
  BY <1>1, <1>2

\* A permission answer or a /stop may move the turn it wakes, and moves itself.
LEMMA WakesLock ==
  ASSUME LockInv, NEW c \in Request \ Runner, NEW p \in PCs, NEW g,
         pc' = [Woken(g) EXCEPT ![c] = p], UNCHANGED <<active, busy, sess, depth, ret>>
  PROVE  LockInv'
<1>1. CASE Woken(g) = pc
  BY <1>1, OtherMoves DEF LockInv, LockTypes
<1>2. CASE Woken(g) # pc
  <2>1. /\ pc[g[1]] = "perm" /\ Woken(g) = [pc EXCEPT ![g[1]] = "events"]
    BY <1>2 DEF Woken
  <2>2. \A q \in Runner : \/ pc'[q] = pc[q]
                          \/ pc[q] = "perm" /\ pc'[q] = "events"
    BY <2>1, RunnerKinds DEF LockInv, LockTypes
  <2>3. LockTypes'
    BY <2>1, RunnerKinds DEF LockInv, LockTypes, PCs
  <2>4. HasSession' /\ ReturnsHolding' /\ NotNested'
    BY <2>2 DEF LockInv, HasSession, ReturnsHolding, NotNested, CleanupPC
  <2>5. \A q \in Runner : Holds(q)' <=> Holds(q)
    BY <2>2 DEF Holds, HoldPC
  <2>6. TurnExclusion' /\ LockHeld'
    BY <2>5 DEF LockInv, TurnExclusion, LockHeld
  <2>7. QED
    BY <2>3, <2>4, <2>6 DEF LockInv
<1>3. QED
  BY <1>1, <1>2

LEMMA StopLock ==
  ASSUME LockInv, NEW c \in StopCmd,
         CmdStop(c) \/ StopResolve(c) \/ StopDrop(c) \/ StopClose(c)
  PROVE  LockInv'
<1>. c \in Request \ Runner
  BY RunnerKinds
<1>1. CASE StopResolve(c)
  BY <1>1, WakesLock DEF StopResolve, sessVars, turnVars, cleanVars, PCs
<1>2. CASE CmdStop(c) \/ StopDrop(c) \/ StopClose(c)
  <2>1. PICK p \in {"resolve", "kill", "done"} :
          pc' = [pc EXCEPT ![c] = p] /\ UNCHANGED <<active, busy, sess, depth, ret>>
    BY <1>2 DEF CmdStop, StopDrop, StopClose, Go, sessVars, turnVars, cleanVars
  <2>2. QED
    BY <2>1, OtherMoves DEF LockInv, LockTypes, PCs
<1>3. QED
  BY <1>1, <1>2

LEMMA NewLock ==
  ASSUME LockInv, NEW c \in NewCmd, CmdNew(c) \/ NewSession(c)  PROVE LockInv'
<1>. c \in Request \ Runner /\ c \in Session
  BY RunnerKinds DEF Session
<1>1. CASE CmdNew(c)
  <2>1. /\ pc' = [pc EXCEPT ![c] = "detach"] /\ ret' = [ret EXCEPT ![c] = "swap"]
        /\ UNCHANGED <<active, busy, sess, depth>>
    BY <1>1 DEF CmdNew, Go, sessVars, turnVars
  <2>2. /\ ret' \in [Request -> {"drain", "release", "cdrop", "swap", "done"}]
        /\ \A q \in Runner : ret'[q] = ret[q]
    BY <2>1, RunnerKinds DEF LockInv, LockTypes
  <2>3. QED
    BY <2>1, <2>2, OtherMoves, ZenonT(60) DEF LockInv, LockTypes, PCs
<1>2. CASE NewSession(c)
  BY <1>2, OtherMoves, ZenonT(60) DEF NewSession, At, Go, turnVars, cleanVars, LockInv, LockTypes, PCs
<1>3. QED
  BY <1>1, <1>2

LEMMA AnswerLock ==
  ASSUME LockInv, NEW c \in Answer, AnswerRead(c) \/ AnswerResolve(c)  PROVE LockInv'
<1>. c \in Request \ Runner
  BY RunnerKinds
<1>1. CASE AnswerRead(c)
  BY <1>1, OtherMoves DEF AnswerRead, Go, sessVars, cleanVars, LockInv, LockTypes, PCs
<1>2. CASE AnswerResolve(c)
  BY <1>2, WakesLock DEF AnswerResolve, sessVars, turnVars, cleanVars, PCs
<1>3. QED
  BY <1>1, <1>2

LEMMA AgentLock ==
  ASSUME LockInv,
         (\E a \in Agent : AgentDies(a) \/ AgentCloses(a)) \/ Cancel \/ Sweep
           \/ \E q \in State : LateSend(q)
  PROVE  LockInv'
  BY NothingMoves DEF AgentDies, AgentCloses, Cancel, Sweep, LateSend, lockVars, sessVars,
                      turnVars, cleanVars

-----------------------------------------------------------------------------
LEMMA InitLock == Init => LockInv
  BY RunnerKinds DEF Init, LockInv, LockTypes, HasSession, ReturnsHolding, NotNested,
               TurnExclusion, LockHeld, Holds, HoldPC, CleanupPC, PCs, Session

LEMMA NextLock == ASSUME ~AutoCompress, LockInv, [Next]_vars PROVE LockInv'
<1>1. CASE UNCHANGED vars
  BY <1>1, NothingMoves DEF vars, lockVars, sessVars, turnVars, cleanVars
<1>2. CASE Next
  BY <1>2, HandleMessageLock, StartTurnLock, RunTurnLock, CompressLock, CleanUpLock,
     CommandLock, StopLock, NewLock, AnswerLock, AgentLock DEF Next
<1>3. QED
  BY <1>1, <1>2

\* Without auto_compress no two goroutines ever work on the same Session: the
\* queue, the second TryLock, the orphan drain, /compress, /stop, /new and every
\* error path hand the lock on or give it back exactly once.
THEOREM Exclusion == ASSUME ~AutoCompress PROVE Spec => []TurnExclusion
<1>1. LockInv /\ [Next]_vars => LockInv'
  BY NextLock
<1>2. LockInv => TurnExclusion
  BY DEF LockInv
<1>3. QED
  BY <1>1, <1>2, InitLock, PTL DEF Spec

\* Without auto_compress Session.busy is set exactly while a goroutine will clear
\* it, so a Session is never left locked by a path that returned.
THEOREM BusyIsHeld == ASSUME ~AutoCompress PROVE Spec => []LockHeld
<1>1. LockInv /\ [Next]_vars => LockInv'
  BY NextLock
<1>2. LockInv => LockHeld
  BY DEF LockInv
<1>3. QED
  BY <1>1, <1>2, InitLock, PTL DEF Spec
=============================================================================
