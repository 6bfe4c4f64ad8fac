------------------------------ MODULE CliSinks ------------------------------
(***************************************************************************)
(* A local CLI that follows a chat: the sinks of one interactiveState, of  *)
(* core/cli_bridge.go, the handler in core/api.go that streams them, and   *)
(* the places in core/engine.go that take them off the state.              *)
(*                                                                         *)
(* A sink is a channel.  The state's map of sinks is under state.mu, but a *)
(* channel is sent to and closed outside of it: by the event loop and      *)
(* other emitters, by the handler that attached it, and by whoever tears   *)
(* the state down.  A second close and a send on a closed channel panic.   *)
(***************************************************************************)
EXTENDS Naturals, FiniteSets

CONSTANTS
  CliClients,   \* attached clients, each with its handler and its channel
  Emitters,     \* goroutines that emit frames
  Closers,      \* goroutines that tear the state down
  SinkCap,      \* capacity of a channel (32)
  EmitMax       \* bound: frames emitted

ASSUME CliBounds == SinkCap \in Nat \ {0} /\ EmitMax \in Nat

VARIABLES
  cliState,   \* "live", "closing" (agentSession is nil), "gone" from the map
  sinks,      \* state.cliSinks
  cliAt,      \* per client: where AttachCLI and the handler are
  frames,     \* per client: frames in the channel
  closes,     \* per client: how often its channel was closed
  taken,      \* per closer: the sinks it has captured and not closed yet
  emitAt,     \* per emitter: where it is
  targets,    \* per emitter: the sinks it has collected and not sent to yet
  emitted,    \* frames emitted so far
  panicked    \* a panic outside the HTTP handlers has ended the process

CliVars == <<cliState, sinks, cliAt, frames, closes, taken, emitAt, targets, emitted,
             panicked>>

CliInit ==
  /\ cliState = "live" /\ sinks = {}
  /\ cliAt = [c \in CliClients |-> "new"]
  /\ frames = [c \in CliClients |-> 0] /\ closes = [c \in CliClients |-> 0]
  /\ taken = [g \in Closers |-> {}]
  /\ emitAt = [e \in Emitters |-> "idle"] /\ targets = [e \in Emitters |-> {}]
  /\ emitted = 0
  /\ panicked = FALSE

-----------------------------------------------------------------------------
(* AttachCLI and handleCLIBridgeAttach *)

CliGo(c, from, to) == cliAt[c] = from /\ cliAt' = [cliAt EXCEPT ![c] = to]

\* resolveCLILiveState
CliResolve(c) ==
  /\ CliGo(c, "new", IF cliState = "live" THEN "resolved" ELSE "done")
  /\ UNCHANGED <<cliState, sinks, frames, closes, taken, emitAt, targets, emitted,
                 panicked>>

\* The sink is registered, on a state that may have been torn down meanwhile.
CliRegister(c) ==
  /\ CliGo(c, "resolved", "registered")
  /\ sinks' = sinks \cup {c}
  /\ UNCHANGED <<cliState, frames, closes, taken, emitAt, targets, emitted, panicked>>

\* The ready frame.  This send waits for room.  If the channel is closed it panics,
\* which ends the handler and not the process.
CliReady(c) ==
  /\ \/ /\ closes[c] = 0 /\ frames[c] < SinkCap
        /\ CliGo(c, "registered", "attached")
        /\ frames' = [frames EXCEPT ![c] = @ + 1]
     \/ /\ closes[c] > 0
        /\ CliGo(c, "registered", "done")
        /\ UNCHANGED frames
  /\ UNCHANGED <<cliState, sinks, closes, taken, emitAt, targets, emitted, panicked>>

\* The handler writes the next frame to the client; the client has hung up; or the
\* channel is empty and closed.
CliRead(c) ==
  /\ cliAt[c] = "attached" /\ frames[c] > 0
  /\ frames' = [frames EXCEPT ![c] = @ - 1]
  /\ UNCHANGED <<cliState, sinks, cliAt, closes, taken, emitAt, targets, emitted,
                 panicked>>

CliHangUp(c) ==
  /\ CliGo(c, "attached", "detaching")
  /\ UNCHANGED <<cliState, sinks, frames, closes, taken, emitAt, targets, emitted,
                 panicked>>

CliEnd(c) ==
  /\ CliGo(c, "attached", "detaching")
  /\ frames[c] = 0 /\ closes[c] > 0
  /\ UNCHANGED <<cliState, sinks, frames, closes, taken, emitAt, targets, emitted,
                 panicked>>

\* Mutant: detach closes the channel whoever has taken it.
DetachClosesAnyway(c) ==
  /\ CliGo(c, "detaching", "closing")
  /\ sinks' = sinks \ {c}
  /\ UNCHANGED <<cliState, frames, closes, taken, emitAt, targets, emitted, panicked>>

\* detach: only the one who takes the sink off the state closes it.
CliDetach(c) ==
  /\ CliGo(c, "detaching", IF c \in sinks THEN "closing" ELSE "done")
  /\ sinks' = sinks \ {c}
  /\ UNCHANGED <<cliState, frames, closes, taken, emitAt, targets, emitted, panicked>>

CliClose(c) ==
  /\ CliGo(c, "closing", "done")
  /\ closes' = [closes EXCEPT ![c] = @ + 1]
  /\ UNCHANGED <<cliState, sinks, frames, taken, emitAt, targets, emitted, panicked>>

-----------------------------------------------------------------------------
(* Tearing the state down *)

\* Mutant: the sinks are captured only while the agent is there.
TakeDropsSinks(g) ==
  /\ taken[g] = {}
  /\ taken' = [taken EXCEPT ![g] = IF cliState = "live" THEN sinks ELSE {}]
  /\ sinks' = {}
  /\ cliState' \in IF cliState = "gone" THEN {"gone"} ELSE {"closing", "gone"}
  /\ UNCHANGED <<cliAt, frames, closes, emitAt, targets, emitted, panicked>>

\* detachCLISinks: in cleanupInteractiveState, which first takes the agent away, and in
\* /stop, the recycling or restart of an agent and Engine.Stop, which take the state
\* from the map as well
CliTake(g) ==
  /\ taken[g] = {}
  /\ taken' = [taken EXCEPT ![g] = sinks]
  /\ sinks' = {}
  /\ cliState' \in IF cliState = "gone" THEN {"gone"} ELSE {"closing", "gone"}
  /\ UNCHANGED <<cliAt, frames, closes, emitAt, targets, emitted, panicked>>

CliCloseTaken(g, c) ==
  /\ c \in taken[g]
  /\ taken' = [taken EXCEPT ![g] = @ \ {c}]
  /\ closes' = [closes EXCEPT ![c] = @ + 1]
  /\ UNCHANGED <<cliState, sinks, cliAt, frames, emitAt, targets, emitted, panicked>>

\* The map entry goes once the sinks and the agent are closed.
CliRemove(g) ==
  /\ cliState = "closing" /\ taken[g] = {}
  /\ cliState' = "gone"
  /\ UNCHANGED <<sinks, cliAt, frames, closes, taken, emitAt, targets, emitted, panicked>>

-----------------------------------------------------------------------------
(* emitCLIBridgeFrameToExpectedState *)

\* Is the state still in the map?
EmitBegin(e) ==
  /\ emitAt[e] = "idle" /\ emitted < EmitMax /\ cliState # "gone"
  /\ emitAt' = [emitAt EXCEPT ![e] = "collect"]
  /\ emitted' = emitted + 1
  /\ UNCHANGED <<cliState, sinks, cliAt, frames, closes, taken, targets, panicked>>

EmitCollect(e) ==
  /\ emitAt[e] = "collect"
  /\ emitAt' = [emitAt EXCEPT ![e] = IF sinks = {} THEN "idle" ELSE "send"]
  /\ targets' = [targets EXCEPT ![e] = sinks]
  /\ UNCHANGED <<cliState, sinks, cliAt, frames, closes, taken, emitted, panicked>>

\* Mutant: without the default case a send waits for room.
SendWaits(e, c) ==
  /\ emitAt[e] = "send" /\ c \in targets[e]
  /\ closes[c] = 0 => frames[c] < SinkCap
  /\ targets' = [targets EXCEPT ![e] = @ \ {c}]
  /\ emitAt' = [emitAt EXCEPT ![e] = IF targets[e] = {c} THEN "idle" ELSE "send"]
  /\ frames' = [frames EXCEPT ![c] = IF closes[c] = 0 THEN @ + 1 ELSE @]
  /\ panicked' = (closes[c] > 0)
  /\ UNCHANGED <<cliState, sinks, cliAt, closes, taken, emitted>>

\* A frame for a full channel is dropped; a closed channel ends the process.
EmitSend(e, c) ==
  /\ emitAt[e] = "send" /\ c \in targets[e]
  /\ targets' = [targets EXCEPT ![e] = @ \ {c}]
  /\ emitAt' = [emitAt EXCEPT ![e] = IF targets[e] = {c} THEN "idle" ELSE "send"]
  /\ frames' = [frames EXCEPT ![c] = IF closes[c] = 0 /\ @ < SinkCap THEN @ + 1 ELSE @]
  /\ panicked' = (closes[c] > 0)
  /\ UNCHANGED <<cliState, sinks, cliAt, closes, taken, emitted>>

-----------------------------------------------------------------------------

Handler(c) == CliResolve(c) \/ CliRegister(c) \/ CliReady(c) \/ CliRead(c) \/ CliEnd(c)
              \/ CliDetach(c) \/ CliClose(c)
Closing(g) == \E c \in CliClients : CliCloseTaken(g, c)
Emitting(e) == EmitCollect(e) \/ \E c \in CliClients : EmitSend(e, c)

CliNext ==
  /\ ~panicked
  /\ \/ \E c \in CliClients : Handler(c) \/ CliHangUp(c)
     \/ \E g \in Closers : CliTake(g) \/ Closing(g) \/ CliRemove(g)
     \/ \E e \in Emitters : EmitBegin(e) \/ Emitting(e)

\* Goroutines run on.  A handler that writes a frame counts on its client to read, or
\* to hang up.
CliFair ==
  /\ \A c \in CliClients : WF_CliVars(~panicked /\ Handler(c))
  /\ \A g \in Closers : WF_CliVars(~panicked /\ Closing(g))
  /\ \A e \in Emitters : WF_CliVars(~panicked /\ Emitting(e))

CliSpec == CliInit /\ [][CliNext]_CliVars /\ CliFair

-----------------------------------------------------------------------------
(* Properties *)

CliTypeOK ==
  /\ cliState \in {"live", "closing", "gone"} /\ sinks \subseteq CliClients
  /\ cliAt \in [CliClients -> {"new", "resolved", "registered", "attached", "detaching",
                               "closing", "done"}]
  /\ frames \in [CliClients -> 0 .. SinkCap] /\ closes \in [CliClients -> Nat]
  /\ taken \in [Closers -> SUBSET CliClients]
  /\ emitAt \in [Emitters -> {"idle", "collect", "send"}]
  /\ targets \in [Emitters -> SUBSET CliClients]
  /\ emitted \in 0 .. EmitMax /\ panicked \in BOOLEAN

\* However detach, /stop, cleanups and shutdown overlap, a sink is closed once, and
\* the state never holds one that is closed: whoever takes a sink off the state under
\* its lock, and nobody else, closes it.  (An emitter that collected the sink before
\* may still send to it: that panic is in the model and is not excluded here.)
SinkClosedOnce ==
  \A c \in CliClients : closes[c] <= 1 /\ (c \in sinks => closes[c] = 0)

\* A client whose sink was taken off the state gets to the end of its stream, so that
\* it does not wait for a chat that is gone.  (A sink that is registered after the
\* last teardown stays on the dead state until the client hangs up.)
StreamEnds == \A c \in CliClients :
  []<>(cliAt[c] # "attached" \/ c \in sinks \/ panicked)

\* No emitter waits for a client: a slow CLI, or one that is just attaching, cannot
\* stall the chat's event loop.
EmitterFree == \A e \in Emitters : []<>(emitAt[e] = "idle" \/ panicked)
=============================================================================
