------------------------------- MODULE Relay -------------------------------
(***************************************************************************)
(* Bot-to-bot relay: HandleRelay and drainRelaySession of core/engine.go,  *)
(* called by RelayManager.Send of core/relay.go.                           *)
(*                                                                         *)
(* The calls from one bot to another in one chat share a Session, of which *)
(* only the conversation id matters here, and they do not lock it.  Each   *)
(* call runs an agent process of its own.  When the relay timeout has      *)
(* passed, the call answers with what it has, and a goroutine drains the   *)
(* agent.  A call is one that has passed the check of the bindings.        *)
(***************************************************************************)
EXTENDS Naturals, Sequences, FiniteSets

CONSTANTS
  RelayCalls,   \* relay calls, each with the goroutine that handles it
  RelayEvents   \* bound: events of an agent before its result

ASSUME RelayBounds == IsFiniteSet(RelayCalls) /\ RelayEvents \in Nat

VARIABLES
  relayId,      \* the Session's AgentSessionID, 0 for none
  rAt,          \* per call: where HandleRelay, or its drain, is
  conv,         \* per call: the conversation id of its agent
  rEvents,      \* per call: the events its agent has put into the channel
  rCount,       \* per call: how many there were
  agentAt,      \* per call: its agent, an external process
  rCloses,      \* per call: calls of the agent's Close
  late,         \* per call: the relay context has expired
  overlap       \* two calls, drains included, had an agent at once (history)

RelayVars == <<relayId, rAt, conv, rEvents, rCount, agentAt, rCloses, late,
               overlap>>

Convs == 1 .. Cardinality(RelayCalls)

RelayInit ==
  /\ relayId = 0
  /\ rAt = [c \in RelayCalls |-> "new"] /\ conv = [c \in RelayCalls |-> 0]
  /\ rEvents = [c \in RelayCalls |-> <<>>] /\ rCount = [c \in RelayCalls |-> 0]
  /\ agentAt = [c \in RelayCalls |-> "none"] /\ rCloses = [c \in RelayCalls |-> 0]
  /\ late = [c \in RelayCalls |-> FALSE]
  /\ overlap = FALSE

RelayGo(c, to) == rAt' = [rAt EXCEPT ![c] = to]
Running        == {c \in RelayCalls : rAt[c] \in {"read", "retry", "open", "wait", "drain"}}
Fresh          == CHOOSE i \in Convs : \A c \in RelayCalls : conv[c] # i

\* Close kills the agent, or finds it dead.
RelayClose(c) ==
  /\ rCloses' = [rCloses EXCEPT ![c] = @ + 1]
  /\ agentAt' = [agentAt EXCEPT ![c] = "closed"]

\* CompareAndSetAgentSessionID keeps an id that is there, SetAgentSessionID does not.
\* An agent, or an event, may not know the id yet.
CasId(c) == relayId' \in IF relayId = 0 THEN {0, conv[c]} ELSE {relayId}
SetRelayId(c) == relayId' \in {relayId, conv[c]}

-----------------------------------------------------------------------------
(* HandleRelay *)

\* Mutant: the call does not resume the conversation.
ReadNothing(c) ==
  /\ rAt[c] = "new"
  /\ RelayGo(c, "read")
  /\ overlap' = (overlap \/ Running # {})
  /\ UNCHANGED <<relayId, conv, rEvents, rCount, agentAt, rCloses, late>>

\* The id of the conversation to resume is read ...
RelayRead(c) ==
  /\ rAt[c] = "new"
  /\ RelayGo(c, "read")
  /\ conv' = [conv EXCEPT ![c] = relayId]
  /\ overlap' = (overlap \/ Running # {})
  /\ UNCHANGED <<relayId, rEvents, rCount, agentAt, rCloses, late>>

\* ... and an agent started with it, which takes long.  When that fails and the Session
\* has an id, the id is cleared for a second attempt.
RelayStart(c) ==
  /\ rAt[c] = "read"
  /\ \/ /\ RelayGo(c, "open")
        /\ agentAt' = [agentAt EXCEPT ![c] = "working"]
        /\ conv' = [conv EXCEPT ![c] = IF @ = 0 THEN Fresh ELSE @]
        /\ UNCHANGED relayId
     \/ /\ RelayGo(c, IF relayId = 0 THEN "done" ELSE "retry")
        /\ relayId' = 0
        /\ UNCHANGED <<conv, agentAt>>
  /\ UNCHANGED <<rEvents, rCount, rCloses, late, overlap>>

RelayRetry(c) ==
  /\ rAt[c] = "retry"
  /\ \/ /\ RelayGo(c, "open")
        /\ agentAt' = [agentAt EXCEPT ![c] = "working"]
        /\ conv' = [conv EXCEPT ![c] = Fresh]
     \/ /\ RelayGo(c, "done")
        /\ UNCHANGED <<conv, agentAt>>
  /\ UNCHANGED <<relayId, rEvents, rCount, rCloses, late, overlap>>

\* The agent's id is recorded, then the message is sent; a failed Send closes the agent.
RelaySend(c) ==
  /\ rAt[c] = "open"
  /\ CasId(c)
  /\ \/ RelayGo(c, "wait") /\ UNCHANGED <<agentAt, rCloses>>
     \/ RelayGo(c, "done") /\ RelayClose(c)
  /\ UNCHANGED <<conv, rEvents, rCount, late, overlap>>

\* Mutant: nobody answers a request for permission.
EventUnanswered(c) ==
  /\ rAt[c] = "wait" /\ rEvents[c] # <<>>
  /\ rEvents' = [rEvents EXCEPT ![c] = Tail(@)]
  /\ CasId(c)
  /\ IF Head(rEvents[c]) \in {"result", "error"} THEN RelayGo(c, "done") /\ RelayClose(c)
     ELSE /\ RelayGo(c, IF late[c] THEN "drain" ELSE "wait")
          /\ UNCHANGED <<agentAt, rCloses>>
  /\ UNCHANGED <<conv, rCount, late, overlap>>

\* One event.  Requests for permission are allowed; a result or an error ends the call
\* and closes the agent; after any other event the call looks at its timeout.
RelayEvent(c) ==
  LET event == Head(rEvents[c])
  IN  /\ rAt[c] = "wait" /\ rEvents[c] # <<>>
      /\ rEvents' = [rEvents EXCEPT ![c] = Tail(@)]
      /\ IF event \in {"text", "result"} THEN CasId(c) ELSE UNCHANGED relayId
      /\ IF event \in {"result", "error"} THEN RelayGo(c, "done") /\ RelayClose(c)
         ELSE /\ RelayGo(c, IF late[c] THEN "drain" ELSE "wait")
              /\ agentAt' = IF event = "ask" /\ agentAt[c] = "asking"
                            THEN [agentAt EXCEPT ![c] = "working"] ELSE agentAt
              /\ UNCHANGED rCloses
      /\ UNCHANGED <<conv, rCount, late, overlap>>

\* Mutant: the agent of a call is taken to be closed when its channel is.
ExitedUnclosed(c) ==
  /\ rAt[c] = "wait" /\ rEvents[c] = <<>> /\ agentAt[c] = "dead"
  /\ RelayGo(c, "done")
  /\ UNCHANGED <<relayId, conv, rEvents, rCount, agentAt, rCloses, late, overlap>>

\* The channel of events is closed.
RelayExited(c) ==
  /\ rAt[c] = "wait" /\ rEvents[c] = <<>> /\ agentAt[c] = "dead"
  /\ RelayGo(c, "done") /\ RelayClose(c)
  /\ UNCHANGED <<relayId, conv, rEvents, rCount, late, overlap>>

-----------------------------------------------------------------------------
(* drainRelaySession *)

DrainEvent(c) ==
  LET event == Head(rEvents[c])
  IN  /\ rAt[c] = "drain" /\ rEvents[c] # <<>>
      /\ rEvents' = [rEvents EXCEPT ![c] = Tail(@)]
      /\ SetRelayId(c)
      /\ IF event \in {"result", "error"} THEN RelayGo(c, "done") /\ RelayClose(c)
         ELSE /\ agentAt' = IF event = "ask" /\ agentAt[c] = "asking"
                            THEN [agentAt EXCEPT ![c] = "working"] ELSE agentAt
              /\ UNCHANGED <<rAt, rCloses>>
      /\ UNCHANGED <<conv, rCount, late, overlap>>

\* The drain ends with the channel, after ten minutes, or with the engine: at any time.
DrainEnd(c) ==
  /\ rAt[c] = "drain"
  /\ RelayGo(c, "done") /\ RelayClose(c)
  /\ UNCHANGED <<relayId, conv, rEvents, rCount, late, overlap>>

-----------------------------------------------------------------------------
(* Time and the agents *)

\* RelayManager's timeout, or the caller hangs up.
RelayLate(c) ==
  /\ rAt[c] \in {"read", "retry", "open", "wait"} /\ ~late[c]
  /\ late' = [late EXCEPT ![c] = TRUE]
  /\ UNCHANGED <<relayId, rAt, conv, rEvents, rCount, agentAt, rCloses, overlap>>

\* An agent works on the message: it puts an event into the channel, or its process
\* ends.  One that asks for permission waits for the answer, one that has ended its
\* turn waits for a message.
AgentEvent(c, event) ==
  /\ rAt[c] \in {"wait", "drain"} /\ agentAt[c] = "working"
  /\ event \in {"text", "ask"} => rCount[c] < RelayEvents
  /\ rEvents' = [rEvents EXCEPT ![c] = Append(@, event)]
  /\ rCount' = [rCount EXCEPT ![c] = @ + 1]
  /\ agentAt' = [agentAt EXCEPT ![c] = CASE event = "ask" -> "asking"
                                         [] event = "text" -> "working"
                                         [] OTHER -> "idle"]
  /\ UNCHANGED <<relayId, rAt, conv, rCloses, late, overlap>>

AgentExit(c) ==
  /\ agentAt[c] \in {"working", "asking", "idle"} /\ rAt[c] \in {"wait", "drain"}
  /\ agentAt' = [agentAt EXCEPT ![c] = "dead"]
  /\ UNCHANGED <<relayId, rAt, conv, rEvents, rCount, rCloses, late, overlap>>

RelayStep(c) == RelayStart(c) \/ RelayRetry(c) \/ RelaySend(c) \/ RelayEvent(c)
                \/ RelayExited(c) \/ DrainEvent(c)
AgentStep(c) == AgentExit(c) \/ \E event \in {"text", "ask", "result", "error"} :
                                  AgentEvent(c, event)

RelayNext ==
  \/ \E c \in RelayCalls : \/ RelayRead(c) \/ RelayStep(c) \/ DrainEnd(c)
                           \/ RelayLate(c) \/ AgentStep(c)

\* Goroutines run on and timers fire.  Nothing is assumed of the agents.
RelayFair == \A c \in RelayCalls :
  WF_RelayVars(RelayStep(c)) /\ WF_RelayVars(DrainEnd(c)) /\ WF_RelayVars(RelayLate(c))

RelaySpec == RelayInit /\ [][RelayNext]_RelayVars /\ RelayFair

-----------------------------------------------------------------------------
(* Properties *)

RelayTypeOK ==
  /\ relayId \in Convs \cup {0} /\ conv \in [RelayCalls -> Convs \cup {0}]
  /\ rAt \in [RelayCalls -> {"new", "read", "retry", "open", "wait", "drain",
                            "done"}]
  /\ \A c \in RelayCalls : Len(rEvents[c]) <= rCount[c]
  /\ rCount \in [RelayCalls -> 0 .. RelayEvents + 1]
  /\ agentAt \in [RelayCalls -> {"none", "working", "asking", "idle", "dead", "closed"}]
  /\ overlap \in BOOLEAN

\* An agent that was started for a relay is closed once: by the call, or by the drain
\* that has taken it over, and no later than they end.
RelayClosedOnce == \A c \in RelayCalls :
  rCloses[c] = IF rAt[c] = "done" /\ agentAt[c] # "none" THEN 1 ELSE 0

\* Relays of one bot to another that do not overlap keep to one conversation: the id
\* of the Session is never replaced by another, also when a drain records ids after
\* the answer; only a resume that the agent refuses clears it.  (Calls that overlap,
\* or one that comes while an earlier one is drained, may replace it.)
KeepsConversation ==
  [][relayId # 0 /\ relayId' \notin {0, relayId} => overlap]_RelayVars

\* A relay whose agent asks for permission never leaves it waiting, and one whose
\* agent has ended its turn, or died, is answered.
RelayServed == \A c \in RelayCalls :
  /\ []<>(agentAt[c] # "asking")
  /\ []<>(agentAt[c] \in {"idle", "dead"} => rAt[c] = "done")

\* config.example.toml calls the timeout the "Max relay wait": a call that is over its
\* time stops waiting for the agent.
RelayWaitBounded == \A c \in RelayCalls : []<>(rAt[c] = "wait" => ~late[c])
=============================================================================
