----------------------------- MODULE MCServices -----------------------------
(***************************************************************************)
(* Small instances of the services around the turn engine.  They share no  *)
(* state that their models keep, so a behaviour is one of one of them:     *)
(* part, chosen among Parts, says which.                                   *)
(***************************************************************************)
EXTENDS CronScheduler, SessionStore, WorkspacePool, Heartbeat,
        TerminalTurns, CliSinks, Relay

CONSTANT Parts

VARIABLE part

Init ==
  /\ part \in Parts
  /\ CronInit /\ SmInit /\ WsInit /\ HbInit /\ TermInit /\ CliInit /\ RelayInit

OthersStay ==
  /\ part # "cron"       => UNCHANGED CronVars
  /\ part # "sessions"   => UNCHANGED SmVars
  /\ part # "workspaces" => UNCHANGED WsVars
  /\ part # "heartbeat"  => UNCHANGED HbVars
  /\ part # "terminal"   => UNCHANGED TermVars
  /\ part # "sinks"      => UNCHANGED CliVars
  /\ part # "relay"      => UNCHANGED RelayVars

Next ==
  /\ \/ part = "cron" /\ CronNext
     \/ part = "sessions" /\ SmNext
     \/ part = "workspaces" /\ WsNext
     \/ part = "heartbeat" /\ HbNext
     \/ part = "terminal" /\ TermNext
     \/ part = "sinks" /\ CliNext
     \/ part = "relay" /\ RelayNext
  /\ OthersStay
  /\ UNCHANGED part

vars == <<part, CronVars, SmVars, WsVars, HbVars, TermVars, CliVars, RelayVars>>

\* The fairness of the part that runs: WsFair, HbFair, TermFair, CliFair, RelayFair.
Fair ==
  /\ WF_WsVars(part = "workspaces" /\ \E m \in Messages : WsStep(m))
  /\ WF_WsVars(part = "workspaces" /\ \E st \in States : WsAge(st))
  /\ WF_WsVars(part = "workspaces" /\ ReapIdle)
  /\ \A p \in Projects : WF_HbVars(part = "heartbeat" /\ RunStep(p))
  /\ WF_TermVars(part = "terminal" /\ OutStep)
  /\ WF_TermVars(part = "terminal" /\ FinalStep)
  /\ \A c \in CliClients : WF_CliVars(part = "sinks" /\ ~panicked /\ Handler(c))
  /\ \A g \in Closers : WF_CliVars(part = "sinks" /\ ~panicked /\ Closing(g))
  /\ \A e \in Emitters : WF_CliVars(part = "sinks" /\ ~panicked /\ Emitting(e))
  /\ \A c \in RelayCalls : /\ WF_RelayVars(part = "relay" /\ RelayStep(c))
                           /\ WF_RelayVars(part = "relay" /\ DrainEnd(c))
                           /\ WF_RelayVars(part = "relay" /\ RelayLate(c))

Spec == Init /\ [][Next]_vars /\ Fair

\* Each component's variables keep their types.
ServicesTypeOK ==
  /\ CronTypeOK /\ SmTypeOK /\ WsTypeOK /\ HbTypeOK /\ TermTypeOK /\ CliTypeOK
  /\ RelayTypeOK

\* HeartGoesOn, where heartbeats run.
HeartbeatLives == \A p \in Projects :
  []<>(part # "heartbeat" \/ paused[p] \/ beatAt[p] = "execute")
=============================================================================
