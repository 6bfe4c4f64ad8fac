----------------------------- MODULE Heartbeat -----------------------------
(***************************************************************************)
(* The HeartbeatScheduler of core/heartbeat.go.                            *)
(*                                                                         *)
(* Every project has a ticker, a goroutine that waits for it and a paused  *)
(* flag.  hs.mu protects the flags, the intervals and the file they are    *)
(* kept in, but not the way from a tick to the beat.  The file is not      *)
(* replaced by a rename: a write that fails may leave it empty.            *)
(*                                                                         *)
(* What a beat does is a turn of InteractiveTurns; here it may be skipped  *)
(* because the Session is busy, end, or time out.  TriggerNow, a beat      *)
(* without a tick, touches nothing here; the counters are left out.        *)
(***************************************************************************)
EXTENDS Naturals, FiniteSets

CONSTANTS
  Projects,     \* projects with a heartbeat
  BeatsMax,     \* bound: late beats that are counted
  HbRestartsMax \* bound: restarts

ASSUME BeatBounds == BeatsMax \in Nat /\ HbRestartsMax \in Nat

VARIABLES
  paused,      \* per project: entry.paused
  changed,     \* per project: the interval differs from the configured one
  ticking,     \* per project: the ticker runs
  beatAt,      \* per project: where the goroutine run is
  hbFile,      \* heartbeat_state.json: per project, what it says; absent is {}
  hbFailed,    \* the last write failed (history)
  lateBeats,   \* per project: beats by the ticker since it was paused (history)
  hbRestarts   \* restarts so far

HbVars == <<paused, changed, ticking, beatAt, hbFile, hbFailed, lateBeats, hbRestarts>>

\* What the file says of a project; nothing if there is nothing to override.
Saved(p, c) == IF p \/ c THEN {[paused |-> p, changed |-> c]} ELSE {}

HbInit ==
  /\ paused = [p \in Projects |-> FALSE] /\ changed = [p \in Projects |-> FALSE]
  /\ ticking = [p \in Projects |-> TRUE]
  /\ beatAt = [p \in Projects |-> "wait"]
  /\ hbFile = [p \in Projects |-> {}] /\ hbFailed = FALSE
  /\ lateBeats = [p \in Projects |-> 0]
  /\ hbRestarts = 0

\* Mutant: a project is saved only if it is paused.
PersistPaused ==
  \/ /\ hbFile' = [p \in Projects |-> IF paused'[p] THEN Saved(TRUE, changed'[p]) ELSE {}]
     /\ hbFailed' = FALSE
  \/ hbFile' \in {hbFile, [p \in Projects |-> {}]} /\ hbFailed' = TRUE

\* persistLocked
Persist ==
  \/ hbFile' = [p \in Projects |-> Saved(paused'[p], changed'[p])] /\ hbFailed' = FALSE
  \/ hbFile' \in {hbFile, [p \in Projects |-> {}]} /\ hbFailed' = TRUE

-----------------------------------------------------------------------------
(* Commands, from chats and from the management API *)

Pause(p) ==
  /\ ~paused[p]
  /\ paused' = [paused EXCEPT ![p] = TRUE]
  /\ ticking' = [ticking EXCEPT ![p] = FALSE]
  /\ lateBeats' = [lateBeats EXCEPT ![p] = 0]
  /\ UNCHANGED <<changed, beatAt, hbRestarts>>
  /\ Persist

\* Mutant: Resume leaves the ticker as Pause left it.
ResumeSilent(p) ==
  /\ paused[p]
  /\ paused' = [paused EXCEPT ![p] = FALSE]
  /\ UNCHANGED <<changed, ticking, beatAt, lateBeats, hbRestarts>>
  /\ Persist

Resume(p) ==
  /\ paused[p]
  /\ paused' = [paused EXCEPT ![p] = FALSE]
  /\ ticking' = [ticking EXCEPT ![p] = TRUE]
  /\ UNCHANGED <<changed, beatAt, lateBeats, hbRestarts>>
  /\ Persist

\* The ticker is reset unless the heartbeat is paused.
SetInterval(p) ==
  /\ \E c \in BOOLEAN : changed' = [changed EXCEPT ![p] = c]
  /\ ticking' = [ticking EXCEPT ![p] = @ \/ ~paused[p]]
  /\ UNCHANGED <<paused, beatAt, lateBeats, hbRestarts>>
  /\ Persist

\* The process ends anywhere.  Register restores what the file says, Start starts all
\* tickers, those of paused projects too.
HbRestart ==
  /\ hbRestarts < HbRestartsMax /\ hbRestarts' = hbRestarts + 1
  /\ paused' = [p \in Projects |-> \E s \in hbFile[p] : s.paused]
  /\ changed' = [p \in Projects |-> \E s \in hbFile[p] : s.changed]
  /\ ticking' = [p \in Projects |-> TRUE]
  /\ beatAt' = [p \in Projects |-> "wait"]
  /\ lateBeats' = [p \in Projects |-> 0]
  /\ UNCHANGED <<hbFile, hbFailed>>

-----------------------------------------------------------------------------
(* run and execute *)

BeatGo(p, from, to) == beatAt[p] = from /\ beatAt' = [beatAt EXCEPT ![p] = to]
hbTables == <<paused, changed, ticking, hbFile, hbFailed, hbRestarts>>

HbTick(p) ==
  /\ ticking[p]
  /\ BeatGo(p, "wait", "tick")
  /\ UNCHANGED <<hbTables, lateBeats>>

\* Mutant: a paused heartbeat relies on its stopped ticker.
PausedUnread(p) ==
  /\ BeatGo(p, "tick", "execute")
  /\ UNCHANGED <<hbTables, lateBeats>>

\* The flag is read under hs.mu, which is released before the beat.
HbPaused(p) ==
  /\ BeatGo(p, "tick", IF paused[p] THEN "wait" ELSE "execute")
  /\ UNCHANGED <<hbTables, lateBeats>>

\* execute: the beat begins, or is skipped because the Session is busy.
Execute(p) ==
  /\ BeatGo(p, "execute", "beat") \/ BeatGo(p, "execute", "wait")
  /\ lateBeats' = [lateBeats EXCEPT ![p] = IF paused[p] /\ @ < BeatsMax THEN @ + 1
                                           ELSE @]
  /\ UNCHANGED hbTables

\* The turn is over, or run waits no longer for it.
BeatDone(p) ==
  /\ BeatGo(p, "beat", "wait")
  /\ UNCHANGED <<hbTables, lateBeats>>

RunStep(p) == HbTick(p) \/ HbPaused(p) \/ Execute(p) \/ BeatDone(p)

HbNext ==
  \/ \E p \in Projects : Pause(p) \/ Resume(p) \/ SetInterval(p) \/ RunStep(p)
  \/ HbRestart

\* Tickers tick, goroutines run on, and a beat ends or times out.
HbFair == \A p \in Projects : WF_HbVars(RunStep(p))

HbSpec == HbInit /\ [][HbNext]_HbVars /\ HbFair

-----------------------------------------------------------------------------
(* Properties *)

HbTypeOK ==
  /\ {paused, changed, ticking} \subseteq [Projects -> BOOLEAN]
  /\ beatAt \in [Projects -> {"wait", "tick", "execute", "beat"}]
  /\ hbFile \in [Projects -> SUBSET [paused : BOOLEAN, changed : BOOLEAN]]
  /\ hbFailed \in BOOLEAN
  /\ lateBeats \in [Projects -> 0 .. BeatsMax] /\ hbRestarts \in 0 .. HbRestartsMax

\* A paused heartbeat beats at most once more by its ticker, the beat whose tick was
\* checked before the pause; also after a restart, which starts the ticker of a project
\* that is paused, and after a change of its interval.
LateBeats == \A p \in Projects : paused[p] => lateBeats[p] <= 1

\* Pauses and changed intervals of all projects survive a restart, unless the last
\* write of the file failed: writing one project's does not lose another's.
OverridesSurvive ==
  [][hbRestarts' # hbRestarts /\ ~hbFailed
       => paused' = paused /\ changed' = changed]_HbVars

\* A heartbeat that is not paused goes on, whatever was paused, resumed, changed and
\* timed out before.
HeartGoesOn == \A p \in Projects : []<>(paused[p] \/ beatAt[p] = "execute")
=============================================================================
