# cc-connect: specifications, model checking and proofs

cc-connect connects chat platforms (Telegram, Slack, Feishu, ...) to coding
agents that run as local processes (Claude Code, Codex, ...). This directory
holds TLA+ models of its core, the TLC configurations that check them on small
instances, and TLAPS proofs of what matters most. Paths below are relative to
`src/cc-connect/`; `engine.go` and `session.go` are in `core/`.

## The system

| part | source | state | operations | hard behaviour |
|---|---|---|---|---|
| turn engine | `core/engine.go`, `core/session.go` | per chat: the active `Session` with its busy flag and conversation id; the `interactiveState` in `Engine.interactiveStates` with its agent, queue, pending permission and stop flag | `handleMessage`, `processInteractiveMessageWith`, `processInteractiveEvents`, `drainPendingMessages`, `drainOrphanedQueue`, `cleanupInteractiveState`, `/stop`, `/new`, `/compress`, `Stop` | a goroutine per message, two locks per chat that are never held together for long, agents that die, hang or answer late |
| session store | `core/session.go`, `core/atomicwrite.go` | sessions, active session per user, names, on disk as one JSON file | create, switch, bind, save, load | concurrent saves, crash between an update and its save |
| cron | `core/cron.go`, `ExecuteCronJob` | jobs on disk; schedule entries in memory | add, remove, enable, update, tick | the two kept in step; a run that outlives its timeout |
| heartbeat | `core/heartbeat.go` | ticker, paused flag and counters per project | pause, resume, set interval, tick, trigger | check of an idle session before use |
| relay | `core/relay.go`, `HandleRelay` | bindings between bots; one session per pair | send with a timeout, background drain | late writes of the session id |
| workspaces | `core/workspace_state.go`, `core/workspace_binding.go` | active turns and last use per workspace | begin and end of turns, reaping | reaping against a turn that starts |
| CLI bridge | `core/cli_bridge.go` | output channels attached to an `interactiveState` | attach, emit, detach, close | send and close of a channel from different goroutines |
| stream preview | `core/streaming.go` | accumulated text, preview message, flush timer | append, flush, freeze, discard, finish | a timer that fires while the reply is finished |
| filters | `core/dedup.go`, `core/ratelimit.go`, `core/outgoing_ratelimit.go`, `core/user_roles.go` | recent ids, timestamps, tokens | allow, wait, expire | boundaries of windows |
| terminals | `core/terminal*.go`, `core/api.go` | per local terminal: the chat it is attached to, the active turn with its messages, the inputs that wait | register, attach, detach, input, output, final answers by timer | a handler takes the registry's lock many times; timers race new output |
| front ends | `core/bridge.go`, `core/management.go`, `core/api.go`, `core/webhook.go` | connections | decode a request and call the above | network I/O |
| adapters | `agent/*`, `platform/*` | one external process or SDK client each | `Send`, `Events`, `Alive`, `Close`; `Send`, `Reply` | everything outside the program |

How they meet: a platform calls `handleMessage`, which takes the `Session` lock
(`TryLock`) and starts a goroutine for the turn, or queues the message on the
`interactiveState` when the lock is taken. The turn starts or reuses an agent
process and runs its event loop; the loop feeds the stream preview, the CLI
bridge and the platform, and stores the conversation id in the session store.
Cron, heartbeat and relay start turns of their own. Commands, the workspace
reaper and `Stop` reach into the same `interactiveStates` map from outside.

What makes each part correct: one turn per Session; no queued message forgotten
or duplicated, served in order; no agent process leaked, closed twice or used
after it was taken away; a lock always given back; a permission request always
answerable (turn engine). What is on disk is what was last in memory (store).
A job has a schedule entry iff it is enabled (cron). A workspace in use is not
reaped. A channel is closed once by whoever took it off the state (CLI bridge).
A relay resumes one conversation and leaves no agent behind. A paused heartbeat
is quiet, also after a restart. A terminal's turn ends and is answered once, to
the chat it began for. The last text shown is the final one (preview).

`PROJECT.json` lists every hazard of this kind found in the code, at its line,
with the properties that watch it or the reason why none does yet.

## Modules

| module | role |
|---|---|
| `InteractiveTurns` | the turn engine of one chat: every step of every goroutine that touches its Session, its `interactiveState`s and its agents |
| `ChatLine` | what the engine promises the people in the chat: a line served in order of arrival |
| `InteractiveTurns_line` | the refinement mapping from `InteractiveTurns` to `ChatLine` |
| `MCTurns` | small instances and their symmetry |
| `InteractiveTurns_proofs` | TLAPS proofs about the Session lock |
| `InteractiveTurns_types` | TLAPS proof of the type invariant of `InteractiveTurns` |
| `InteractiveTurns_safety` | TLAPS proofs about agents, queues, news, conversations and permission requests, and of the refinement |
| `StreamPreview` | one turn's answer on its way to the chat: preview message, flush timers, segments, final reply |
| `MCPreview` | small instances of `StreamPreview` |
| `StreamPreview_proofs` | TLAPS proofs about late timers, types, the throttle and what is read in the chat |
| `CronScheduler` | scheduled jobs in the store, in `jobs.json` and in the cron library |
| `SessionStore` | the tables of the `SessionManager`, the agent session ids and the file |
| `WorkspacePool` | workspace states, their agents and counted turns, the idle reaper |
| `Heartbeat` | tickers, pauses and their file |
| `TerminalTurns` | attached terminals: turns, output sections, timers of the final answer |
| `CliSinks` | the channels of a followed chat: attach, emit, detach, teardown |
| `Relay` | calls from bot to bot and the drains behind them |
| `MCServices` | small instances of the seven above |
| `CronScheduler_proofs`, `SessionStore_proofs`, `TerminalTurns_proofs`, `Services_proofs` | TLAPS proofs about them, and of their composition in `MCServices` |

### InteractiveTurns

One chat, that is one key of `interactiveStates`. A *request* is an incoming
message or command and names the goroutine that handles it: `Msg`, `StopCmd`,
`NewCmd`, `CompressCmd` and `Answer` (to a permission prompt). Things that a
goroutine allocates are named after it, so that no counter is needed: message
`m` may create the placeholder state `<<m, "slot">>`
(`ensureInteractiveStateForQueueing`), the state `<<m, "live">>`
(`getOrCreateInteractiveStateWith`) and the agent process `m`; `/new` command
`c` creates Session `c`.

| variables | code |
|---|---|
| `active`, `busy`, `sid` | active Session of the chat, `Session.busy`, `Session.AgentSessionID` |
| `entry`, `agentOf`, `stopped`, `queue`, `pending` | the map entry; `agentSession`, `stopped`/`stopCh`, `pendingMessages`, `pending` of each state |
| `life`, `conv`, `shown` | an agent process: `Alive()` and its event channel; its conversation; whether `CurrentSessionID()` is known yet |
| `phase` | `Engine.ctx` and the progress of `Engine.Stop` |
| `pc`, `sess`, `mine`, `cur`, `on`, `sent`, `depth`, `asks`, `grip`, `tgt`, `strict`, `ret` | program counter and locals of each goroutine |
| `fate` | history: what each sender was told |
| `late` | the states with a goroutine of `Send` that its turn has left behind |
| `panicked` | a nil `agentSession` was called |

A step is what a goroutine does under one lock (`interactiveMu`, `state.mu` or
`Session.mu`), or between two waits. Sections of code that hold no lock and only
read what they have read before are part of the step they follow.
`interactiveMu` is held across `StartSession`, so starting an agent is one step;
`closeAgentSessionWithTimeout` in a cleanup runs without it, so a cleanup is
four steps (`Detach`, `Notify`, `Close`, `Unmap`) that others may interleave
with. The event loop is split where it matters: `ReceiveEvent` ends with the
`isStopped` check (line 2909), the handler of the event is a later step, and
the end of a turn (`ResultSent`) is separated from the look at the queue
(`ResultNext`, `ResultLast`) and from the next `Send` (`SendNext`).
The goroutine of `go Send` evaluates `state.agentSession` whenever it is scheduled.
While its turn lasts that is `SendReturns`; when the turn leaves the event loop
without waiting for it (stop, error, closed channel, idle timeout, a reply that
fails), `LeaveSend` puts the state into `late` and `LateSend` is the goroutine's
step, at any time after. Several goroutines left behind at one state are one
element of `late`: one that finds the agent changes nothing, so they reach no more
than the last of them does.

Data is abstracted to what the properties tell apart. An agent may at any time
emit text, a permission request (at most `MaxAsks` per goroutine), a result or,
if `Faults` says so, an error; events are not buffered, which stands for the
drain of stale events before every `Send`. `Faults` names the failures of a run:
`start` (StartSession), `death` (the process exits), `send`, `reply` (the
platform refuses the reply), `error` (EventError of a live agent), `idle` (the
event idle timeout) and `shutdown` (Engine.Stop). The closing steps of
`Engine.Stop` are one step: a state that left the map cannot be detached any
more, so nothing observes what lies between.

### ChatLine

Three variables, six actions: a turn begins, a message joins the line (if there
is room) or is refused, the turn ends, the first in line is served, or all who
wait are told that nothing will come. `InteractiveTurns_line!ServesLine`
substitutes `turn` and `told` by what the senders have heard (`fate`), and `line`
by the queue of whichever state has messages. A step of the engine may move that
queue to another state, but it must not reorder it, take from its middle, or end
a message in it without telling its sender: none of these is a step of `ChatLine`.

### StreamPreview

`InteractiveTurns` abstracts a turn's answer to "a result, delivered or not".
`StreamPreview` opens that up for one turn: `EventText`, thinking, tool and
permission events arrive in any order and number, and the text must reach the
chat through an edited preview message, segments, a remainder or a reply.

| variables | code |
|---|---|
| `full`, `lastSent`, `edited`, `handle`, `degraded`, `timer` | fields of `streamPreview`: `fullText`, `lastSentText`, `lastSentViaUpdate`, `previewMsgID`, `degraded`, `timer` |
| `timers` | every timer ever started: armed, due (its callback waits for `sp.mu`), over |
| `pc`, `heard`, `segment`, `tools`, `live`, `from` | the event loop: its place, `len(textParts)`, `segmentStart`, `toolCount > 0`, `previewActive`, and where the reply begins (after which piece) |
| `cleaner`, `keeps`, `shows` | optional interfaces of the platform and the display settings, chosen at the start |
| `post`, `shown`, `copies` | the chat: the preview message and the pieces in it, and the messages beside it that contain a piece |
| `strays` | the chat: messages that a start left there without a handle, by piece |
| `failed`, `bare` | histories: an edit of a posted preview failed; a start returned neither a handle nor an error |

Each method of `streamPreview` holds `sp.mu` throughout, platform calls
included, and is one step; what the event loop reads between two of them
(`canPreview`, then `appendText` or `freeze`, then `detachPreview`) is kept in
`pc` and `live`, so that timers interleave there. A timer is named after the
text whose `appendText` started it, and a text is one unit: `MaxChars` counts
texts. `Display` tells the truncated text from the whole one of the same length,
because `flushLocked` compares texts. `Timer.Stop` cannot stop a callback that
has fired; such a callback is `due` and takes `sp.mu` whenever it is free.
`degraded` may be true from the start, which stands for platforms and settings
without previews. `Faults` says what preview calls may do: a start or an edit fails,
or a start returns a nil handle without an error, which `flushLocked` takes for a
text that was sent. Either start may have shown its text. Deleting a message and
sending one beside the preview are taken to succeed. The result contains the answer
after any of its first segments, or nothing; for an empty result, and when the agent
exits, the loop takes all it has heard.

### The services

Seven modules model what surrounds the turn engine. They share no state: a turn
that a cron job, a heartbeat or a relay starts is a turn of `InteractiveTurns`
(or, for a relay, an agent of its own), so each module keeps only what its own
operations can disturb. In all of them a step is what one goroutine does under
one lock; what it keeps in a local variable from one section to the next is a
variable of the model.

**CronScheduler.** `cronJobs` and `cronDisk` are `CronStore.jobs` and the file,
`cronLive` the entries of the cron library, `entries` the map from job to entry.
An operation is a path of sections (`CronPath`: `write`, `get`, `drop`,
`schedule`) that other requests interleave with; `CronWrite` is the change and
the save behind it, which may fail. `CronFire`
and `CronMarkRun` are a run of `executeJob`, `CronRestart` a crash anywhere and
the `Start` after it. `cronSpoilt` marks the jobs of which nothing is claimed:
those that two requests worked on at once, those whose operation reported an error
half-way, and those whose expression or id went past the scheduler: for a field it
does not know, `updateJobField` sets whatever string field the name spells in Go
(`"cronExpr"`, which may then not parse, and `"ID"`, which is `CronRename`). A request
that holds the job goes on under the new id, for the `*CronJob` is the same. An id
that another job has or had is not given again.

**SessionStore.** `tables` holds the sessions, their owners, the active session
of each user and the counter; `idOf` and `pastOf` are under each Session's own
lock. An operation of the manager excludes every `Save` (`Locked`); `SaveBegin`
and `SaveRename` are a snapshot under the read lock and the rename, which
several goroutines overlap in any order. `Save`s and writes may fail; `SmRestart`
loads the file.

**WorkspacePool.** A message goes from the `Touch` of `handleMessage` over the
lookups (`WsLookup`, `WsReenter`) and `getOrCreateWorkspaceAgent` to `BeginTurn`
and `EndTurn`; the reaper runs between any two of them. A message may also run turns
without being counted (`WsDrain`): it was queued and its second `TryLock` succeeded
(`drainOrphanedQueue`), or it is a /compress. `agentIn` are the directories in which
a chat has a live agent, which such a turn needs and the reaper closes. `idle` stands
for the clock: a state ages past the reaper's cutoff at any time (`WsAge`). A message
sets the clock of the directory it runs in when the channel is bound to it or when it
makes the state; chats in a directory set by /dir and cron jobs with a `work_dir` may
do neither. If the clock runs out while a message that has set it is on its way, it
is `late`, of which nothing is claimed. States and managers are numbered, and a
number nobody holds is used again.

**Heartbeat.** `Pause`, `Resume` and `SetInterval` change the flags and rewrite
the file of all projects under `hs.mu`; the write is not a rename, so one that
fails may leave the file empty. A tick (`HbTick`), the look at the flag
(`HbPaused`) and the beat (`Execute`) are separate steps.

**TerminalTurns.** One terminal and its registry. `HandleTerminalOutput` is eight
steps (`OutTarget` to `OutMark`) between which chats attach, detach, type and
change the mode, local typing preempts a turn, and timers fire. What the text of
a chunk means (start of an answer, progress, end) is a free choice, and so is what
`collect` makes of it: the block that is pending and the lines of the chunk are
emitted, kept or dropped. The code drops much: plain text that is pending at the next
bullet, lines without a bullet before them, status lines, incomplete tool headers,
anonymous results, repetitions, and such a tail when the answer is claimed
(`FlushTail`). `finals` are
the timers and their callbacks with what they have captured. `owner`, `ingested`,
`discarded`, `answered` and `moved` are histories.

**CliSinks.** One `interactiveState`. The map of sinks is under `state.mu`; sends
and closes of the channels are outside of it, so they are steps of their own. A
send on a closed channel ends the process if an emitter does it (`panicked`),
and the request if the handler does.

**Relay.** The calls from one bot to another in one chat. Each runs `HandleRelay`
with an agent of its own, over one Session of which only the id matters; a call
that is over its time leaves its agent to a drain. `overlap` says whether two of
them ever had an agent at once.

**MCServices** puts them into one specification: `part` chooses which one runs,
the others stay as they began. The services share nothing, so the product of
their states would only repeat each other's behaviours.

## Runs

Two messages suffice for every two-party race (one holds the Session, the other
queues); four messages with a queue of two let a message be refused, a queue be
served in order, and a queue be adopted while full.

| run | instance | checks |
|---|---|---|
| `turns` | 4 messages, `MaxQueue` 2, faults error, idle, send, reply | `TypeOK`, `NoLostWakeup`, refinement `ServesLine` |
| `commands` | 2 messages, one /stop, one answer, faults death, send, reply, idle, shutdown | `TurnExclusion`, `LockHeld`, `NoNilCall`, `AgentReachable`, `CloseOnce`, `PermissionHeld` |
| `fair` | 2 messages, one /stop, one /compress, weak fairness | `EveryoneTold`, `LockReleased`, `StopEnds` |
| `resets` | 2 messages, one /new, auto-compress (depth 1), faults start, death | `QueuedOnce` |
| `double_unlock` | 2 messages, auto-compress | `TurnExclusion` is violated |
| `stop_permission` | 2 messages, one /stop, one permission request, weak fairness | `StopEnds` is violated |
| `compress_nil` | 2 messages, one /compress, fault idle | `NoNilCall` is violated |
| `new_orphans` | 2 messages, one /new | `AgentReachable` is violated |
| `preview` | 4 texts, `MaxChars` 3, failing starts and edits, starts without a handle | `TypeOK`, `Delivered`, `TimerPending`, `FrozenStays` |
| `text_lost` | 3 texts, `MaxChars` 2, no failure | `Surfaced` is violated |
| `services` | two of every actor, see the bounds below | for each service, below |
| `relay_silent` | `services` with the relay alone | `RelayWaitBounded` is violated |

| service | safety | actions and liveness |
|---|---|---|
| cron | `OneEntry`, `EnabledIsScheduled` | |
| sessions | `ActiveOwned`, `FileHasTables`, `SaveBurst` | `KnownForever` |
| workspaces | `SoleManager`, `TurnPooled` | `PoolEmpties` |
| heartbeat | `LateBeats` | `OverridesSurvive`, `HeartbeatLives` |
| terminal | `FinalOnce`, `FinalToOwner` | `FinalComplete`, `TurnEnds` |
| CLI sinks | `SinkClosedOnce` | `StreamEnds`, `EmitterFree` |
| relay | `RelayClosedOnce` | `KeepsConversation`, `RelayServed` |

`ServicesTypeOK` is the type invariant of all seven.

All runs set `CHECK_DEADLOCK FALSE`: the system stops when every request has
been handled, when it has panicked, and when the turn is over. Messages are interchangeable, so the
safety runs use them as a symmetry set; the runs with liveness properties do
not.

**Bounds.** `MaxQueue` is 5 in the code and 2 here: adoption, refusal at the
limit and service in order need two places. `MaxAsks` bounds permission requests
and `MaxDepth` nested auto-compressions, both per goroutine. `MaxText` bounds
the texts of one answer: with four and a `MaxChars` of three, an answer can be
split twice, two timers can be due at once, and the limit can be reached before
and after a split. The number of interruptions has no bound.

Of the services: two requests begin two operations on two jobs (`CronOpsMax`,
`EntryMax` 3 entries), which is every pair of operations on one job or two, with
a restart between any two sections. Three changes (`SmOpsMax`) of two sessions
by two users meet two overlapping `Save`s, so that the older snapshot can be
renamed last. Two messages and the reaper over two directories give every order
of two turns in one directory and the reaping of one of them. Two projects and
one restart (`HbRestartsMax`) show that one's write keeps the other's state;
`BeatsMax` 2 tells one late beat from two. Two turns and two chunks of output
(`TermTurns`, `Chunks`) let the timer of an earlier output meet a later one and
a turn preempted by the next; `InputCap` and `ProgressMax` are 64 and 5 in the
code and 1 here, so that both limits are reached. Two clients, an emitter with
two frames and a teardown meet channels of capacity one (`SinkCap`, 32 in the
code). Two relays with one event before the result (`RelayEvents`) overlap,
follow each other, and follow each other's drains.

**Fairness.** `FairSpec` asks weak fairness of each goroutine (Go's scheduler
runs every runnable goroutine; every step is either enabled until taken or
blocked on a channel) and of the close of a dead agent's channel (each adapter
closes it when its process has exited). An agent that was sent a prompt answers
it, or the idle timeout ends the turn. Nothing is assumed of arrivals, deaths,
permission requests and answers.

Of the services, `WsFair`, `HbFair`, `TermFair`, `CliFair` and `RelayFair` ask
that goroutines run on, that tickers tick and timers fire, and nothing of chats,
clients' attachments, commands or agents. `MCServices!Fair` is their conjunction,
each for the part that runs. Liveness is stated with `[]<>` and `<>[]`.

**Assumptions of the services.** They are in the guards, and a reader should know
them: a client that follows a chat reads
its frames or hangs up (`CliFair`); `StartSession` and `Send` of an agent return
(`RelayFair`); the client of a terminal posts one chunk at a time and waits for
the answer (`TerminalTurns`).

## What the runs show

They show that the hand-over protocols of the engine work: the unlock under
`state.mu` together with the second `TryLock` after queueing
(`NoLostWakeup`, `ServesLine`), the adoption of a queue (`QueuedOnce`), taking
the agent out of a state under `interactiveMu` (`CloseOnce`), and the check of
the map entry by cleanups that name their state (`AgentReachable`).

`Delivered` says that splitting, flushing and finalising fit together: however
the events of a turn, its timers and the failures of a platform fall, every piece
of an answer that fits the preview is read, and the number of messages with it is
known. It is one, and one more in two cases that the code does produce: the reply of
a turn without tools begins before the last segment (the agent repeats a segment,
or the loop itself takes all it has heard because the result is empty or the agent
has exited), and a start that failed had shown its text. It claims nothing of longer
answers, of an edit that fails on a platform that cannot delete the message or after
a segment was kept in it, nor of a start without a handle.

The services' runs show that the two halves of a job, of a session file, of a
workspace and of a sink are kept in step by who may touch what under which lock:
one entry per job because `scheduleJob` removes what the map knows before it adds,
and that entry is right as long as nobody changes the job past `UpdateJob`;
the present tables in the file because `Save` shares the lock that operations
take alone; one manager per directory for messages that set its clock, because their
turns are counted before the state has aged; one close per sink because only the taker closes; one answer per
turn because a claim is made and marked under one lock, of an output that nothing
has followed. `FinalComplete` does not say that a text answer has all that the terminal
has shown: it has what `collect` kept, and nothing of that is missing because a timer
came too early.

Six runs show where the code does something else than its comments, messages or
tests say; `PROJECT.json` quotes the lines.

- `double_unlock`: auto-compress runs `runCompress` inside the turn, and both
  unlock the Session. After the first unlock a second turn may start on the same
  Session and state.
- `stop_permission`: a /stop that falls between the `isStopped` check and the
  store of the pending request finds nothing to resolve; the turn waits for
  `pending.Resolved` forever and its Session stays busy.
- `compress_nil`: `/compress` reads the state before it takes the lock. If the
  running turn cleans up in between, `runCompress` calls a nil interface.
- `new_orphans`: `/new` calls `cleanupInteractiveState` without the state it
  means. A message that starts an agent during the close installs a new state,
  which the second half of the cleanup deletes from the map with its agent alive.
- `text_lost`: `freeze` cuts the text before a tool call at `MaxChars` and
  detaches the message, while the event loop counts all of that text as
  surfaced. What was cut off is never sent.
- `relay_silent`: `HandleRelay` looks at its timeout only after an event; an agent
  that is silent holds the caller beyond the "Max relay wait" of the
  configuration.

More disagreements are in the models without a run of their own. Four have a
definition that states what fails; each was seen violated with the configuration
named here.

- `InteractiveTurns!NeverPanics`: when an agent exits before the goroutine of its
  `Send` is scheduled (`engine.go:2338`, 3391, 3569), the turn reports the exit and
  cleans up, which sets `agentSession` to nil (2706), and then the goroutine calls
  it (`LateSend`). The turns that end with a result wait for their `Send`; those that
  a stop, an error, an exit or a timeout ends do not. `commands.cfg` with one message
  and the fault death is enough.
- `CronScheduler!EntryCurrent`: `UpdateJob` reschedules for the field `cron_expr`
  only (`cron.go:558`), but the reflection in `updateJobField` (364-371) sets the same
  field under the name `cronExpr`, which the management API passes on. The store then
  shows one expression and the library fires by another until the next restart.
  `services.cfg` with `Parts = {"cron"}` and one `CronRequest`, so that no two overlap.
- `WorkspacePool!ReapsIdle`: `drainOrphanedQueue` and `runCompress` run turns without
  the `BeginTurn` and `EndTurn` of `processInteractiveMessageWith`
  (`engine.go:1738`, 3539-3580), while `engine_test.go:7142` fails with "idle reaper
  closed a session with an active turn". When such a turn outlasts the idle timeout,
  the reaper finds no active turn, removes the workspace state and closes the agent
  that is working. `services.cfg` with `Parts = {"workspaces"}`.
- `WorkspacePool!OneManager`: between the look-up of a workspace state and `BeginTurn`
  on it (`engine.go:2282`) the reaper may remove it, if the message has not set its
  clock: a chat in a directory set by /dir, a cron job with a work_dir. The turn then
  runs with one manager while the next message makes another for the same directory.
  The same with three messages.
- `Surfaced` fails with a start that returns neither a handle nor an error, too
  (`Faults <- NilHandle`, three texts that fit): `flushLocked` takes the text for sent
  (`streaming.go:195`), the preview stays active, and the text before an interruption
  is in no message. The adapters in the repository return an error instead; the
  interface allows both (`streaming.go:57`).
- `finish` does not mark the preview as degraded, so a timer callback that waited for
  `sp.mu` while `finish` edited the message edits a long final text back to its first
  `MaxChars`.

Some behaviour is in the models and excluded by no property, because no document
promises otherwise. `CliSinks` reaches `panicked`: an emitter that collected the
sinks before a detach sends to a channel that is closed. `CronScheduler` leaves an
enabled job without an entry after an `UpdateJob` that fails half-way, or after
two requests at once. In `TerminalTurns` a text answer whose sending outlasts the
idle delay can be claimed a second time, and an attachment that falls into an
output handler sends an answer to the chat before. Two relays at once run two
agents over one conversation, and the later id wins.

Properties are therefore claimed of the configurations where they hold: turn
exclusion without auto-compress, `AgentReachable`, `NoLostWakeup` and
`ServesLine` for chats without /new, `NoNilCall` with /compress only when no
cleanup can interfere, and of turns while they last: what a turn leaves behind
is in the model (`LateSend`) and may call a nil agent.

## Proofs

`InteractiveTurns_proofs` proves, for any sets of messages and commands, any
failures and any bounds, that

- `Exclusion`: `~AutoCompress => (Spec => []TurnExclusion)`, and
- `BusyIsHeld`: `~AutoCompress => (Spec => []LockHeld)`.

The assumption cannot be dropped: `double_unlock` is the counterexample. Neither
property is inductive. `LockInv` adds the types of the variables involved, that
a goroutine past its arrival has a Session, that a cleanup returns to a place
where the lock is still held (`ret`), and that no `runCompress` is nested
(`depth` is 0). Five lemmas say what a step can do to a lock (`HolderMoves`,
`CleansUp`, `OtherMoves`, `Acquires`, `Releases`); every action is then an
instance of one of them. The named assumptions used are `Disjoint` (the kinds of
request are different) and, through the type of `depth`, `Bounds`.

`InteractiveTurns_types` proves `Types`: `Spec => []TypeOK`, with every command
and failure and with auto-compress, that is the types and the bound of the queues;
that a process does not call a nil agent is no part of it (`compress_nil`). `TypeOK` alone is not inductive: the types let a pointer be nil, and steps dereference pointers. `IInv` is `TypeOK` with
`PointersOK`, which says for each place of a goroutine which of its Session,
state, agent and return address are set. Each action has a lemma; most follow
from `OthersStay` (a step moves one goroutine) and, for the bound on queues,
`OneQueue` and its kin. It rests on `Disjoint` and `Bounds`.

`InteractiveTurns_safety` proves the six other invariants of the engine that the
runs check, the refinement, and three properties that it states itself. Each section has an inductive invariant, a definition of what most
steps may do at most (`Frame` and `Quiet`, `Still`, `UsesAgent`, `AsksNothing`,
`TurnMove`, `Bystander`), lemmas that the actions do no more, and a lemma for each
action that does.

- `ClosedByOne`: `Spec => []CloseOnce`, with every command and failure. `CloseInv`
  adds that an agent stays with the state it was started for (`Home`), that nothing
  knows a state before it is created (`Fresh`), and that whoever is about to close an
  agent took it from the entry, where the next does not find it (`TakenOnce`).
- `QueuedAtOnePlace`: `Spec => []QueuedOnce`, with every command and failure. The
  property counts positions; `LineInv` says it without counting (`Seats`: a message
  is in a queue if and only if it is queued, and at one position) and adds what the
  sender of a message has heard by each place of its goroutine (`News`).
  `CountQueued` turns that into the cardinality.
- `ToldOnce`: `Spec => NewsOnce`, with every command and failure and with
  auto-compress, where turns may even share a Session: what a sender hears follows
  `NewsAfter`, so no message is dropped, refused or answered twice, or dropped while
  its turn runs. `NewsInv` adds to `LineInv` that a goroutine which will tell the
  outcome of a turn works on a message that has not heard one (`Untold`), and that no
  two work on the same message (`OneTurn`). Every action is a step that tells nothing
  or drops a queue (`NoNews`), one that ends a turn (`TellsAt`), or one that begins
  one (`TalkBegins`).
- `AcceptedInOrder`: `Spec => NoOvertaking`, with every command and failure: whoever
  was accepted behind a message stays behind it for as long as it waits. `QueueStep`
  lists what any step does to the queues (drop one, serve its first, add to its end,
  hand it to a state without one), and `PlacesKept` shows that these keep the order.
  It rests on `LineInv` only. `LineServed` says more, of fewer chats.
- `Reachable`: `NewCmd = {} /\ ~AutoCompress => (Spec => []AgentReachable)`.
  `ReachInv` adds that a cleanup between its two sections has left its state without
  an agent (`Detached`). `new_orphans` is the counterexample with /new; with
  auto-compress two turns may share a Session (`double_unlock`), on whose exclusion
  the proof rests.
- `NeverNil`: the same with `CompressCmd = {}` for `NoNilCall`; the counterexample is
  `compress_nil`. `NilInv` says that the turn's state has its agent (`HasAgent`),
  which a cleanup could only take while it holds the same Session. The property is
  about turns while they last, with the `Send` they wait for; the goroutine of a
  `Send` that outlives its turn may meet a nil agent (`LateSend`).
- `RequestHeld`: `NewCmd = {} /\ ~AutoCompress /\ OneAnswer => (Spec =>
  []PermissionHeld)`. `PermInv` follows a request through `pending`, the goroutine
  that has read it (`GripAsked`) and the one that has taken it (`StopTook`). A second
  answer may clear a newer request than the one it answers (see the hazards), hence
  `OneAnswer`.
- `QueuesWatched`: `NewCmd = {} /\ CompressCmd = {} /\ ~AutoCompress /\ "start"
  \notin Faults => (Spec => []NoLostWakeup)`, for any /stops, answers, dying agents
  and shutdowns: more than the run `turns` explores. `WakeInv` says where a turn and
  its cleanup stand relative to the entry (`InPlace`), that who unlocks without
  another look leaves an empty queue that takes no messages (`LeftEmpty`), that an
  entry without an agent is about to get one or to go (`Unfinished`), and that the
  entry's agent fits the Session and is never recycled (`SameTalk`). The conditions
  are where the code does lose queues: the queue of a recycled state
  (`engine.go:2518`), of a turn whose agent does not start (`:2276`), of a failed
  /compress (`:7015`; when its agent died too, for a message queued between the two
  sections of the cleanup), and of a /compress that read its state before a /stop or
  an idle timeout, and got the Session when the next turn had installed another
  state: it holds the lock but looks at the old queue.
- `InOneConversation`: under the conditions of `QueuesWatched`, `Spec =>
  []InConversation`: while the engine runs, a turn works with an agent of its
  Session's conversation from the moment the Session knows it. The code compares the
  ids once, before the turn, and agents report theirs later. `TalkInv` adds to
  `WakeInv` that the agent of a turn's state suits the Session (`Suited`), also after
  a /stop has removed the entry. The conditions are needed. After a /new, a message
  that came before it may lock the old Session and meet the agent of the new one,
  which has not reported an id yet. And when the resume of a conversation fails,
  `engine.go:2585` starts a fresh agent, but `CompareAndSetAgentSessionID` keeps the
  old id in the Session: the turn runs in a conversation that the Session does not
  know, and the next message recycles that agent.

- `LineServed`: `PlainChat => (Spec => ServesLine)`, the refinement of `ChatLine`.
  `PlainChat` is a chat without /stop, /new and compressions in which agents start
  and the engine is not shut down; answers to permission requests and every other
  failure are allowed, among them the death of an agent, which `turns` leaves out.
  `ServeInv` joins `LineInv` and `WakeInv` with the fact that the message which has
  the turn is that of the goroutine working on it (`TurnOf`). `OnlyEntry` and
  `OnlyMine` show that only one queue at a time has messages, and where it is. Each
  action is then a step of the line (`JoinStep`, `BeginStep`, `ServeStep`, `EndStep`,
  `DropStep`, `RefuseStep`) or none (`SilentStep`, `AdoptStep`).

The proofs in this module use `Disjoint` and, through the types, `Bounds`.

`StreamPreview_proofs` proves, for any number of texts, any limit and any
failures of the platform,

- `Frozen`: `Spec => FrozenStays`, action by action, without an invariant: every
  edit is behind a test of `degraded` under the same hold of `sp.mu`;
- `Types` and `Pending`: `Spec => []TypeOK` and `Spec => []TimerPending`. A new
  timer is named after the accumulated text, which has a type only if that text
  was heard; `Lag` supplies it (a preview that is not degraded lags the event
  loop by at most the text being appended). `IInv` is
  `TypeOK /\ Lag /\ TimerPending`, and `Parts` splits it so that each lemma
  touches only what its step can disturb. The assumption used is `Sizes`;
- `ReadAsSent`: `Spec => []Delivered`. `OnceInv` says what the chat has in each phase
  of an answer that the property is about: `Writing` (the preview shows a prefix and
  nothing is beside it), `Broken` (an edit failed and the message will be deleted),
  `Parted` (segments are out), `Replying` and `Read`; and that only the event loop
  sends the first message (`Calm`). What failed starts left is counted apart (`Meant`
  counts the other messages), and the phases do not look at it.

The proofs about the services are for any number of jobs, requests, users,
savers, projects, chats, clients and calls, and any bounds:

- `CronScheduler_proofs!NoSecondEntry`: `CronSpec => []OneEntry`. The invariant
  `EntryInv` adds the shape of the maps and that an operation under way names a
  job, without which dropping an entry would miss it.
- `CronScheduler_proofs!JobsAreScheduled`: `CronSpec => []EnabledIsScheduled`.
  `CronInv` says, for a job that only one operation has worked on (`Alone`), what
  that operation has made of it by each section of its path (`InStep`: `Begun` or
  `Midway`), that the map gives an entry to one job (`Points`), and that a job
  nobody works on is settled (`AtRest`). A job whose expression or id was set past the
  scheduler is spoilt (`RenameStep`), and nothing is claimed of it until a restart; one
  whose expression does not parse has no entry (`Ready`, `Wanted`). It rests on `CronBounds` and `CronNames`,
  which also says that the parser accepts some expression at all.
- `SessionStore_proofs!ActiveIsOwned` and `TablesInFile`:
  `SmSpec => []ActiveOwned` and `SmSpec => []FileHasTables`. Neither is inductive:
  a `Save` in flight could rename old tables over new ones. `StoreInv` says that
  every snapshot in flight has the present tables, which the exclusion in `Locked`
  preserves. `CreateGood`, `SwitchGood` and `DeleteGood` say what each operation
  does to the tables, `LockedStep` what the write after it does. They rest on
  `SmBounds` and `UsersNamed` (no user is called like the absent owner).
- `SessionStore_proofs!BurstIsKnown` and `NeverForgotten`: `SmSpec => []SaveBurst`
  and `SmSpec => KnownForever`. `BurstInv` says that every snapshot in flight, like
  the memory, knows what the first of the burst began with (`Covers`), since ids are
  replaced but not forgotten, and that ids of sessions are given out in order.
- `TerminalTurns_proofs!AnsweredOnce` and `AnsweredToOwner`:
  `TermSpec => []FinalOnce` and `TermSpec => []FinalToOwner`. `OnceInv` says that
  an answer under way or out holds `inFlight` while its turn is active, and that a
  turn has one such answer; `OwnerInv` that the target is frozen while a turn is
  active and that the handler holds the present one unless `moved`; `OutInv` and
  `TurnInv` that timers and handler name turns that were begun. `BeginStep` covers
  the three ways a turn begins. The assumption used is `TermBounds`.
- `TerminalTurns_proofs!AnsweredInFull`: `TermSpec => FinalComplete`. `CompleteInv`
  adds that a timer of the active turn is void while the handler has output in hand
  (`Timely`), that the handler keeps a target (`Handling`), and that output which
  reached the turn is in its messages, pending, in that hand, or dropped by `collect`
  (`Kept`). It does not say that `collect` drops little.
- `Services_proofs`: `PausedIsQuiet` (`LateBeats`), `OverridesKept`
  (`OverridesSurvive`), `ClosedOnce` (`SinkClosedOnce`), `RelayAgentsClosed`
  (`RelayClosedOnce`) and `OneConversation` (`KeepsConversation`), each from an
  invariant of its own that says which goroutine still owes a beat or a close, or
  which conversation a running call has.
- `Services_proofs!TurnsArePooled` and `ManagersAreShared`: `WsSpec => []TurnPooled`
  and `WsSpec => []SoleManager`. `PoolInv` says that `activeTurns` is the number of
  counted turns that will end (`Counts`), that directories share no state (`OneDir`),
  and that a message which set the clock of its directory and is not late works with
  the pool's state, which is not idle before its turn is counted (`KeepsState`). They
  say nothing of messages that set no clock, nor of the turns that drains run
  uncounted: the reaper may take the state of both (`OneManager`, `ReapsIdle`). They rest on
  `WsFinite` and `WsDirs`.
- `Services_proofs!SideBySide` and `ServicesTyped`: the specification of `MCServices`,
  in which the services take turns, implies `Init /\ [][Next]` of each service, so that
  every theorem about a service holds of the composition; and `Spec =>
  []ServicesTypeOK`. Each service's types needed an invariant of their own, because
  ids and counters are bounded: a scheduler step that needs a job works on one that
  exists and has an entry id to give (`CronTypes`; restarting lists the enabled jobs,
  `EnabledListed`); a snapshot on its way to the file is well formed (`SmTypes`); a
  timer's generation and a pending chunk never run ahead of what was issued
  (`TermTypesHold`); a client is offered no more than the agent's bounded events
  (`CliTypes`); and a relay that opens a conversation finds an id free, since only
  calls hold ids and there are more ids than calls (`RelayTypes`, by the pigeonhole
  `FreshIsFree`).

Every safety property that a passing run checks is thereby proved for all values of
the constants, under the conditions named above. `NewsOnce`, `NoOvertaking` and
`InConversation` are proved only; no run states them. Model-checked only are the
liveness properties (`PoolEmpties`, `HeartbeatLives`, `TurnEnds`, `StreamEnds`,
`EmitterFree`, `RelayServed`, `EveryoneTold`, `LockReleased`, `StopEnds`), which need
fairness and `ENABLED`.

## Plan

1. `InteractiveTurns`, its refinement of `ChatLine`, and their proofs (done).
2. `StreamPreview`, with its types and its late timers proved (done).
3. `SessionStore`, `CronScheduler`, `WorkspacePool`, `Heartbeat`, `TerminalTurns`,
   `CliSinks`, `Relay`: modelled, checked, and their safety proved (done).
4. The idle auto-reset of a Session and the heartbeat's idle probe, as actions of
   `InteractiveTurns`.
5. The bindings of relays and workspaces and the project state: JSON stores that
   are re-read when the file changes.
6. The reconnection of bridge adapters (`core/bridge.go`).
7. `RateWindow`: the sliding windows, the token bucket and the duplicate filter as
   functions, against a reference definition.

Theorems worth proving next: `NoLostWakeup` and `InConversation` with a /compress in a
chat whose agents do not fail; `ServesLine` with /stop, which may leave the old queue
and that of the next turn filled at the same time, so `ChatLine` would need two lines.

## Not modelled

- Formatting, cards, localisation, speech, updates and the screen emulator of
  terminals: text and I/O that no other component's state depends on.
- The agent and platform adapters, more than half of the source: each drives a
  foreign process or SDK, and what the engine relies on, their interface, is
  modelled in `InteractiveTurns`, `StreamPreview` and `Relay`.
- Configuration, command line and daemon: start-up wiring without a protocol.
- About sixty chat commands that read or change one setting under one lock.
- `/switch`, `/delete` of a running chat, the CLI bridge's variant of
  `handleMessage`, the idle auto-reset (planned); of the preview, the progress
  card, the done reaction and the suppression of a reply the agent sent through
  the side channel.
- Relay and workspace bindings, project state, rate limits and duplicates
  (planned); `TriggerNow` and counters of heartbeats; names, metadata and message
  history of sessions; status previews of terminals.

The models cover the concurrent core, which is a small part of a code base that
consists mostly of adapters, command handlers, localised text and configuration;
the share of mapped lines is small for that reason and cannot come near a third
of the whole.

Liveness is model-checked only: TLAPS does not handle fairness and `ENABLED`.
