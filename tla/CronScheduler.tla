--------------------------- MODULE CronScheduler ---------------------------
(***************************************************************************)
(* Scheduled jobs: CronStore and CronScheduler of core/cron.go.            *)
(*                                                                         *)
(* A job lives in two places under two locks: the store (memory and        *)
(* jobs.json, under store.mu) and the schedule (the entries of the cron    *)
(* library and the map from job to entry, under cs.mu).  An operation of a *)
(* chat command, a card or the management API is a path of critical        *)
(* sections over the two; the paths of several requests interleave, a save *)
(* may fail, and the process may restart between any two steps.            *)
(***************************************************************************)
EXTENDS Naturals, Sequences, FiniteSets

CONSTANTS
  CronJobs,       \* job ids; GenerateCronID never repeats one
  CronRequests,   \* goroutines that work on jobs
  CronExprs,      \* cron expressions that ParseStandard accepts
  CronOpsMax,     \* bound: operations begun
  EntryMax        \* bound: entry ids of the library

ASSUME CronBounds ==
  /\ CronOpsMax \in Nat /\ EntryMax \in Nat
  /\ IsFiniteSet(CronJobs) /\ Cardinality(CronJobs) <= EntryMax
ASSUME CronNames == /\ "none" \notin CronJobs
                    /\ CronExprs # {}
                    /\ CronExprs \cap {"on", "off", "wrong", "none", "bad", "id"} = {}

VARIABLES
  cronJobs,   \* store.jobs; a removed *CronJob may still be pointed to
  cronDisk,   \* jobs.json
  cronLive,   \* entries of cs.cron: id -> what AddFunc was given
  entries,    \* cs.entries: job -> id, 0 for none
  cronOp,     \* per request: the operation and the critical sections it has left
  cronRun,    \* per job: its run of executeJob (bound: one at a time)
  cronBegun,  \* operations begun
  cronSpoilt  \* jobs that two operations worked on at once, whose operation reported an
              \* error after it had changed something, or whose expression or id was set
              \* past the scheduler (history)

CronVars == <<cronJobs, cronDisk, cronLive, entries, cronOp, cronRun, cronBegun,
              cronSpoilt>>

EntryIds == 1 .. EntryMax
NoJob    == [state |-> "new", on |-> FALSE, expr |-> CHOOSE e \in CronExprs : TRUE]
NoEntry  == [job |-> "none", expr |-> "none"]
NoOp     == [kind |-> "none", job |-> "none", value |-> "none", todo |-> <<>>]

\* Mutant: DisableJob leaves the entry.
PathNoDrop == [add     |-> <<"write", "schedule">>,
               remove  |-> <<"drop", "write">>,
               enable  |-> <<"write", "get", "schedule">>,
               disable |-> <<"write">>,
               update  |-> <<"get", "drop", "write", "get", "schedule">>,
               field   |-> <<"get", "write">>]

\* The critical sections of each operation, in order.
CronPath == [add     |-> <<"write", "schedule">>,
             remove  |-> <<"drop", "write">>,
             enable  |-> <<"write", "get", "schedule">>,
             disable |-> <<"write", "drop">>,
             update  |-> <<"get", "drop", "write", "get", "schedule">>,
             field   |-> <<"get", "write">>]

\* The argument: an expression to set, the value of "enabled", or a value of another
\* type than bool for it.  A field of another name ("field") is not rescheduled, and
\* "none" is a value that the schedule does not depend on.  But updateJobField sets any
\* string field that the name spells in Go ("cronExpr", "ID"): the expression, unparsed
\* ("bad" is one that ParseStandard rejects), or the id.
CronValues(kind) == CASE kind = "add"    -> CronExprs
                      [] kind = "update" -> CronExprs \cup {"on", "off", "wrong"}
                      [] kind = "field"  -> CronExprs \cup {"bad", "id", "none"}
                      [] OTHER           -> {"none"}

Stored(j)   == cronJobs[j].state = "in"
Working(j)  == {r \in CronRequests : cronOp[r].job = j}
Valid(j)    == cronJobs[j].expr \in CronExprs
Scheduled(j) == {i \in EntryIds : cronLive[i] = [job |-> j, expr |-> cronJobs[j].expr]}

CronInit ==
  /\ cronJobs = [j \in CronJobs |-> NoJob]
  /\ cronDisk = cronJobs
  /\ cronLive = [i \in EntryIds |-> NoEntry]
  /\ entries = [j \in CronJobs |-> 0]
  /\ cronOp = [r \in CronRequests |-> NoOp]
  /\ cronRun = [j \in CronJobs |-> "none"]
  /\ cronBegun = 0
  /\ cronSpoilt = {}

-----------------------------------------------------------------------------
(* Operations *)

CronBegin(r) ==
  /\ cronOp[r] = NoOp /\ cronBegun < CronOpsMax
  /\ cronBegun' = cronBegun + 1
  /\ \E kind \in DOMAIN CronPath, j \in CronJobs : \E v \in CronValues(kind) :
       /\ kind = "add" <=> (cronJobs[j].state = "new" /\ Working(j) = {})
       /\ cronOp' = [cronOp EXCEPT ![r] = [kind |-> kind, job |-> j, value |-> v,
                                            todo |-> CronPath[kind]]]
       /\ cronSpoilt' = IF Working(j) = {} THEN cronSpoilt ELSE cronSpoilt \cup {j}
  /\ UNCHANGED <<cronJobs, cronDisk, cronLive, entries, cronRun>>

\* The next critical section of r, and going on or coming to an end after it.
At(r, section) == cronOp[r].todo # <<>> /\ Head(cronOp[r].todo) = section
Rest(op)   == IF Len(op.todo) = 1 THEN NoOp ELSE [op EXCEPT !.todo = Tail(@)]
Advance(r) == cronOp' = [cronOp EXCEPT ![r] = Rest(@)]
Quit(r)    == cronOp' = [cronOp EXCEPT ![r] = NoOp]

\* What a write makes of a job.
Written(job, op) ==
  CASE op.kind = "add"     -> [state |-> "in", on |-> TRUE, expr |-> op.value]
    [] op.kind = "remove"  -> [job EXCEPT !.state = "gone"]
    [] op.kind = "enable"  -> [job EXCEPT !.on = TRUE]
    [] op.kind = "disable" -> [job EXCEPT !.on = FALSE]
    [] op.kind = "update"  -> IF op.value \in CronExprs
                              THEN [job EXCEPT !.expr = op.value]
                              ELSE [job EXCEPT !.on = op.value = "on"]
    [] OTHER               -> IF op.value \in CronExprs \cup {"bad"}
                              THEN [job EXCEPT !.expr = op.value] ELSE job

\* A change of the store and the save that follows it under the same lock.  Only Add
\* reports a failed save; its job stays in memory, without an entry.
CronWrite(r) ==
  LET op == cronOp[r]
      j  == op.job
      applies == IF op.kind = "add" THEN TRUE ELSE Stored(j) /\ op.value # "wrong"
  IN  /\ At(r, "write")
      /\ ~(Stored(j) /\ op.value = "id")
      /\ \/ /\ ~applies
            /\ Quit(r)
            /\ cronSpoilt' = IF op.value = "wrong" THEN cronSpoilt \cup {j} ELSE cronSpoilt
            /\ UNCHANGED <<cronJobs, cronDisk>>
         \/ /\ applies
            /\ cronJobs' = [cronJobs EXCEPT ![j] = Written(@, op)]
            /\ cronDisk' \in {cronJobs', cronDisk}
            /\ IF op.kind = "add" /\ cronDisk' = cronDisk THEN Quit(r) ELSE Advance(r)
            /\ cronSpoilt' = IF \/ op.kind = "add" /\ cronDisk' = cronDisk
                                \/ op.kind = "field" /\ op.value # "none"
                             THEN cronSpoilt \cup {j} ELSE cronSpoilt
      /\ UNCHANGED <<cronLive, entries, cronRun, cronBegun>>

\* The write of a new id k.  The job is the same object, so a request that has got it and
\* is about to schedule it will do so under k; the entry of the old id stays.  (An id
\* that another job has or had is left out.)
CronRename(r) ==
  LET j == cronOp[r].job
  IN  /\ At(r, "write") /\ cronOp[r].value = "id" /\ Stored(j)
      /\ \E k \in CronJobs :
           /\ cronJobs[k].state = "new" /\ Working(k) = {}
           /\ cronJobs' = [cronJobs EXCEPT ![k] = cronJobs[j], ![j].state = "gone"]
           /\ cronOp' = [q \in CronRequests |->
                IF q = r THEN NoOp
                ELSE IF cronOp[q].job = j /\ At(q, "schedule") THEN [cronOp[q] EXCEPT !.job = k]
                ELSE cronOp[q]]
           /\ cronSpoilt' = cronSpoilt \cup {j, k}
      /\ cronDisk' \in {cronJobs', cronDisk}
      /\ UNCHANGED <<cronLive, entries, cronRun, cronBegun>>

\* store.Get.  The second one of UpdateJob also asks whether the job is enabled.
CronGet(r) ==
  LET j == cronOp[r].job
      again == cronOp[r].kind = "update" /\ Len(cronOp[r].todo) = 2
  IN  /\ At(r, "get")
      /\ IF Stored(j) /\ (again => cronJobs[j].on) THEN Advance(r) ELSE Quit(r)
      /\ UNCHANGED <<cronJobs, cronDisk, cronLive, entries, cronRun, cronBegun,
                     cronSpoilt>>

\* Take the job off the schedule.
CronDrop(r) ==
  LET j == cronOp[r].job
  IN  /\ At(r, "drop")
      /\ cronLive' = [i \in EntryIds |-> IF i = entries[j] THEN NoEntry ELSE cronLive[i]]
      /\ entries' = [entries EXCEPT ![j] = 0]
      /\ Advance(r)
      /\ UNCHANGED <<cronJobs, cronDisk, cronRun, cronBegun, cronSpoilt>>

\* The library numbers its entries without end; here a number that neither it nor the
\* map has is used again.
Free(i) == cronLive[i] = NoEntry /\ \A j \in CronJobs : entries[j] # i

\* Mutant: the old entry stays in the library.
ScheduleBeside(r) ==
  LET j == cronOp[r].job
  IN  /\ At(r, "schedule")
      /\ \E i \in EntryIds :
           /\ Free(i)
           /\ \A k \in 1 .. i - 1 : ~Free(k)
           /\ cronLive' = [cronLive EXCEPT ![i] = [job |-> j, expr |-> cronJobs[j].expr]]
           /\ entries' = [entries EXCEPT ![j] = i]
      /\ Advance(r)
      /\ UNCHANGED <<cronJobs, cronDisk, cronRun, cronBegun, cronSpoilt>>

\* scheduleJob: replace the entry of the job.  The expression is read through the
\* pointer, so it is the one the job has now.  If AddFunc does not parse it, the old
\* entry is gone and the map still has its id.
CronSchedule(r) ==
  LET j == cronOp[r].job
      rest == [k \in EntryIds |-> IF k = entries[j] THEN NoEntry ELSE cronLive[k]]
  IN  /\ At(r, "schedule")
      /\ \/ /\ ~Valid(j)
            /\ cronLive' = rest
            /\ UNCHANGED entries
         \/ /\ Valid(j)
            /\ \E i \in EntryIds :
                 /\ Free(i) /\ \A k \in 1 .. i - 1 : ~Free(k)
                 /\ cronLive' = [rest EXCEPT ![i] = [job |-> j, expr |-> cronJobs[j].expr]]
                 /\ entries' = [entries EXCEPT ![j] = i]
      /\ Advance(r)
      /\ UNCHANGED <<cronJobs, cronDisk, cronRun, cronBegun, cronSpoilt>>

-----------------------------------------------------------------------------
(* Runs and restarts *)

\* The library fires an entry: executeJob looks the job up and runs it, or leaves.
CronFire(i) ==
  LET j == cronLive[i].job
  IN  /\ cronLive[i] # NoEntry /\ cronRun[j] = "none"
      /\ Stored(j) /\ cronJobs[j].on
      /\ cronRun' = [cronRun EXCEPT ![j] = "running"]
      /\ UNCHANGED <<cronJobs, cronDisk, cronLive, entries, cronOp, cronBegun, cronSpoilt>>

\* The run is over, or timed out and goes on by itself: MarkRun saves the store.
CronMarkRun(j) ==
  /\ cronRun[j] = "running"
  /\ cronRun' = [cronRun EXCEPT ![j] = "none"]
  /\ \/ cronDisk' = IF Stored(j) THEN cronJobs ELSE cronDisk
     \/ UNCHANGED cronDisk
  /\ UNCHANGED <<cronJobs, cronLive, entries, cronOp, cronBegun, cronSpoilt>>

\* The process ends anywhere and Start schedules what jobs.json has enabled, in the
\* order of the list, except for expressions that do not parse.
CronRestart ==
  LET enabled == {j \in CronJobs : /\ cronDisk[j].state = "in" /\ cronDisk[j].on
                                   /\ cronDisk[j].expr \in CronExprs}
  IN  \E list \in [1 .. Cardinality(enabled) -> enabled] :
        /\ \A i, k \in DOMAIN list : list[i] = list[k] => i = k
        /\ cronJobs' = cronDisk
        /\ cronLive' = [i \in EntryIds |->
             IF i \in DOMAIN list THEN [job |-> list[i], expr |-> cronDisk[list[i]].expr]
             ELSE NoEntry]
        /\ entries' = [j \in CronJobs |->
             IF j \in enabled THEN CHOOSE i \in DOMAIN list : list[i] = j ELSE 0]
        /\ cronOp' = [r \in CronRequests |-> NoOp]
        /\ cronRun' = [j \in CronJobs |-> "none"]
        /\ cronSpoilt' = {}
        /\ UNCHANGED <<cronDisk, cronBegun>>

CronNext ==
  \/ \E r \in CronRequests : \/ CronBegin(r) \/ CronWrite(r) \/ CronRename(r)
                             \/ CronGet(r) \/ CronDrop(r) \/ CronSchedule(r)
  \/ \E i \in EntryIds : CronFire(i)
  \/ \E j \in CronJobs : CronMarkRun(j)
  \/ CronRestart

CronSpec == CronInit /\ [][CronNext]_CronVars

-----------------------------------------------------------------------------
(* Properties *)

CronTypeOK ==
  /\ {cronJobs, cronDisk} \subseteq
       [CronJobs -> [state : {"new", "in", "gone"}, on : BOOLEAN,
                     expr : CronExprs \cup {"bad"}]]
  /\ cronLive \in [EntryIds -> [job : CronJobs, expr : CronExprs] \cup {NoEntry}]
  /\ entries \in [CronJobs -> EntryIds \cup {0}]
  /\ cronRun \in [CronJobs -> {"none", "running"}]
  /\ cronBegun \in 0 .. CronOpsMax /\ cronSpoilt \in SUBSET CronJobs

\* Whatever requests interleave, the library has at most one entry for a job, the one
\* that the map knows: a job is not fired twice a minute, and what the map cannot
\* find (and so nobody could remove any more) is not in the library.
OneEntry ==
  \A i \in EntryIds : cronLive[i] # NoEntry => entries[cronLive[i].job] = i

\* A job that no request is working on is on the schedule if and only if it exists, is
\* enabled and has an expression that parses, and then with the expression it has now.
\* Not claimed of a job that two requests worked on at once, nor after an error that
\* came half-way (both can leave an enabled job without an entry until it is enabled
\* again or the process restarts), nor of one whose expression or id was set past the
\* scheduler, of which EntryCurrent speaks.
EnabledIsScheduled ==
  \A j \in CronJobs \ cronSpoilt : Working(j) = {} =>
    /\ Stored(j) /\ cronJobs[j].on /\ Valid(j) <=> Scheduled(j) # {}
    /\ entries[j] # 0 <=> Scheduled(j) # {}

\* "UpdateJob modifies a field of a cron job and reschedules if necessary. Returns error
\* if job not found, field is read-only, or value is invalid": when requests come one
\* after another, an enabled job that has an entry runs by the expression it has now.  The
\* code does not keep this: Written sets fields past the rescheduling.
EntryCurrent ==
  \A j \in CronJobs : Working(j) = {} /\ Stored(j) /\ cronJobs[j].on /\ entries[j] # 0
    => Scheduled(j) # {}
=============================================================================
