------------------------ MODULE CronScheduler_proofs ------------------------
(***************************************************************************)
(* Proofs about the schedule: the library has at most one entry for a job, *)
(* and it has one if and only if the job is enabled.                       *)
(***************************************************************************)
EXTENDS CronScheduler, FiniteSetTheorems, TLAPS

\* An operation that has sections left is one on a job.
IsOp(op) == op.job \in CronJobs /\ "job" \in DOMAIN op
CronShape ==
  /\ DOMAIN cronOp = CronRequests
  /\ \A r \in CronRequests : cronOp[r] = NoOp \/ IsOp(cronOp[r])
  /\ DOMAIN entries = CronJobs
  /\ DOMAIN cronLive = EntryIds
EntryInv == CronShape /\ OneEntry

LEMMA ShapeStep == ASSUME CronShape, [CronNext]_CronVars PROVE CronShape'
<1> USE DEF CronShape
<1>1. ASSUME NEW r \in CronRequests, NEW section, At(r, section)
      PROVE  Rest(cronOp[r]) = NoOp \/ IsOp(Rest(cronOp[r]))
  <2>1. IsOp(cronOp[r])
    BY <1>1 DEF At, NoOp
  <2> QED BY <2>1 DEF IsOp, Rest
<1> DEFINE OpsOK == /\ DOMAIN cronOp' = CronRequests
                    /\ \A r \in CronRequests : cronOp'[r] = NoOp \/ IsOp(cronOp'[r])
<1>a. ASSUME NEW r \in CronRequests, NEW section, At(r, section), Advance(r) \/ Quit(r)
      PROVE  OpsOK
  BY <1>1, <1>a DEF Advance, Quit
<1>b. ASSUME NEW r \in CronRequests, CronRename(r) PROVE CronShape'
  <2>1. PICK k \in CronJobs : cronOp' = [q \in CronRequests |->
          IF q = r THEN NoOp
          ELSE IF cronOp[q].job = cronOp[r].job /\ At(q, "schedule")
               THEN [cronOp[q] EXCEPT !.job = k] ELSE cronOp[q]]
    BY <1>b DEF CronRename
  <2>2. ASSUME NEW q \in CronRequests, At(q, "schedule")
        PROVE  IsOp([cronOp[q] EXCEPT !.job = k])
    <3>1. IsOp(cronOp[q])
      BY <2>2 DEF At, NoOp
    <3> QED BY <3>1 DEF IsOp
  <2> QED BY <1>b, <2>1, <2>2 DEF CronRename
<1>2. CASE UNCHANGED CronVars
  BY <1>2 DEF CronVars
<1>3. ASSUME NEW r \in CronRequests, CronBegin(r) PROVE CronShape'
  BY <1>3 DEF CronBegin, IsOp
<1>4. ASSUME NEW r \in CronRequests, CronWrite(r) PROVE CronShape'
  BY <1>a, <1>4 DEF CronWrite
<1>5. ASSUME NEW r \in CronRequests, CronGet(r) PROVE CronShape'
  BY <1>a, <1>5 DEF CronGet
<1>6. ASSUME NEW r \in CronRequests, CronDrop(r) PROVE CronShape'
  BY <1>a, <1>6 DEF CronDrop
<1>7. ASSUME NEW r \in CronRequests, CronSchedule(r) PROVE CronShape'
  BY <1>a, <1>7 DEF CronSchedule
<1>8. ASSUME NEW i \in EntryIds, CronFire(i) PROVE CronShape'
  BY <1>8 DEF CronFire
<1>9. ASSUME NEW j \in CronJobs, CronMarkRun(j) PROVE CronShape'
  BY <1>9 DEF CronMarkRun
<1>10. CASE CronRestart
  BY <1>10 DEF CronRestart
<1> QED BY <1>b, <1>2, <1>3, <1>4, <1>5, <1>6, <1>7, <1>8, <1>9, <1>10 DEF CronNext

\* Dropping or replacing the entry that the map knows keeps the map and the library
\* in step.
LEMMA EntryStep == ASSUME EntryInv, [CronNext]_CronVars PROVE OneEntry'
<1> USE DEF EntryInv, CronShape, OneEntry
<1>1. ASSUME NEW r \in CronRequests, At(r, "schedule") PROVE cronOp[r].job \in CronJobs
  BY <1>1 DEF At, NoOp, IsOp
<1>2. CASE UNCHANGED CronVars
  BY <1>2 DEF CronVars
<1>3. ASSUME NEW r \in CronRequests, CronBegin(r) \/ CronWrite(r) \/ CronRename(r) \/ CronGet(r)
      PROVE  OneEntry'
  BY <1>3 DEF CronBegin, CronWrite, CronRename, CronGet
<1>4. ASSUME NEW r \in CronRequests, CronDrop(r) PROVE OneEntry'
  BY <1>4 DEF CronDrop
<1>5. ASSUME NEW r \in CronRequests, CronSchedule(r) PROVE OneEntry'
  <2> DEFINE j == cronOp[r].job
  <2>1. j \in CronJobs
    BY <1>1, <1>5 DEF CronSchedule
  <2> SUFFICES ASSUME NEW k \in EntryIds, cronLive'[k] # NoEntry
               PROVE  entries'[cronLive'[k].job] = k
    OBVIOUS
  <2>2. CASE ~Valid(j)
    BY <1>5, <2>2 DEF CronSchedule
  <2>3. CASE Valid(j)
    <3>1. PICK i \in EntryIds :
            /\ cronLive' = [n \in EntryIds |->
                 IF n = i THEN [job |-> j, expr |-> cronJobs[j].expr]
                 ELSE IF n = entries[j] THEN NoEntry ELSE cronLive[n]]
            /\ entries' = [entries EXCEPT ![j] = i]
      BY <1>5, <2>3 DEF CronSchedule
    <3> HIDE DEF j
    <3>2. CASE k = i
      BY <2>1, <3>1, <3>2
    <3>3. CASE k # i
      <4>1. cronLive'[k] = cronLive[k] /\ k # entries[j] /\ entries[cronLive[k].job] = k
        BY <3>1, <3>3
      <4> QED BY <3>1, <4>1
    <3> QED BY <3>2, <3>3
  <2> QED BY <2>2, <2>3
<1>6. ASSUME NEW i \in EntryIds, CronFire(i) PROVE OneEntry'
  BY <1>6 DEF CronFire
<1>7. ASSUME NEW j \in CronJobs, CronMarkRun(j) PROVE OneEntry'
  BY <1>7 DEF CronMarkRun
<1>8. CASE CronRestart
  <2> DEFINE enabled == {j \in CronJobs : /\ cronDisk[j].state = "in" /\ cronDisk[j].on
                                           /\ cronDisk[j].expr \in CronExprs}
  <2>1. PICK list \in [1 .. Cardinality(enabled) -> enabled] :
          /\ \A i, k \in DOMAIN list : list[i] = list[k] => i = k
          /\ cronLive' = [i \in EntryIds |->
               IF i \in DOMAIN list
               THEN [job |-> list[i], expr |-> cronDisk[list[i]].expr] ELSE NoEntry]
          /\ entries' = [j \in CronJobs |->
               IF j \in enabled THEN CHOOSE i \in DOMAIN list : list[i] = j ELSE 0]
    BY <1>8 DEF CronRestart
  <2> SUFFICES ASSUME NEW k \in EntryIds, cronLive'[k] # NoEntry
               PROVE  entries'[cronLive'[k].job] = k
    OBVIOUS
  <2>2. k \in DOMAIN list /\ cronLive'[k].job = list[k]
    BY <2>1
  <2>3. list[k] \in enabled /\ list[k] \in CronJobs
    BY <2>1, <2>2
  <2>4. (CHOOSE i \in DOMAIN list : list[i] = list[k]) = k
    BY <2>1, <2>2
  <2> QED BY <2>1, <2>2, <2>3, <2>4
<1> QED BY <1>2, <1>3, <1>4, <1>5, <1>6, <1>7, <1>8 DEF CronNext

\* Whatever requests interleave, fail and are cut short by restarts, the library has
\* at most one entry for a job.
THEOREM NoSecondEntry == CronSpec => []OneEntry
<1>1. CronInit => EntryInv
  BY DEF CronInit, EntryInv, CronShape, OneEntry
<1>2. EntryInv /\ [CronNext]_CronVars => EntryInv'
  BY ShapeStep, EntryStep DEF EntryInv
<1>3. EntryInv => OneEntry
  BY DEF EntryInv
<1> QED BY <1>1, <1>2, <1>3, PTL DEF CronSpec

-----------------------------------------------------------------------------
(* A job is on the schedule if and only if it is enabled and its expression parses *)

On(j)      == Stored(j) /\ cronJobs[j].on
Wanted(j)  == On(j) /\ Valid(j)
Has(j)     == entries[j] # 0
Ready(j)   == On(j) /\ (Has(j) => Valid(j))
UpToDate(j)   == Has(j) => cronLive[entries[j]] = [job |-> j, expr |-> cronJobs[j].expr]
Settled(j) == (Has(j) <=> Wanted(j)) /\ UpToDate(j)

\* The map has ids of the library only, and each for one job.
Points == \A j \in CronJobs : Has(j) =>
  entries[j] \in EntryIds /\ \A k \in CronJobs : entries[k] = entries[j] => k = j

\* A job of which more than one request has made something is spoilt.
Alone == \A q, r \in CronRequests :
  cronOp[q].job = cronOp[r].job /\ cronOp[r].job \in CronJobs \ cronSpoilt => q = r

\* How far an operation has come, and what it has made of its job by then.
Begun(op) ==
  /\ op.kind \in DOMAIN CronPath /\ op.todo = CronPath[op.kind]
  /\ op.value \in CronValues(op.kind)
  /\ op.kind # "add" => Settled(op.job)
Midway(op) ==
  \/ /\ op.kind \in {"add", "enable", "update"} /\ op.todo = <<"schedule">>
     /\ Ready(op.job)
  \/ /\ op.kind = "remove" /\ op.todo = <<"write">>
     /\ ~Has(op.job) /\ op.value = "none"
  \/ op.kind = "enable" /\ op.todo = <<"get", "schedule">> /\ Ready(op.job)
  \/ op.kind = "disable" /\ op.todo = <<"drop">> /\ ~Wanted(op.job)
  \/ /\ op.kind = "update" /\ op.todo = <<"drop", "write", "get", "schedule">>
     /\ op.value \in CronValues("update")
  \/ /\ op.kind = "update" /\ op.todo = <<"write", "get", "schedule">> /\ ~Has(op.job)
     /\ op.value \in CronValues("update")
  \/ op.kind = "update" /\ op.todo = <<"get", "schedule">> /\ ~Has(op.job)
  \/ /\ op.kind = "field" /\ op.todo = <<"write">> /\ Settled(op.job)
     /\ op.value \in CronValues("field")

InStep == \A r \in CronRequests :
  cronOp[r] # NoOp /\ cronOp[r].job \notin cronSpoilt => Begun(cronOp[r]) \/ Midway(cronOp[r])
AtRest == \A j \in CronJobs \ cronSpoilt : Working(j) = {} => Settled(j)

\* Jobs are records, in memory and in the file.
IsJob(job)   == DOMAIN job = {"state", "on", "expr"}
AreJobs(jobs) == DOMAIN jobs = CronJobs /\ \A j \in CronJobs : IsJob(jobs[j])

CronInv ==
  /\ AreJobs(cronJobs) /\ AreJobs(cronDisk)
  /\ EntryInv /\ Points /\ Alone /\ InStep /\ AtRest

\* The sections of an operation, taken one after another.
LEMMA Paths ==
  /\ Len(<<"write", "schedule">>) = 2 /\ Head(<<"write", "schedule">>) = "write"
  /\ Tail(<<"write", "schedule">>) = <<"schedule">>
  /\ Len(<<"drop", "write">>) = 2 /\ Head(<<"drop", "write">>) = "drop"
  /\ Tail(<<"drop", "write">>) = <<"write">>
  /\ Len(<<"write", "get", "schedule">>) = 3 /\ Head(<<"write", "get", "schedule">>) = "write"
  /\ Tail(<<"write", "get", "schedule">>) = <<"get", "schedule">>
  /\ Len(<<"write", "drop">>) = 2 /\ Head(<<"write", "drop">>) = "write"
  /\ Tail(<<"write", "drop">>) = <<"drop">>
  /\ Len(<<"get", "drop", "write", "get", "schedule">>) = 5
  /\ Head(<<"get", "drop", "write", "get", "schedule">>) = "get"
  /\ Tail(<<"get", "drop", "write", "get", "schedule">>) =
       <<"drop", "write", "get", "schedule">>
  /\ Len(<<"get", "write">>) = 2 /\ Head(<<"get", "write">>) = "get"
  /\ Tail(<<"get", "write">>) = <<"write">>
  /\ Len(<<"schedule">>) = 1 /\ Head(<<"schedule">>) = "schedule"
  /\ Len(<<"write">>) = 1 /\ Head(<<"write">>) = "write"
  /\ Len(<<"get", "schedule">>) = 2 /\ Head(<<"get", "schedule">>) = "get"
  /\ Tail(<<"get", "schedule">>) = <<"schedule">>
  /\ Len(<<"drop">>) = 1 /\ Head(<<"drop">>) = "drop"
  /\ Len(<<"drop", "write", "get", "schedule">>) = 4
  /\ Head(<<"drop", "write", "get", "schedule">>) = "drop"
  /\ Tail(<<"drop", "write", "get", "schedule">>) =
       <<"write", "get", "schedule">>
OBVIOUS

\* What a step leaves of a job that it does not work on.
Same(k) == /\ cronJobs'[k] = cronJobs[k] /\ entries'[k] = entries[k]
           /\ Has(k) => cronLive'[entries[k]] = cronLive[entries[k]]

\* Such a job stays as it is.
LEMMA SameStays ==
  ASSUME NEW k, Same(k)
  PROVE  /\ (Wanted(k)' <=> Wanted(k)) /\ (Has(k)' <=> Has(k))
         /\ (Settled(k)' <=> Settled(k)) /\ (Ready(k)' <=> Ready(k))
BY DEF Same, On, Wanted, Has, Ready, UpToDate, Settled, Stored, Valid

\* A step of the request that works on j, of which only j's part remains to be shown.
LEMMA OwnJob ==
  ASSUME CronInv, NEW r \in CronRequests, NEW j \in CronJobs, cronOp[r].job = j,
         \A k \in CronJobs \ {j} : Same(k),
         \A q \in CronRequests \ {r} : cronOp'[q] = cronOp[q],
         cronOp'[r] = NoOp \/ cronOp'[r].job = j,
         cronSpoilt \subseteq cronSpoilt',
         j \in cronSpoilt' \/ (cronOp'[r] = NoOp /\ Settled(j)')
                           \/ (cronOp'[r].job = j /\ (Begun(cronOp[r]) \/ Midway(cronOp[r]))')
  PROVE  Alone' /\ InStep' /\ AtRest'
<1>0. NoOp.job \notin CronJobs
  BY CronNames DEF NoOp
<1>1. Alone'
  BY <1>0 DEF CronInv, Alone
<1>2. ASSUME NEW q \in CronRequests, cronOp'[q] # NoOp, cronOp'[q].job \notin cronSpoilt'
      PROVE  (Begun(cronOp[q]) \/ Midway(cronOp[q]))'
  <2>1. CASE q = r
    BY <2>1, <1>2
  <2>2. CASE q # r
    <3>1. /\ cronOp'[q] = cronOp[q] /\ cronOp[q].job \in CronJobs \ {j}
          /\ Begun(cronOp[q]) \/ Midway(cronOp[q])
      BY <1>2, <2>2 DEF CronInv, EntryInv, CronShape, IsOp, Alone, InStep
    <3>2. Same(cronOp[q].job)
      BY <3>1
    <3> QED BY <3>1, <3>2, SameStays DEF Begun, Midway
  <2> QED BY <2>1, <2>2
<1>3. ASSUME NEW k \in CronJobs \ cronSpoilt', Working(k)' = {} PROVE Settled(k)'
  <2>1. CASE k = j
    <3>1. cronOp'[r].job # j
      BY <1>3, <2>1 DEF Working
    <3> QED BY <3>1, <2>1, <1>3
  <2>2. CASE k # j
    <3>1. Working(k) = {}
      BY <1>3, <2>2 DEF Working
    <3>2. Settled(k)
      BY <1>3, <3>1 DEF CronInv, AtRest
    <3> QED BY <2>2, <3>2, SameStays
  <2> QED BY <2>1, <2>2
<1> QED BY <1>1, <1>2, <1>3 DEF InStep, AtRest

\* Every operation under way is on a job, and what it has left begins with a section.
LEMMA UnderWay ==
  ASSUME CronInv, NEW r \in CronRequests, NEW section, At(r, section)
  PROVE  /\ cronOp[r].job \in CronJobs
         /\ Rest(cronOp[r]) = NoOp \/ Rest(cronOp[r]).job = cronOp[r].job
         /\ cronOp[r].job \notin cronSpoilt => Begun(cronOp[r]) \/ Midway(cronOp[r])
<1>1. cronOp[r] # NoOp
  BY DEF At, NoOp
<1>2. IsOp(cronOp[r])
  BY <1>1 DEF CronInv, EntryInv, CronShape
<1> QED BY <1>1, <1>2 DEF CronInv, InStep, IsOp, Rest


\* What is left of an operation when it comes to each section.
LEMMA AtGet ==
  ASSUME NEW op, Begun(op) \/ Midway(op), Head(op.todo) = "get"
  PROVE  \/ /\ op.kind = "update" /\ Settled(op.job) /\ op.value \in CronValues("update")
            /\ Len(op.todo) = 5 /\ Tail(op.todo) = <<"drop", "write", "get", "schedule">>
         \/ /\ op.kind = "field" /\ Settled(op.job) /\ op.value \in CronValues("field")
            /\ Len(op.todo) = 2 /\ Tail(op.todo) = <<"write">>
         \/ /\ op.kind = "enable" /\ Ready(op.job)
            /\ Len(op.todo) = 2 /\ Tail(op.todo) = <<"schedule">>
         \/ /\ op.kind = "update" /\ ~Has(op.job)
            /\ Len(op.todo) = 2 /\ Tail(op.todo) = <<"schedule">>
<1>1. CASE Begun(op)
  <2>1. op.kind \in {"update", "field"}
    BY <1>1, Paths DEF Begun, CronPath
  <2>2. op.kind = "field" => op.todo = <<"get", "write">>
    BY <1>1 DEF Begun, CronPath
  <2>3. op.kind = "update" => op.todo = <<"get", "drop", "write", "get", "schedule">>
    BY <1>1 DEF Begun, CronPath
  <2> QED BY <1>1, <2>1, <2>2, <2>3, Paths DEF Begun
<1>2. CASE Midway(op)
  BY <1>2, Paths DEF Midway
<1> QED BY <1>1, <1>2

LEMMA AtDrop ==
  ASSUME NEW op, Begun(op) \/ Midway(op), Head(op.todo) = "drop"
  PROVE  \/ /\ op.kind = "remove" /\ op.value = "none"
            /\ Len(op.todo) = 2 /\ Tail(op.todo) = <<"write">>
         \/ op.kind = "disable" /\ ~Wanted(op.job) /\ Len(op.todo) = 1
         \/ /\ op.kind = "update" /\ op.value \in CronValues("update")
            /\ Len(op.todo) = 4 /\ Tail(op.todo) = <<"write", "get", "schedule">>
<1>1. CASE Begun(op)
  <2>1. op.kind = "remove"
    BY <1>1, Paths DEF Begun, CronPath
  <2> QED BY <1>1, <2>1, Paths DEF Begun, CronPath, CronValues
<1>2. CASE Midway(op)
  BY <1>2, Paths DEF Midway
<1> QED BY <1>1, <1>2

LEMMA AtWrite ==
  ASSUME NEW op, Begun(op) \/ Midway(op), Head(op.todo) = "write"
  PROVE  \/ /\ op.kind = "add" /\ op.value \in CronExprs
            /\ Len(op.todo) = 2 /\ Tail(op.todo) = <<"schedule">>
         \/ /\ op.kind = "remove" /\ ~Has(op.job) /\ op.value = "none"
            /\ Len(op.todo) = 1
         \/ /\ op.kind = "enable" /\ Settled(op.job) /\ op.value = "none"
            /\ Len(op.todo) = 3 /\ Tail(op.todo) = <<"get", "schedule">>
         \/ /\ op.kind = "disable" /\ Settled(op.job) /\ op.value = "none"
            /\ Len(op.todo) = 2 /\ Tail(op.todo) = <<"drop">>
         \/ /\ op.kind = "update" /\ ~Has(op.job) /\ op.value \in CronValues("update")
            /\ Len(op.todo) = 3 /\ Tail(op.todo) = <<"get", "schedule">>
         \/ /\ op.kind = "field" /\ Settled(op.job) /\ op.value \in CronValues("field")
            /\ Len(op.todo) = 1
<1>1. CASE Begun(op)
  <2>1. op.kind \in {"add", "enable", "disable"}
    BY <1>1, Paths DEF Begun, CronPath
  <2>2. op.kind = "add" => op.todo = <<"write", "schedule">> /\ op.value \in CronExprs
    BY <1>1 DEF Begun, CronPath, CronValues
  <2>3. op.kind = "enable" => /\ op.todo = <<"write", "get", "schedule">>
                              /\ op.value = "none" /\ Settled(op.job)
    BY <1>1 DEF Begun, CronPath, CronValues
  <2>4. op.kind = "disable" => /\ op.todo = <<"write", "drop">>
                               /\ op.value = "none" /\ Settled(op.job)
    BY <1>1 DEF Begun, CronPath, CronValues
  <2> QED BY <2>1, <2>2, <2>3, <2>4, Paths
<1>2. CASE Midway(op)
  BY <1>2, Paths DEF Midway
<1> QED BY <1>1, <1>2

LEMMA AtSchedule ==
  ASSUME NEW op, Begun(op) \/ Midway(op), Head(op.todo) = "schedule"
  PROVE  Ready(op.job) /\ Len(op.todo) = 1
<1>1. ~Begun(op)
  BY Paths DEF Begun, CronPath
<1> QED BY <1>1, Paths DEF Midway

\* store.Get changes nothing; what it finds the operation goes on with.
LEMMA GetStep ==
  ASSUME CronInv, NEW r \in CronRequests, CronGet(r)
  PROVE  (Points /\ Alone /\ InStep /\ AtRest)'
<1> DEFINE op == cronOp[r]
<1>1. At(r, "get") /\ Head(op.todo) = "get"
  BY DEF CronGet, At
<1>2. PICK j \in CronJobs : j = op.job
  BY <1>1, UnderWay
<1>3. Points' /\ \A k \in CronJobs : Same(k)
  BY DEF CronGet, CronInv, Points, Same, Has
<1>4. /\ DOMAIN cronOp = CronRequests
      /\ \A q \in CronRequests \ {r} : cronOp'[q] = cronOp[q]
      /\ cronSpoilt' = cronSpoilt
  BY DEF CronInv, EntryInv, CronShape, CronGet, Advance, Quit
<1>5. IF Stored(j) /\ (op.kind = "update" /\ Len(op.todo) = 2 => cronJobs[j].on)
      THEN cronOp'[r] = Rest(op) ELSE cronOp'[r] = NoOp
  BY <1>2, <1>4 DEF CronGet, Advance, Quit
<1>6. ASSUME j \notin cronSpoilt
      PROVE  \/ cronOp'[r] = NoOp /\ Settled(j)'
             \/ cronOp'[r].job = j /\ (Begun(cronOp[r]) \/ Midway(cronOp[r]))'
  <2>1. Begun(op) \/ Midway(op)
    BY <1>1, <1>2, <1>6, UnderWay
  <2>2. (Settled(j)' <=> Settled(j)) /\ (Ready(j)' <=> Ready(j)) /\ (Has(j)' <=> Has(j))
    BY <1>3, SameStays
  <2>3. CASE Len(op.todo) = 1
    BY <1>1, <2>1, <2>3, AtGet
  <2>4. CASE Len(op.todo) # 1
    <3>1. /\ Rest(op).kind = op.kind /\ Rest(op).job = j /\ Rest(op).value = op.value
          /\ Rest(op).todo = Tail(op.todo)
      BY <1>2, <2>4 DEF Rest
    <3>2. \/ op.kind = "update" /\ Settled(j) /\ Len(op.todo) = 5
          \/ op.kind = "field" /\ Settled(j)
          \/ op.kind = "enable" /\ Ready(j)
          \/ op.kind = "update" /\ ~Has(j) /\ Len(op.todo) = 2
      BY <1>1, <1>2, <2>1, AtGet
    <3>3. CASE cronOp'[r] = NoOp
      <4>1. Rest(op) # NoOp
        BY <3>1, CronNames DEF NoOp
      <4>2. ~(Stored(j) /\ (op.kind = "update" /\ Len(op.todo) = 2 => cronJobs[j].on))
        BY <1>5, <3>3, <4>1
      <4>3. Settled(j)
        BY <3>2, <4>2 DEF Settled, UpToDate, On, Wanted, Ready
      <4> QED BY <2>2, <3>3, <4>3
    <3>4. CASE cronOp'[r] # NoOp
      BY <1>1, <1>2, <1>5, <2>1, <2>2, <3>1, <3>4, AtGet DEF Midway, On, Ready
    <3> QED BY <3>3, <3>4
  <2> QED BY <2>3, <2>4
<1>7. cronOp'[r] = NoOp \/ cronOp'[r].job = j
  BY <1>1, <1>2, <1>5, UnderWay
<1> QED BY <1>2, <1>3, <1>4, <1>6, <1>7, OwnJob

\* Dropping the entry that the map knows, or none, takes the job off the schedule.
LEMMA DropStep ==
  ASSUME CronInv, NEW r \in CronRequests, CronDrop(r)
  PROVE  (Points /\ Alone /\ InStep /\ AtRest)'
<1> DEFINE op == cronOp[r]
<1>1. At(r, "drop") /\ Head(op.todo) = "drop"
  BY DEF CronDrop, At
<1>2. PICK j \in CronJobs : j = op.job
  BY <1>1, UnderWay
<1>3. /\ DOMAIN cronOp = CronRequests /\ DOMAIN entries = CronJobs
      /\ \A k \in CronJobs : Has(k) => entries[k] \in EntryIds
      /\ \A q \in CronRequests \ {r} : cronOp'[q] = cronOp[q]
      /\ cronSpoilt' = cronSpoilt /\ cronJobs' = cronJobs
      /\ cronOp'[r] = Rest(op)
      /\ cronLive' = [i \in EntryIds |-> IF i = entries[j] THEN NoEntry ELSE cronLive[i]]
      /\ entries' = [entries EXCEPT ![j] = 0]
  BY <1>2 DEF CronInv, EntryInv, CronShape, Points, CronDrop, Advance
<1>4. ASSUME NEW k \in CronJobs \ {j} PROVE Same(k)
  <2>1. Has(k) /\ Has(j) => entries[k] # entries[j]
    BY <1>4 DEF CronInv, Points
  <2> QED BY <1>3, <1>4, <2>1 DEF Same, Has
<1>5. Points'
  BY <1>3, <1>4 DEF CronInv, Points, Same, Has
<1>6. ~Has(j)'
  BY <1>3 DEF Has
<1>7. ASSUME j \notin cronSpoilt
      PROVE  \/ cronOp'[r] = NoOp /\ Settled(j)'
             \/ cronOp'[r].job = j /\ (Begun(cronOp[r]) \/ Midway(cronOp[r]))'
  <2>1. Begun(op) \/ Midway(op)
    BY <1>1, <1>2, <1>7, UnderWay
  <2>2. Wanted(j)' <=> Wanted(j)
    BY <1>3 DEF On, Wanted, Stored, Valid
  <2>3. CASE Len(op.todo) = 1
    <3>1. ~Wanted(j)
      BY <1>1, <1>2, <2>1, <2>3, AtDrop
    <3>2. Settled(j)'
      BY <1>6, <2>2, <3>1 DEF Settled, UpToDate
    <3> QED BY <1>3, <2>3, <3>2 DEF Rest
  <2>4. CASE Len(op.todo) # 1
    <3>1. /\ Rest(op).kind = op.kind /\ Rest(op).job = j /\ Rest(op).value = op.value
          /\ Rest(op).todo = Tail(op.todo)
      BY <1>2, <2>4 DEF Rest
    <3> QED BY <1>1, <1>2, <1>3, <1>6, <2>1, <2>4, <3>1, AtDrop DEF Midway
  <2> QED BY <2>3, <2>4
<1>8. cronOp'[r] = NoOp \/ cronOp'[r].job = j
  BY <1>1, <1>2, <1>3, UnderWay
<1> QED BY <1>2, <1>3, <1>4, <1>5, <1>7, <1>8, OwnJob

\* An entry that takes the place of the one the map knows has the job's expression.
LEMMA ScheduleStep ==
  ASSUME CronInv, NEW r \in CronRequests, CronSchedule(r)
  PROVE  (Points /\ Alone /\ InStep /\ AtRest)'
<1> DEFINE op == cronOp[r]
<1>1. At(r, "schedule") /\ Head(op.todo) = "schedule"
  BY DEF CronSchedule, At
<1>2. PICK j \in CronJobs : j = op.job
  BY <1>1, UnderWay
<1>3. /\ DOMAIN cronOp = CronRequests /\ DOMAIN entries = CronJobs
      /\ \A k \in CronJobs : Has(k) => entries[k] \in EntryIds
      /\ \A q \in CronRequests \ {r} : cronOp'[q] = cronOp[q]
      /\ cronSpoilt' = cronSpoilt /\ cronJobs' = cronJobs
      /\ cronOp'[r] = Rest(op)
  BY <1>2 DEF CronInv, EntryInv, CronShape, Points, CronSchedule, Advance
<1>4. cronOp'[r] = NoOp \/ cronOp'[r].job = j
  BY <1>1, <1>2, <1>3, UnderWay
<1>5. j \notin cronSpoilt => Ready(j) /\ cronOp'[r] = NoOp
  BY <1>1, <1>2, <1>3, UnderWay, AtSchedule DEF Rest
<1>6. CASE ~Valid(j)
  <2>1. /\ cronLive' = [k \in EntryIds |-> IF k = entries[j] THEN NoEntry ELSE cronLive[k]]
        /\ entries' = entries
    BY <1>2, <1>6 DEF CronSchedule
  <2>2. ASSUME NEW k \in CronJobs \ {j} PROVE Same(k)
    <3>1. Has(k) => entries[k] # entries[j]
      BY <2>2 DEF CronInv, Points
    <3> QED BY <1>3, <2>1, <3>1 DEF Same
  <2>3. Points'
    BY <2>1 DEF CronInv, Points, Has
  <2>4. j \notin cronSpoilt => cronOp'[r] = NoOp /\ Settled(j)'
    BY <1>3, <1>5, <1>6, <2>1 DEF Ready, Settled, UpToDate, Has, Wanted, Valid
  <2> QED BY <1>2, <1>3, <1>4, <2>2, <2>3, <2>4, OwnJob
<1>7. CASE Valid(j)
  <2>1. PICK n \in EntryIds :
          /\ Free(n)
          /\ cronLive' = [k \in EntryIds |->
               IF k = n THEN [job |-> j, expr |-> cronJobs[j].expr]
               ELSE IF k = entries[j] THEN NoEntry ELSE cronLive[k]]
          /\ entries' = [entries EXCEPT ![j] = n]
    BY <1>2, <1>7 DEF CronSchedule
  <2>2. ASSUME NEW k \in CronJobs \ {j} PROVE Same(k) /\ entries[k] # n
    <3>1. entries[k] # n /\ (Has(k) => entries[k] # entries[j])
      BY <2>1, <2>2 DEF Free, CronInv, Points
    <3> QED BY <1>3, <2>1, <2>2, <3>1 DEF Same
  <2>3. cronLive'[n] = [job |-> j, expr |-> cronJobs'[j].expr] /\ entries'[j] = n /\ n # 0
    BY <1>3, <2>1 DEF EntryIds
  <2>4. Points'
    BY <1>3, <2>1, <2>2 DEF CronInv, Points, Has
  <2>5. j \notin cronSpoilt => cronOp'[r] = NoOp /\ Settled(j)'
    BY <1>3, <1>5, <1>7, <2>3 DEF Ready, Settled, UpToDate, Has, On, Wanted, Stored, Valid
  <2> QED BY <1>2, <1>3, <1>4, <2>2, <2>4, <2>5, OwnJob
<1> QED BY <1>6, <1>7

\* What a write makes of a job, by the kind of the operation.
LEMMA WrittenIs ==
  ASSUME NEW job, IsJob(job), NEW op
  PROVE  /\ op.kind = "add" => Written(job, op).state = "in" /\ Written(job, op).on
                                /\ Written(job, op).expr = op.value
         /\ op.kind = "remove" => Written(job, op).state = "gone"
         /\ op.kind = "enable" => /\ Written(job, op).state = job.state
                                   /\ Written(job, op).on
                                   /\ Written(job, op).expr = job.expr
         /\ op.kind = "disable" => ~Written(job, op).on
         /\ op.kind = "field" /\ op.value = "none" => Written(job, op) = job
         /\ IsJob(Written(job, op))
<1>0. "none" \notin CronExprs \cup {"bad"}
  BY CronNames
<1>1. CASE op.kind = "add"
  BY <1>1 DEF Written, IsJob
<1>2. CASE op.kind = "remove"
  BY <1>2 DEF Written, IsJob
<1>3. CASE op.kind = "enable"
  BY <1>3 DEF Written, IsJob
<1>4. CASE op.kind = "disable"
  BY <1>4 DEF Written, IsJob
<1>5. CASE op.kind = "update"
  BY <1>5 DEF Written, IsJob
<1>6. CASE op.kind \notin {"add", "remove", "enable", "disable", "update"}
  BY <1>0, <1>6 DEF Written, IsJob
<1> QED BY <1>1, <1>2, <1>3, <1>4, <1>5, <1>6

\* A change of the store leaves the schedule alone: the sections that follow it, or
\* the one before it, bring the two together.
LEMMA WriteStep ==
  ASSUME CronInv, NEW r \in CronRequests, CronWrite(r)
  PROVE  (Points /\ Alone /\ InStep /\ AtRest)'
<1> DEFINE op == cronOp[r]
<1>1. At(r, "write") /\ Head(op.todo) = "write"
  BY DEF CronWrite, At
<1>2. PICK j \in CronJobs : j = op.job
  BY <1>1, UnderWay
<1> DEFINE applies == IF op.kind = "add" THEN TRUE ELSE Stored(j) /\ op.value # "wrong"
<1>3. /\ DOMAIN cronOp = CronRequests
      /\ \A q \in CronRequests \ {r} : cronOp'[q] = cronOp[q]
      /\ cronLive' = cronLive /\ entries' = entries
      /\ cronSpoilt \subseteq cronSpoilt'
  BY <1>2 DEF CronInv, EntryInv, CronShape, CronWrite, Advance, Quit
<1>4. CASE ~applies
  <2>1. /\ cronOp'[r] = NoOp /\ cronJobs' = cronJobs
        /\ op.value = "wrong" => j \in cronSpoilt'
    BY <1>2, <1>3, <1>4 DEF CronWrite, Quit
  <2>2. Points' /\ \A k \in CronJobs : Same(k)
    BY <1>3, <2>1 DEF CronInv, Points, Same, Has
  <2>3. j \in cronSpoilt' \/ Settled(j)'
    <3> SUFFICES ASSUME j \notin cronSpoilt' PROVE Settled(j)
      BY <2>2, SameStays
    <3>1. Begun(op) \/ Midway(op)
      BY <1>1, <1>2, <1>3, UnderWay
    <3>2. ~Wanted(j)
      BY <1>4, <2>1 DEF On, Wanted
    <3>3. ~Has(j) \/ Settled(j)
      BY <1>1, <1>2, <1>4, <3>1, AtWrite
    <3> QED BY <3>2, <3>3 DEF Settled, UpToDate
  <2> QED BY <1>2, <1>3, <2>1, <2>2, <2>3, OwnJob
<1>5. CASE applies
  <2>1. /\ cronJobs' = [cronJobs EXCEPT ![j] = Written(@, op)]
        /\ \/ cronOp'[r] = Rest(op)
           \/ cronOp'[r] = NoOp /\ j \in cronSpoilt'
        /\ op.kind = "field" => op.value = "none" \/ j \in cronSpoilt'
    BY <1>2, <1>3, <1>5 DEF CronWrite, Advance, Quit
  <2>2. /\ cronJobs'[j] = Written(cronJobs[j], op) /\ IsJob(cronJobs[j])
        /\ \A k \in CronJobs \ {j} : cronJobs'[k] = cronJobs[k]
    BY <1>2, <2>1 DEF CronInv, AreJobs
  <2>3. Points' /\ \A k \in CronJobs \ {j} : Same(k)
    BY <1>3, <2>2 DEF CronInv, Points, Same, Has
  <2>4. Has(j)' <=> Has(j)
    BY <1>3 DEF Has
  <2>5. ASSUME j \notin cronSpoilt'
        PROVE  \/ cronOp'[r] = NoOp /\ Settled(j)'
               \/ cronOp'[r].job = j /\ (Begun(cronOp[r]) \/ Midway(cronOp[r]))'
    <3>1. Begun(op) \/ Midway(op)
      BY <1>1, <1>2, <1>3, <2>5, UnderWay
    <3>2. cronOp'[r] = Rest(op)
      BY <2>1, <2>5
    <3>3. Len(op.todo) # 1 =>
            /\ Rest(op).kind = op.kind /\ Rest(op).job = j /\ Rest(op).value = op.value
            /\ Rest(op).todo = Tail(op.todo)
      BY <1>2 DEF Rest
    <3> DEFINE w == Written(cronJobs[j], op)
    <3>0. /\ op.kind = "add" => w.state = "in" /\ w.on /\ w.expr = op.value
          /\ op.kind = "remove" => w.state = "gone"
          /\ op.kind = "enable" => /\ w.state = cronJobs[j].state /\ w.on
                                   /\ w.expr = cronJobs[j].expr
          /\ op.kind = "disable" => ~w.on
      <4>1. IsJob(cronJobs[j])
        BY <2>2
      <4> HIDE DEF op
      <4> QED BY <4>1, WrittenIs
    <3>a. /\ On(j)' <=> w.state = "in" /\ w.on
          /\ Valid(j)' <=> w.expr \in CronExprs
      BY <2>2 DEF On, Stored, Valid
    <3> HIDE DEF w
    <3>4. CASE op.kind = "add"
      <4>1. Ready(j)'
        BY <1>1, <1>2, <3>0, <3>1, <3>a, <3>4, AtWrite DEF Ready
      <4>2. Len(op.todo) = 2 /\ Tail(op.todo) = <<"schedule">>
        BY <1>1, <1>2, <3>1, <3>4, AtWrite
      <4>3. Len(op.todo) # 1
        BY <4>2
      <4> QED BY <3>2, <3>3, <3>4, <4>1, <4>2, <4>3 DEF Midway
    <3>5. CASE op.kind = "remove"
      <4>1. ~Wanted(j)'
        BY <3>0, <3>a, <3>5 DEF Wanted
      <4>2. ~Has(j) /\ Len(op.todo) = 1
        BY <1>1, <1>2, <3>1, <3>5, AtWrite
      <4> QED BY <2>4, <3>2, <4>1, <4>2 DEF Rest, Settled, UpToDate
    <3>6. CASE op.kind = "enable"
      <4>1. Ready(j)'
        <5>1. Settled(j)
          BY <1>1, <1>2, <3>1, <3>6, AtWrite
        <5> QED BY <1>5, <2>4, <3>0, <3>a, <3>6, <5>1 DEF Ready, Settled, Wanted, Stored, Valid
      <4>2. Len(op.todo) = 3 /\ Tail(op.todo) = <<"get", "schedule">>
        BY <1>1, <1>2, <3>1, <3>6, AtWrite
      <4>3. Len(op.todo) # 1
        BY <4>2
      <4> QED BY <3>2, <3>3, <3>6, <4>1, <4>2, <4>3 DEF Midway
    <3>7. CASE op.kind = "disable"
      <4>1. ~Wanted(j)'
        BY <3>0, <3>a, <3>7 DEF Wanted
      <4>2. Len(op.todo) # 1 /\ Tail(op.todo) = <<"drop">>
        BY <1>1, <1>2, <3>1, <3>7, AtWrite
      <4>3. Len(op.todo) # 1
        BY <4>2
      <4> QED BY <3>2, <3>3, <3>7, <4>1, <4>2, <4>3 DEF Midway
    <3>8. CASE op.kind = "update"
      <4>1. ~Has(j) /\ Len(op.todo) = 3 /\ Tail(op.todo) = <<"get", "schedule">>
        BY <1>1, <1>2, <3>1, <3>8, AtWrite
      <4>2. Len(op.todo) # 1
        BY <4>1
      <4> QED BY <2>4, <3>2, <3>3, <3>8, <4>1, <4>2 DEF Midway
    <3>9. CASE op.kind = "field"
      <4>1. Settled(j) /\ op.value = "none" /\ Len(op.todo) = 1
        BY <1>1, <1>2, <2>1, <2>5, <3>1, <3>9, AtWrite
      <4>2. cronJobs'[j] = cronJobs[j]
        BY <2>2, <3>9, <4>1, WrittenIs
      <4>3. Same(j)
        BY <1>3, <4>2 DEF Same, Has
      <4> QED BY <3>2, <4>1, <4>3, SameStays DEF Rest
    <3> QED BY <1>1, <3>1, <3>4, <3>5, <3>6, <3>7, <3>8, <3>9, AtWrite
  <2>6. cronOp'[r] = NoOp \/ cronOp'[r].job = j
    BY <1>1, <1>2, <2>1, UnderWay
  <2> QED BY <1>2, <1>3, <2>3, <2>5, <2>6, OwnJob
<1> QED BY <1>4, <1>5

\* A new id takes two jobs out of what is claimed, and leaves the others.
LEMMA RenameStep ==
  ASSUME CronInv, NEW r \in CronRequests, CronRename(r)
  PROVE  (Points /\ Alone /\ InStep /\ AtRest)'
<1> DEFINE j == cronOp[r].job
<1>0. NoOp.job \notin CronJobs
  BY CronNames DEF NoOp
<1>1. PICK k \in CronJobs :
        /\ cronJobs' = [cronJobs EXCEPT ![k] = cronJobs[j], ![j].state = "gone"]
        /\ cronOp' = [q \in CronRequests |->
             IF q = r THEN NoOp
             ELSE IF cronOp[q].job = j /\ At(q, "schedule") THEN [cronOp[q] EXCEPT !.job = k]
             ELSE cronOp[q]]
        /\ cronSpoilt' = cronSpoilt \cup {j, k}
  BY DEF CronRename
<1>2. cronLive' = cronLive /\ entries' = entries
  BY DEF CronRename
<1>3. ASSUME NEW x \in CronJobs \ cronSpoilt' PROVE Same(x) /\ x \notin cronSpoilt
  BY <1>1, <1>2, <1>3 DEF Same, CronInv, AreJobs
<1>4. ASSUME NEW q \in CronRequests, cronOp'[q].job \in CronJobs \ cronSpoilt'
      PROVE  cronOp'[q] = cronOp[q]
  <2>1. q # r
    BY <1>0, <1>1, <1>4
  <2>2. ASSUME cronOp[q].job = j, At(q, "schedule") PROVE FALSE
    <3>1. IsOp(cronOp[q])
      BY <2>2 DEF At, NoOp, CronInv, EntryInv, CronShape
    <3>2. cronOp'[q].job = k
      BY <1>1, <2>1, <2>2, <3>1 DEF IsOp
    <3> QED BY <1>1, <1>4, <3>2
  <2> QED BY <1>1, <2>1, <2>2
<1>5. Points'
  BY <1>2 DEF CronInv, Points, Has
<1>6. Alone'
  <2> SUFFICES ASSUME NEW q \in CronRequests, NEW p \in CronRequests,
                      cronOp'[q].job = cronOp'[p].job,
                      cronOp'[p].job \in CronJobs \ cronSpoilt'
               PROVE  q = p
    BY DEF Alone
  <2>1. cronOp'[q] = cronOp[q] /\ cronOp'[p] = cronOp[p] /\ cronSpoilt \subseteq cronSpoilt'
    BY <1>1, <1>4
  <2> QED BY <2>1 DEF CronInv, Alone
<1>7. ASSUME NEW q \in CronRequests, cronOp'[q] # NoOp, cronOp'[q].job \notin cronSpoilt'
      PROVE  (Begun(cronOp[q]) \/ Midway(cronOp[q]))'
  <2>1. cronOp'[q].job \in CronJobs
    BY <1>7, ShapeStep DEF CronInv, EntryInv, CronShape, IsOp, CronNext
  <2>2. cronOp'[q] = cronOp[q] /\ Same(cronOp[q].job) /\ (Begun(cronOp[q]) \/ Midway(cronOp[q]))
    BY <1>3, <1>4, <1>7, <2>1 DEF CronInv, InStep
  <2> QED BY <2>2, SameStays DEF Begun, Midway
<1>8. ASSUME NEW x \in CronJobs \ cronSpoilt', Working(x)' = {} PROVE Settled(x)'
  <2>1. Same(x) /\ x \notin cronSpoilt /\ x # j
    BY <1>1, <1>3
  <2>2. ASSUME NEW q \in CronRequests, cronOp[q].job = x PROVE cronOp'[q] = cronOp[q]
    BY <1>1, <2>1, <2>2
  <2>3. Working(x) = {}
    BY <1>8, <2>2 DEF Working
  <2> QED BY <2>1, <2>3, SameStays DEF CronInv, AtRest
<1> QED BY <1>5, <1>6, <1>7, <1>8 DEF InStep, AtRest

\* The jobs that a restart schedules.
Enabled == {j \in CronJobs : /\ cronDisk[j].state = "in" /\ cronDisk[j].on
                             /\ cronDisk[j].expr \in CronExprs}

\* The list of a restart has every enabled job, and the library room for all of them.
LEMMA EnabledListed ==
  ASSUME NEW list \in [1 .. Cardinality(Enabled) -> Enabled],
         \A i, k \in DOMAIN list : list[i] = list[k] => i = k
  PROVE  /\ \A j \in Enabled : \E i \in DOMAIN list : list[i] = j
         /\ DOMAIN list \subseteq EntryIds
<1>1. /\ IsFiniteSet(Enabled) /\ Cardinality(Enabled) \in Nat
      /\ Cardinality(Enabled) <= EntryMax
  <2>1. Enabled \in SUBSET CronJobs
    BY DEF Enabled
  <2> QED BY <2>1, CronBounds, FS_Subset, FS_CardinalityType
<1>2. \A j \in Enabled : \E i \in DOMAIN list : list[i] = j
  <2>1. list \in Injection(1 .. Cardinality(Enabled), Enabled)
    BY DEF Injection, IsInjective
  <2>2. Cardinality(1 .. Cardinality(Enabled)) = Cardinality(Enabled)
    BY <1>1, FS_Interval
  <2>3. list \in Surjection(1 .. Cardinality(Enabled), Enabled)
    BY <1>1, <2>1, <2>2, FS_Injection
  <2> QED BY <2>3 DEF Surjection
<1>3. DOMAIN list = 1 .. Cardinality(Enabled)
  OBVIOUS
<1> QED BY <1>1, <1>2, <1>3, CronBounds DEF EntryIds

\* A restart schedules what the file has enabled, and every request is gone.
LEMMA RestartStep == ASSUME CronInv, CronRestart PROVE (Points /\ Alone /\ InStep /\ AtRest)'
<1>1. PICK list \in [1 .. Cardinality(Enabled) -> Enabled] :
        /\ \A i, k \in DOMAIN list : list[i] = list[k] => i = k
        /\ cronJobs' = cronDisk
        /\ cronLive' = [i \in EntryIds |->
             IF i \in DOMAIN list
             THEN [job |-> list[i], expr |-> cronDisk[list[i]].expr] ELSE NoEntry]
        /\ entries' = [j \in CronJobs |->
             IF j \in Enabled THEN CHOOSE i \in DOMAIN list : list[i] = j ELSE 0]
        /\ cronOp' = [r \in CronRequests |-> NoOp]
  BY DEF CronRestart, Enabled
<1>2. /\ \A j \in Enabled : \E i \in DOMAIN list : list[i] = j
      /\ DOMAIN list \subseteq EntryIds
  BY <1>1, EnabledListed
<1>3. ASSUME NEW j \in Enabled
      PROVE  /\ entries'[j] \in DOMAIN list /\ list[entries'[j]] = j
             /\ entries'[j] \in EntryIds /\ entries'[j] # 0
             /\ cronLive'[entries'[j]] = [job |-> j, expr |-> cronJobs'[j].expr]
  <2>1. entries'[j] \in DOMAIN list /\ list[entries'[j]] = j
    BY <1>1, <1>2 DEF Enabled
  <2>2. entries'[j] \in EntryIds /\ entries'[j] # 0
    BY <1>2, <2>1 DEF EntryIds
  <2> QED BY <1>1, <2>1, <2>2
<1>4. \A j \in CronJobs : (Has(j)' <=> j \in Enabled) /\ (Wanted(j)' <=> j \in Enabled)
  BY <1>1, <1>3 DEF Has, On, Wanted, Stored, Valid, Enabled
<1>5. Points'
  <2> SUFFICES ASSUME NEW j \in CronJobs, Has(j)'
               PROVE  /\ entries'[j] \in EntryIds
                      /\ \A k \in CronJobs : entries'[k] = entries'[j] => k = j
    BY DEF Points
  <2>1. j \in Enabled /\ entries'[j] # 0
    BY <1>4 DEF Has
  <2>2. ASSUME NEW k \in CronJobs, entries'[k] = entries'[j] PROVE k = j
    <3>1. k \in Enabled
      BY <1>4, <2>1, <2>2 DEF Has
    <3>2. list[entries'[k]] = k /\ list[entries'[j]] = j
      BY <1>3, <2>1, <3>1
    <3> QED BY <2>2, <3>2
  <2> QED BY <1>3, <2>1, <2>2
<1>6. \A j \in CronJobs : Settled(j)'
  BY <1>3, <1>4 DEF Settled, UpToDate
<1>7. Alone' /\ InStep'
  BY <1>1, CronNames DEF Alone, InStep, NoOp
<1> QED BY <1>5, <1>6, <1>7 DEF AtRest

\* The store keeps jobs.
LEMMA JobsStep ==
  ASSUME CronInv, [CronNext]_CronVars PROVE AreJobs(cronJobs)' /\ AreJobs(cronDisk)'
<1>1. ASSUME NEW r \in CronRequests, CronWrite(r)
      PROVE  AreJobs(cronJobs)' /\ AreJobs(cronDisk)'
  <2>1. cronOp[r].job \in CronJobs
    BY <1>1, UnderWay DEF CronWrite
  <2>2. ASSUME NEW k \in CronJobs PROVE IsJob(cronJobs'[k])
    <3>1. IsJob(cronJobs[k]) /\ DOMAIN cronJobs = CronJobs
      BY DEF CronInv, AreJobs
    <3>2. IsJob(Written(cronJobs[k], cronOp[r]))
      BY <3>1, WrittenIs
    <3> QED BY <1>1, <3>1, <3>2 DEF CronWrite
  <2>3. DOMAIN cronJobs' = CronJobs
    BY <1>1 DEF CronWrite, CronInv, AreJobs
  <2>4. cronDisk' = cronJobs' \/ cronDisk' = cronDisk
    BY <1>1 DEF CronWrite
  <2> QED BY <2>2, <2>3, <2>4 DEF CronInv, AreJobs
<1>2. ASSUME NEW r \in CronRequests, CronRename(r)
      PROVE  AreJobs(cronJobs)' /\ AreJobs(cronDisk)'
  <2>1. PICK k \in CronJobs :
          cronJobs' = [cronJobs EXCEPT ![k] = cronJobs[cronOp[r].job],
                                       ![cronOp[r].job].state = "gone"]
    BY <1>2 DEF CronRename
  <2>2. cronOp[r].job \in CronJobs
    BY <1>2, UnderWay DEF CronRename
  <2>3. DOMAIN cronJobs = CronJobs /\ \A x \in CronJobs : IsJob(cronJobs[x])
    BY DEF CronInv, AreJobs
  <2>4. ASSUME NEW x \in CronJobs PROVE IsJob(cronJobs'[x])
    BY <2>1, <2>2, <2>3 DEF IsJob
  <2>5. cronDisk' = cronJobs' \/ cronDisk' = cronDisk
    BY <1>2 DEF CronRename
  <2> QED BY <2>1, <2>3, <2>4, <2>5 DEF CronInv, AreJobs
<1> QED
  BY <1>1, <1>2 DEF CronNext, CronVars, CronBegin, CronGet, CronDrop, CronSchedule, CronFire,
              CronMarkRun, CronRestart, CronInv

\* A request that takes a job up finds it at rest, or spoils it.
LEMMA CronBeginStep ==
  ASSUME CronInv, NEW r \in CronRequests, CronBegin(r)
  PROVE  (Points /\ Alone /\ InStep /\ AtRest)'
<1>1. PICK kind \in DOMAIN CronPath, j \in CronJobs : \E v \in CronValues(kind) :
        /\ cronOp' = [cronOp EXCEPT ![r] = [kind |-> kind, job |-> j, value |-> v,
                                             todo |-> CronPath[kind]]]
        /\ cronSpoilt' = IF Working(j) = {} THEN cronSpoilt ELSE cronSpoilt \cup {j}
  BY DEF CronBegin
<1>0. PICK v \in CronValues(kind) :
        /\ cronOp' = [cronOp EXCEPT ![r] = [kind |-> kind, job |-> j, value |-> v,
                                             todo |-> CronPath[kind]]]
        /\ cronSpoilt' = IF Working(j) = {} THEN cronSpoilt ELSE cronSpoilt \cup {j}
  BY <1>1
<1>2. /\ cronOp'[r] = [kind |-> kind, job |-> j, value |-> v, todo |-> CronPath[kind]]
      /\ \A q \in CronRequests \ {r} : cronOp'[q] = cronOp[q]
      /\ cronOp[r] = NoOp /\ cronSpoilt \subseteq cronSpoilt'
  BY <1>0 DEF CronBegin, CronInv, EntryInv, CronShape
<1>3. Points' /\ \A k \in CronJobs : Same(k)
  BY DEF CronBegin, CronInv, Points, Same, Has
<1>4. Alone'
  <2>1. j \notin cronSpoilt' => \A q \in CronRequests \ {r} : cronOp[q].job # j
    BY <1>1 DEF Working
  <2> QED BY <1>2, <2>1 DEF CronInv, Alone
<1>5. ASSUME NEW q \in CronRequests, cronOp'[q] # NoOp, cronOp'[q].job \notin cronSpoilt'
      PROVE  (Begun(cronOp[q]) \/ Midway(cronOp[q]))'
  <2>1. CASE q = r
    <3>1. Settled(j)
      BY <1>1, <1>2, <1>5, <2>1 DEF CronInv, AtRest
    <3>2. Settled(j)'
      BY <1>3, <3>1, SameStays
    <3> QED BY <1>2, <2>1, <3>2 DEF Begun
  <2>2. CASE q # r
    <3>1. /\ cronOp'[q] = cronOp[q] /\ cronOp[q].job \in CronJobs
          /\ Begun(cronOp[q]) \/ Midway(cronOp[q])
      BY <1>2, <1>5, <2>2 DEF CronInv, EntryInv, CronShape, IsOp, InStep
    <3>2. Same(cronOp[q].job)
      BY <1>3, <3>1
    <3> QED BY <3>1, <3>2, SameStays DEF Begun, Midway
  <2> QED BY <2>1, <2>2
<1>6. ASSUME NEW k \in CronJobs \ cronSpoilt', Working(k)' = {} PROVE Settled(k)'
  <2>1. NoOp.job # k
    BY CronNames DEF NoOp
  <2>2. Working(k) = {}
    BY <1>2, <1>6, <2>1 DEF Working
  <2>3. Settled(k)
    BY <1>2, <1>6, <2>2 DEF CronInv, AtRest
  <2> QED BY <1>3, <2>3, SameStays
<1> QED BY <1>3, <1>4, <1>5, <1>6 DEF InStep, AtRest

\* Every step keeps all of it.
LEMMA CronStep == ASSUME CronInv, [CronNext]_CronVars PROVE CronInv'
<1>1. AreJobs(cronJobs)' /\ AreJobs(cronDisk)' /\ EntryInv'
  BY JobsStep, ShapeStep, EntryStep DEF CronInv, EntryInv
<1>2. ASSUME UNCHANGED <<cronJobs, cronLive, entries, cronOp, cronSpoilt>>
      PROVE  (Points /\ Alone /\ InStep /\ AtRest)'
  BY <1>2 DEF CronInv, Points, Alone, InStep, AtRest, Has, Settled, UpToDate, On, Wanted, Ready,
              Stored, Valid, Working, Begun, Midway
<1>3. (Points /\ Alone /\ InStep /\ AtRest)'
  BY <1>2, CronBeginStep, WriteStep, RenameStep, GetStep, DropStep, ScheduleStep, RestartStep
     DEF CronNext, CronVars, CronFire, CronMarkRun
<1> QED BY <1>1, <1>3 DEF CronInv

\* Whatever fails and restarts, a job that no request is working on, that no two
\* requests worked on at once, no error left half-way and no one gave an expression or
\* an id past the scheduler, is on the schedule if and only if it is enabled with an
\* expression that parses, and then with that expression.
THEOREM JobsAreScheduled == CronSpec => []EnabledIsScheduled
<1>1. CronInit => CronInv
  <2> SUFFICES ASSUME CronInit PROVE CronInv
    OBVIOUS
  <2>1. AreJobs(cronJobs) /\ AreJobs(cronDisk)
    BY DEF CronInit, AreJobs, IsJob, NoJob
  <2>2. EntryInv /\ Points /\ Alone /\ InStep
    BY CronNames DEF CronInit, EntryInv, CronShape, OneEntry, Points, Has, Alone, InStep, NoOp
  <2>3. AtRest
    BY DEF CronInit, AtRest, Settled, Has, UpToDate, On, Wanted, Stored, NoJob
  <2> QED BY <2>1, <2>2, <2>3 DEF CronInv
<1>2. CronInv => EnabledIsScheduled
  <2> SUFFICES ASSUME CronInv, NEW j \in CronJobs \ cronSpoilt, Working(j) = {}
               PROVE  /\ Stored(j) /\ cronJobs[j].on /\ Valid(j) <=> Scheduled(j) # {}
                      /\ entries[j] # 0 <=> Scheduled(j) # {}
    BY DEF EnabledIsScheduled
  <2>1. Settled(j)
    BY DEF CronInv, AtRest
  <2>2. ASSUME NEW i \in Scheduled(j) PROVE entries[j] = i /\ i # 0
    <3>1. i \in EntryIds /\ cronLive[i] = [job |-> j, expr |-> cronJobs[j].expr]
      BY DEF Scheduled
    <3>2. cronLive[i] # NoEntry
      BY <3>1, CronNames DEF NoEntry
    <3> QED BY <3>1, <3>2 DEF CronInv, EntryInv, OneEntry, EntryIds
  <2>3. Has(j) => entries[j] \in Scheduled(j)
    BY <2>1 DEF Settled, UpToDate, CronInv, Points, Scheduled
  <2> QED BY <2>1, <2>2, <2>3 DEF Settled, Has, On, Wanted
<1> QED BY <1>1, <1>2, CronStep, PTL DEF CronSpec

-----------------------------------------------------------------------------
(* Types *)

\* Jobs, entries and the values of operations under way.
JobType    == [state : {"new", "in", "gone"}, on : BOOLEAN,
               expr : CronExprs \cup {"bad"}]
LiveTypes  == cronLive \in [EntryIds -> [job : CronJobs, expr : CronExprs] \cup {NoEntry}]
StoreTypes == cronJobs \in [CronJobs -> JobType] /\ cronDisk \in [CronJobs -> JobType]
TableTypes ==
  /\ entries \in [CronJobs -> EntryIds \cup {0}]
  /\ cronRun \in [CronJobs -> {"none", "running"}]
  /\ cronBegun \in 0 .. CronOpsMax /\ cronSpoilt \in SUBSET CronJobs
OpTypes == \A r \in CronRequests :
  cronOp[r].kind = "add" => cronOp[r].value \in CronExprs
CronTyped == CronShape /\ StoreTypes /\ LiveTypes /\ TableTypes /\ OpTypes

LEMMA CronTypeStart == CronInit => CronTyped
<1> SUFFICES ASSUME CronInit PROVE CronTyped
  OBVIOUS
<1>1. CronShape /\ OpTypes
  BY DEF CronInit, CronShape, OpTypes, NoOp
<1>2. NoJob \in JobType
  BY CronNames DEF NoJob, JobType
<1>3. StoreTypes /\ LiveTypes
  BY <1>2 DEF CronInit, StoreTypes, LiveTypes
<1>4. TableTypes
  BY CronBounds DEF CronInit, TableTypes
<1> QED BY <1>1, <1>3, <1>4 DEF CronTyped

\* The operation that a request is at is one on a job.
LEMMA OpOnJob ==
  ASSUME CronTyped, NEW r \in CronRequests, NEW section, At(r, section)
  PROVE  cronOp[r].job \in CronJobs
BY DEF CronTyped, CronShape, At, NoOp, IsOp

LEMMA OpsStay ==
  ASSUME CronTyped, NEW r \in CronRequests, NEW section, At(r, section), Advance(r) \/ Quit(r)
  PROVE  OpTypes'
<1>1. \A q \in CronRequests \ {r} : cronOp'[q] = cronOp[q]
  BY DEF Advance, Quit, CronTyped, CronShape
<1>2. NoOp.kind # "add"
  BY DEF NoOp
<1>3. cronOp'[r] = NoOp \/ cronOp'[r] = [cronOp[r] EXCEPT !.todo = Tail(@)]
  BY DEF Advance, Quit, CronTyped, CronShape, Rest
<1>4. [cronOp[r] EXCEPT !.todo = Tail(@)].kind = cronOp[r].kind
      /\ [cronOp[r] EXCEPT !.todo = Tail(@)].value = cronOp[r].value
  OBVIOUS
<1> QED BY <1>1, <1>2, <1>3, <1>4 DEF CronTyped, OpTypes

\* What is written is a job.
LEMMA WrittenType ==
  ASSUME NEW job \in JobType, NEW op, op.kind = "add" => op.value \in CronExprs
  PROVE  Written(job, op) \in JobType
BY DEF Written, JobType

LEMMA WriteTypes == ASSUME CronTyped, NEW r \in CronRequests, CronWrite(r) PROVE CronTyped'
<1> DEFINE op == cronOp[r]
           j  == op.job
<1>0. CronShape'
  BY ShapeStep DEF CronTyped, CronNext
<1>1. j \in CronJobs
  BY OpOnJob DEF CronWrite
<1>2. OpTypes'
  BY OpsStay DEF CronWrite
<1>3. LiveTypes'
  BY DEF CronWrite, CronTyped, LiveTypes
<1>4. TableTypes'
  <2>1. cronSpoilt' \subseteq cronSpoilt \cup {j}
    BY DEF CronWrite
  <2> QED BY <1>1, <2>1 DEF CronWrite, CronTyped, TableTypes
<1>5. StoreTypes'
  <2>1. cronJobs' = cronJobs \/ cronJobs' = [cronJobs EXCEPT ![j] = Written(@, op)]
    BY DEF CronWrite
  <2>2. cronDisk' = cronDisk \/ cronDisk' = cronJobs'
    BY DEF CronWrite
  <2>3. Written(cronJobs[j], op) \in JobType
    BY <1>1, WrittenType DEF CronTyped, StoreTypes, OpTypes
  <2> QED BY <1>1, <2>1, <2>2, <2>3 DEF CronTyped, StoreTypes
<1> QED BY <1>0, <1>2, <1>3, <1>4, <1>5 DEF CronTyped

LEMMA RenameTypes == ASSUME CronTyped, NEW r \in CronRequests, CronRename(r) PROVE CronTyped'
<1> DEFINE j == cronOp[r].job
<1>0. CronShape'
  BY ShapeStep DEF CronTyped, CronNext
<1>1. j \in CronJobs
  BY OpOnJob DEF CronRename
<1>2. PICK k \in CronJobs :
        /\ cronJobs' = [cronJobs EXCEPT ![k] = cronJobs[j], ![j].state = "gone"]
        /\ cronOp' = [q \in CronRequests |->
             IF q = r THEN NoOp
             ELSE IF cronOp[q].job = j /\ At(q, "schedule") THEN [cronOp[q] EXCEPT !.job = k]
             ELSE cronOp[q]]
        /\ cronSpoilt' = cronSpoilt \cup {j, k}
  BY DEF CronRename
<1>3. OpTypes'
  <2>1. ASSUME NEW q \in CronRequests
        PROVE  /\ [cronOp[q] EXCEPT !.job = k].kind = cronOp[q].kind
               /\ [cronOp[q] EXCEPT !.job = k].value = cronOp[q].value
    OBVIOUS
  <2> QED BY <1>2, <2>1 DEF CronTyped, OpTypes, NoOp
<1>4. StoreTypes'
  <2>1. [cronJobs[j] EXCEPT !.state = "gone"] \in JobType
    BY <1>1 DEF CronTyped, StoreTypes, JobType
  <2>2. [cronJobs[k] EXCEPT !.state = "gone"] \in JobType
    BY DEF CronTyped, StoreTypes, JobType
  <2>3. cronJobs' \in [CronJobs -> JobType]
    BY <1>1, <1>2, <2>1, <2>2 DEF CronTyped, StoreTypes
  <2>4. cronDisk' = cronJobs' \/ cronDisk' = cronDisk
    BY DEF CronRename
  <2> QED BY <2>3, <2>4 DEF CronTyped, StoreTypes
<1>5. LiveTypes' /\ TableTypes'
  BY <1>1, <1>2 DEF CronRename, CronTyped, LiveTypes, TableTypes
<1> QED BY <1>0, <1>3, <1>4, <1>5 DEF CronTyped

LEMMA ScheduleTypes ==
  ASSUME CronTyped, NEW r \in CronRequests, CronGet(r) \/ CronDrop(r) \/ CronSchedule(r)
  PROVE  CronTyped'
<1> DEFINE j == cronOp[r].job
<1>0. CronShape'
  BY ShapeStep DEF CronTyped, CronNext
<1>1. j \in CronJobs
  BY OpOnJob DEF CronGet, CronDrop, CronSchedule
<1>2. OpTypes'
  BY OpsStay DEF CronGet, CronDrop, CronSchedule
<1>3. StoreTypes'
  BY DEF CronGet, CronDrop, CronSchedule, CronTyped, StoreTypes
<1>4. LiveTypes'
  <2>1. Valid(j) => [job |-> j, expr |-> cronJobs[j].expr] \in [job : CronJobs, expr : CronExprs]
    BY <1>1 DEF Valid
  <2>2. CASE CronGet(r)
    BY <2>2 DEF CronGet, CronTyped, LiveTypes
  <2>3. CASE CronDrop(r)
    BY <2>3 DEF CronDrop, CronTyped, LiveTypes
  <2>4. CASE CronSchedule(r)
    BY <2>1, <2>4 DEF CronSchedule, CronTyped, LiveTypes
  <2> QED BY <2>2, <2>3, <2>4
<1>5. TableTypes'
  BY <1>1 DEF CronGet, CronDrop, CronSchedule, CronTyped, TableTypes
<1> QED BY <1>0, <1>2, <1>3, <1>4, <1>5 DEF CronTyped

LEMMA RestartTypes == ASSUME CronTyped, CronRestart PROVE CronTyped'
<1>0. CronShape'
  BY ShapeStep DEF CronTyped, CronNext
<1>1. PICK list \in [1 .. Cardinality(Enabled) -> Enabled] :
        /\ \A i, k \in DOMAIN list : list[i] = list[k] => i = k
        /\ cronJobs' = cronDisk
        /\ cronLive' = [i \in EntryIds |->
             IF i \in DOMAIN list
             THEN [job |-> list[i], expr |-> cronDisk[list[i]].expr] ELSE NoEntry]
        /\ entries' = [j \in CronJobs |->
             IF j \in Enabled THEN CHOOSE i \in DOMAIN list : list[i] = j ELSE 0]
        /\ cronOp' = [r \in CronRequests |-> NoOp]
        /\ cronRun' = [j \in CronJobs |-> "none"]
        /\ cronSpoilt' = {}
        /\ UNCHANGED <<cronDisk, cronBegun>>
  BY DEF CronRestart, Enabled
<1>2. OpTypes' /\ StoreTypes'
  BY <1>1 DEF CronTyped, OpTypes, StoreTypes, NoOp
<1>3. \A i \in DOMAIN list : list[i] \in CronJobs /\ cronDisk[list[i]].expr \in CronExprs
  BY DEF Enabled, CronTyped, StoreTypes, JobType
<1>4. LiveTypes'
  BY <1>1, <1>3 DEF LiveTypes
<1>5. TableTypes'
  <2>1. (\A j \in Enabled : \E i \in DOMAIN list : list[i] = j) /\ DOMAIN list \subseteq EntryIds
    BY <1>1, EnabledListed
  <2>2. entries' \in [CronJobs -> EntryIds \cup {0}]
    BY <1>1, <2>1
  <2> QED BY <1>1, <2>2 DEF CronTyped, TableTypes
<1> QED BY <1>0, <1>2, <1>4, <1>5 DEF CronTyped
LEMMA CronTypeStep == ASSUME CronTyped, [CronNext]_CronVars PROVE CronTyped'
<1>0. CronShape'
  BY ShapeStep DEF CronTyped
<1>1. CASE UNCHANGED CronVars
  BY <1>0, <1>1 DEF CronVars, CronTyped, StoreTypes, LiveTypes, TableTypes, OpTypes
<1>2. ASSUME NEW r \in CronRequests, CronBegin(r) PROVE CronTyped'
  <2>1. OpTypes'
    BY <1>2 DEF CronBegin, CronTyped, CronShape, OpTypes, CronValues
  <2>2. TableTypes'
    BY <1>2, CronBounds DEF CronBegin, CronTyped, TableTypes
  <2>3. StoreTypes' /\ LiveTypes'
    BY <1>2 DEF CronBegin, CronTyped, StoreTypes, LiveTypes
  <2> QED BY <1>0, <2>1, <2>2, <2>3 DEF CronTyped
<1>3. ASSUME NEW i \in EntryIds, CronFire(i) PROVE CronTyped'
  BY <1>0, <1>3 DEF CronFire, CronTyped, StoreTypes, LiveTypes, TableTypes, OpTypes
<1>4. ASSUME NEW j \in CronJobs, CronMarkRun(j) PROVE CronTyped'
  BY <1>0, <1>4 DEF CronMarkRun, CronTyped, StoreTypes, LiveTypes, TableTypes, OpTypes
<1> QED BY <1>1, <1>2, <1>3, <1>4, WriteTypes, RenameTypes, ScheduleTypes, RestartTypes DEF CronNext

LEMMA CronTypesOK == CronTyped => CronTypeOK
BY DEF CronTyped, StoreTypes, LiveTypes, TableTypes, CronTypeOK, JobType
\* The schedule, the store and the file keep their types: what an operation writes is a
\* job, what it schedules an expression of one, whatever restarts in between.
LEMMA CronTypes == CronInit /\ [][CronNext]_CronVars => []CronTypeOK
BY CronTypeStart, CronTypeStep, CronTypesOK, PTL
=============================================================================
