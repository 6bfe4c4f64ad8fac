---------------------------- MODULE SessionStore ----------------------------
(***************************************************************************)
(* The SessionManager of core/session.go and the file it keeps.            *)
(*                                                                         *)
(* Operations on the tables hold sm.mu, the write of the file included.    *)
(* Save, which every turn calls, only reads the tables and holds a read    *)
(* lock: several of them overlap, and the agent session ids, which are     *)
(* under each Session's own lock, change meanwhile.  AtomicWriteFile makes *)
(* a write a rename: the file is an old snapshot or the new one.           *)
(***************************************************************************)
EXTENDS Naturals, FiniteSets

CONSTANTS
  Users,       \* session keys
  SidMax,      \* bound: sessions created
  AgentIds,    \* agent session ids
  Savers,      \* goroutines that call Save
  SmOpsMax     \* bound: changes of the tables or of an id

ASSUME SmBounds == SidMax \in Nat /\ SmOpsMax \in Nat

VARIABLES
  tables,    \* sessions (their ids and owners), activeSession and counter
  idOf,      \* Session.AgentSessionID
  pastOf,    \* Session.PastAgentSessionIDs
  smFile,    \* the file: a snapshot
  saving,    \* per Saver: the snapshot it has taken, if any (a set)
  smFailed,  \* a write failed since the last one that did not (history)
  floor,     \* what was known when the first of the Saves in flight began (history)
  smOps      \* changes so far

SmVars == <<tables, idOf, pastOf, smFile, saving, smFailed, floor, smOps>>

Sids == 1 .. SidMax
Nobody == "nobody"     \* the owner of a session that does not exist
NoId   == "none"       \* no agent session id

ASSUME UsersNamed == Nobody \notin Users

Known(ids, past, s) == past[s] \cup ({ids[s]} \ {NoId})

\* Mutant: the deep copy of a Session leaves out its past ids.
SnapshotNoPast == [tables |-> tables, ids |-> idOf, past |-> [s \in Sids |-> {}]]

\* saveLocked: what it reads of the tables and, session by session, of the ids
Snapshot == [tables |-> tables, ids |-> idOf, past |-> pastOf]

SmInit ==
  /\ tables = [owner |-> [s \in Sids |-> Nobody], active |-> [u \in Users |-> 0],
               counter |-> 0]
  /\ idOf = [s \in Sids |-> NoId] /\ pastOf = [s \in Sids |-> {}]
  /\ smFile = Snapshot
  /\ saving = [r \in Savers |-> {}]
  /\ smFailed = FALSE
  /\ floor = [s \in Sids |-> {}]
  /\ smOps = 0

-----------------------------------------------------------------------------
(* The tables *)

Exists(s) == tables.owner[s] # Nobody
InFlight  == {r \in Savers : saving[r] # {}}
Change    == smOps < SmOpsMax /\ smOps' = smOps + 1

\* The write at the end of an operation, under the same lock.
SaveTables ==
  \/ /\ smFile' = [tables |-> tables', ids |-> idOf', past |-> pastOf']
     /\ smFailed' = FALSE
  \/ UNCHANGED smFile /\ smFailed' = TRUE

\* Mutant: the operations take the read lock as well.
LockedBesideSaves == Change /\ UNCHANGED <<saving, floor>>

\* Lock: waits for every Save.
Locked == InFlight = {} /\ Change /\ UNCHANGED <<saving, floor>>

\* createLocked and NewSideSession, which leaves the active session alone
Create(u, activate) ==
  LET s == tables.counter + 1
  IN  /\ s \in Sids
      /\ tables' = [owner   |-> [tables.owner EXCEPT ![s] = u],
                    active  |-> IF activate THEN [tables.active EXCEPT ![u] = s]
                                ELSE tables.active,
                    counter |-> s]

GetOrCreateActive(u) ==
  /\ Locked
  /\ tables.active[u] = 0
  /\ Create(u, TRUE)
  /\ UNCHANGED <<idOf, pastOf>>
  /\ SaveTables

NewSession(u) ==
  /\ Locked
  /\ \E activate \in BOOLEAN : Create(u, activate)
  /\ UNCHANGED <<idOf, pastOf>>
  /\ SaveTables

\* SwitchSession, by id or name
SwitchSession(u, s) ==
  /\ Locked
  /\ tables.owner[s] = u
  /\ tables' = [tables EXCEPT !.active[u] = s]
  /\ UNCHANGED <<idOf, pastOf>>
  /\ SaveTables

\* SwitchToAgentSession: the user's session with that id, or a new one for it
SwitchToAgentSession(u, id) ==
  /\ Locked
  /\ \/ \E s \in Sids :
          /\ tables.owner[s] = u /\ idOf[s] = id
          /\ tables' = [tables EXCEPT !.active[u] = s]
          /\ UNCHANGED idOf
     \/ /\ \A s \in Sids : ~(tables.owner[s] = u /\ idOf[s] = id)
        /\ Create(u, TRUE)
        /\ idOf' = [idOf EXCEPT ![tables.counter + 1] = id]
  /\ UNCHANGED pastOf
  /\ SaveTables

\* Mutant: the deleted session stays the active one.
DeleteKeepsActive(gone) ==
  /\ tables' = [tables EXCEPT !.owner = [s \in Sids |-> IF s \in gone THEN Nobody
                                                        ELSE tables.owner[s]]]
  /\ idOf' = [s \in Sids |-> IF s \in gone THEN NoId ELSE idOf[s]]
  /\ pastOf' = [s \in Sids |-> IF s \in gone THEN {} ELSE pastOf[s]]

\* deleteByIDLocked, for each session in gone
Delete(gone) ==
  /\ tables' = [tables EXCEPT
       !.owner  = [s \in Sids |-> IF s \in gone THEN Nobody ELSE tables.owner[s]],
       !.active = [u \in Users |-> IF tables.active[u] \in gone THEN 0
                                   ELSE tables.active[u]]]
  /\ idOf' = [s \in Sids |-> IF s \in gone THEN NoId ELSE idOf[s]]
  /\ pastOf' = [s \in Sids |-> IF s \in gone THEN {} ELSE pastOf[s]]

DeleteByID(s) == Locked /\ Exists(s) /\ Delete({s}) /\ SaveTables

DeleteByAgentSessionID(id) ==
  LET gone == {s \in Sids : Exists(s) /\ idOf[s] = id}
  IN  Locked /\ gone # {} /\ Delete(gone) /\ SaveTables

-----------------------------------------------------------------------------
(* The ids of a Session, under its own lock *)

\* Mutant: a replaced id is forgotten.
ReplaceId(s, id) ==
  /\ idOf' = [idOf EXCEPT ![s] = id]
  /\ UNCHANGED pastOf

\* recordPastAgentSessionID and the assignment of SetAgentSessionID, SetAgentInfo
SetId(s, id) ==
  /\ idOf' = [idOf EXCEPT ![s] = id]
  /\ pastOf' = [pastOf EXCEPT ![s] = IF idOf[s] \in {NoId, id} THEN @ ELSE @ \cup {idOf[s]}]

\* A turn, a relay, /new or a switch of the provider replaces or clears the id.
SetAgentSessionID(s, id) ==
  /\ Exists(s) /\ idOf[s] # id
  /\ Change
  /\ SetId(s, id)
  /\ UNCHANGED <<tables, smFile, saving, smFailed, floor>>

\* CompareAndSetAgentSessionID keeps an id that is there.
CompareAndSet(s, id) ==
  /\ Exists(s) /\ idOf[s] = NoId
  /\ Change
  /\ idOf' = [idOf EXCEPT ![s] = id]
  /\ UNCHANGED <<tables, pastOf, smFile, saving, smFailed, floor>>

\* InvalidateForAgent, at start-up after a change of the agent type: the sessions of
\* other types lose their ids, under sm.mu.
InvalidateForAgent(stale) ==
  /\ Locked
  /\ stale # {} /\ \A s \in stale : Exists(s) /\ idOf[s] # NoId
  /\ idOf' = [s \in Sids |-> IF s \in stale THEN NoId ELSE idOf[s]]
  /\ pastOf' = [s \in Sids |-> IF s \in stale THEN pastOf[s] \cup {idOf[s]} ELSE pastOf[s]]
  /\ UNCHANGED tables
  /\ SaveTables

-----------------------------------------------------------------------------
(* Save, load *)

\* Save takes the read lock and its snapshot ...
SaveBegin(r) ==
  /\ saving[r] = {}
  /\ saving' = [saving EXCEPT ![r] = {Snapshot}]
  /\ floor' = IF InFlight = {} THEN [s \in Sids |-> Known(idOf, pastOf, s)] ELSE floor
  /\ UNCHANGED <<tables, idOf, pastOf, smFile, smFailed, smOps>>

\* ... and renames its file over the old one, in whatever order.
SaveRename(r) ==
  /\ saving[r] # {}
  /\ \/ smFile' \in saving[r] /\ smFailed' = FALSE
     \/ UNCHANGED smFile /\ smFailed' = TRUE
  /\ saving' = [saving EXCEPT ![r] = {}]
  /\ UNCHANGED <<tables, idOf, pastOf, floor, smOps>>

\* The process ends anywhere; NewSessionManager loads the file.
SmRestart ==
  /\ tables' = smFile.tables /\ idOf' = smFile.ids /\ pastOf' = smFile.past
  /\ saving' = [r \in Savers |-> {}]
  /\ smFailed' = FALSE
  /\ floor' = [s \in Sids |-> {}]
  /\ UNCHANGED <<smFile, smOps>>

SmNext ==
  \/ \E u \in Users :
       \/ GetOrCreateActive(u) \/ NewSession(u)
       \/ \E s \in Sids : SwitchSession(u, s)
       \/ \E id \in AgentIds : SwitchToAgentSession(u, id)
  \/ \E s \in Sids :
       \/ DeleteByID(s)
       \/ \E id \in AgentIds \cup {NoId} : SetAgentSessionID(s, id)
       \/ \E id \in AgentIds : CompareAndSet(s, id)
  \/ \E id \in AgentIds : DeleteByAgentSessionID(id)
  \/ \E stale \in SUBSET Sids : InvalidateForAgent(stale)
  \/ \E r \in Savers : SaveBegin(r) \/ SaveRename(r)
  \/ SmRestart

SmSpec == SmInit /\ [][SmNext]_SmVars

-----------------------------------------------------------------------------
(* Properties *)

TablesOK(t) ==
  /\ t.owner \in [Sids -> Users \cup {Nobody}]
  /\ t.active \in [Users -> Sids \cup {0}]
  /\ t.counter \in 0 .. SidMax

SmTypeOK ==
  /\ TablesOK(tables) /\ TablesOK(smFile.tables)
  /\ {idOf, smFile.ids} \subseteq [Sids -> AgentIds \cup {NoId}]
  /\ {pastOf, smFile.past} \subseteq [Sids -> SUBSET AgentIds]
  /\ smFailed \in BOOLEAN /\ smOps \in 0 .. SmOpsMax

\* The active session of a user is a session of that user which exists, in memory
\* and in the file, whatever was created, switched, deleted and reloaded; and an id
\* s1, s2, ... in use is never given out again.
Owned(t) ==
  /\ \A u \in Users : t.active[u] # 0 => t.owner[t.active[u]] = u
  /\ \A s \in Sids : t.owner[s] # Nobody => s <= t.counter
ActiveOwned == Owned(tables) /\ Owned(smFile.tables)

\* Save cannot bring back a deleted session nor lose a new one: unless the last write
\* failed, the tables in the file are those in memory, also while Saves overlap.
FileHasTables == ~smFailed => smFile.tables = tables

\* Overlapping Saves may leave the older snapshot in the file, but none that is older
\* than all of them: once they are over, the file knows every agent session id that
\* the sessions had when the first one began.
SaveBurst == InFlight = {} /\ ~smFailed =>
  \A s \in Sids : Exists(s) => floor[s] \subseteq Known(smFile.ids, smFile.past, s)

\* An agent session that was ever one of ours stays one of ours, so that /list does
\* not take it for a session of the external CLI.
KnownForever == [][smOps' # smOps =>
  \A s \in Sids : Exists(s) /\ tables'.owner[s] # Nobody
    => Known(idOf, pastOf, s) \subseteq Known(idOf', pastOf', s)]_SmVars
=============================================================================
