------------------------ MODULE SessionStore_proofs ------------------------
(***************************************************************************)
(* Proofs about the tables of the SessionManager and the file: the active  *)
(* session exists, overlapping Saves leave the tables' last state, and the *)
(* agent session ids known when the first of them began; no id is lost.    *)
(***************************************************************************)
EXTENDS SessionStore, TLAPS

Good(t) == TablesOK(t) /\ Owned(t)

\* Every snapshot in flight has the present tables: an operation waits for them.
StoreInv ==
  /\ DOMAIN saving = Savers
  /\ Good(tables) /\ Good(smFile.tables)
  /\ \A r \in Savers : \A snap \in saving[r] : snap.tables = tables
  /\ FileHasTables

\* Every operation on the tables leaves good ones.
LEMMA CreateGood ==
  ASSUME NEW u \in Users, NEW activate \in BOOLEAN, Good(tables), Create(u, activate)
  PROVE  Good(tables')
<1> DEFINE s == tables.counter + 1
<1>1. /\ s \in Sids
      /\ tables'.owner = [tables.owner EXCEPT ![s] = u]
      /\ tables'.active = IF activate THEN [tables.active EXCEPT ![u] = s]
                          ELSE tables.active
      /\ tables'.counter = s
  BY DEF Create
<1>2. TablesOK(tables')
  BY <1>1, SmBounds DEF Good, TablesOK, Sids
<1>3. ASSUME NEW v \in Users, tables'.active[v] # 0
      PROVE  tables'.owner[tables'.active[v]] = v
  <2>1. tables.owner[s] = Nobody
    BY <1>1, SmBounds DEF Good, TablesOK, Owned, Sids
  <2>2. tables.active[v] # s \/ tables.active[v] = 0
    BY <1>1, <2>1, UsersNamed DEF Good, TablesOK, Owned, Sids
  <2> QED BY <1>1, <1>3, <2>2 DEF Good, TablesOK, Owned
<1>4. ASSUME NEW k \in Sids, tables'.owner[k] # Nobody PROVE k <= tables'.counter
  BY <1>1, <1>4, SmBounds DEF Good, TablesOK, Owned, Sids
<1> QED BY <1>2, <1>3, <1>4 DEF Good, Owned

LEMMA SwitchGood ==
  ASSUME NEW u \in Users, NEW s \in Sids, Good(tables), tables.owner[s] = u,
         tables' = [tables EXCEPT !.active[u] = s]
  PROVE  Good(tables')
<1>1. /\ tables'.owner = tables.owner
      /\ tables'.active = [tables.active EXCEPT ![u] = s]
      /\ tables'.counter = tables.counter
  BY DEF Good, TablesOK
<1> QED BY <1>1 DEF Good, TablesOK, Owned

LEMMA DeleteGood ==
  ASSUME NEW gone, Good(tables), Delete(gone)
  PROVE  Good(tables')
<1>1. /\ tables'.owner = [s \in Sids |-> IF s \in gone THEN Nobody ELSE tables.owner[s]]
      /\ tables'.active = [u \in Users |-> IF tables.active[u] \in gone THEN 0
                                           ELSE tables.active[u]]
      /\ tables'.counter = tables.counter
  BY DEF Delete, Good, TablesOK
<1>2. TablesOK(tables')
  BY <1>1 DEF Good, TablesOK
<1>3. ASSUME NEW u \in Users, tables'.active[u] # 0
      PROVE  tables'.owner[tables'.active[u]] = u
  BY <1>1, <1>3 DEF Good, TablesOK, Owned
<1>4. ASSUME NEW s \in Sids, tables'.owner[s] # Nobody PROVE s <= tables'.counter
  BY <1>1, <1>4 DEF Good, Owned
<1> QED BY <1>2, <1>3, <1>4 DEF Good, Owned

\* An operation that holds the lock leaves good tables in memory and in the file.
LEMMA LockedStep ==
  ASSUME StoreInv, Locked, SaveTables, Good(tables')
  PROVE  StoreInv'
<1>1. smFile'.tables = tables' \/ (smFile' = smFile /\ smFailed')
  BY DEF SaveTables
<1>2. \A r \in Savers : saving'[r] = {}
  BY DEF Locked, InFlight
<1> QED BY <1>1, <1>2 DEF StoreInv, Locked, FileHasTables

LEMMA StoreStep == ASSUME StoreInv, [SmNext]_SmVars PROVE StoreInv'
<1>1. CASE UNCHANGED SmVars
  BY <1>1 DEF SmVars, StoreInv, Good, TablesOK, Owned, FileHasTables
<1>2. ASSUME NEW u \in Users, GetOrCreateActive(u) PROVE StoreInv'
  <2>1. Good(tables')
    BY <1>2, CreateGood DEF GetOrCreateActive, StoreInv
  <2> QED BY <1>2, <2>1, LockedStep DEF GetOrCreateActive
<1>3. ASSUME NEW u \in Users, NewSession(u) PROVE StoreInv'
  <2>1. Good(tables')
    BY <1>3, CreateGood DEF NewSession, StoreInv
  <2> QED BY <1>3, <2>1, LockedStep DEF NewSession
<1>4. ASSUME NEW u \in Users, NEW s \in Sids, SwitchSession(u, s) PROVE StoreInv'
  <2>1. Good(tables')
    BY <1>4, SwitchGood DEF SwitchSession, StoreInv
  <2> QED BY <1>4, <2>1, LockedStep DEF SwitchSession
<1>5. ASSUME NEW u \in Users, NEW id \in AgentIds, SwitchToAgentSession(u, id)
      PROVE  StoreInv'
  <2>1. Good(tables')
    <3>1. ASSUME NEW s \in Sids, tables.owner[s] = u,
                 tables' = [tables EXCEPT !.active[u] = s]
          PROVE  Good(tables')
      BY <3>1, SwitchGood DEF StoreInv
    <3>2. ASSUME Create(u, TRUE) PROVE Good(tables')
      BY <3>2, CreateGood DEF StoreInv
    <3> QED BY <1>5, <3>1, <3>2 DEF SwitchToAgentSession
  <2> QED BY <1>5, <2>1, LockedStep DEF SwitchToAgentSession
<1>6. ASSUME NEW s \in Sids, DeleteByID(s) PROVE StoreInv'
  <2>1. Good(tables')
    BY <1>6, DeleteGood DEF DeleteByID, StoreInv
  <2> QED BY <1>6, <2>1, LockedStep DEF DeleteByID
<1>7. ASSUME NEW id \in AgentIds, DeleteByAgentSessionID(id) PROVE StoreInv'
  <2>1. Good(tables')
    BY <1>7, DeleteGood DEF DeleteByAgentSessionID, StoreInv
  <2> QED BY <1>7, <2>1, LockedStep DEF DeleteByAgentSessionID
<1>8. ASSUME NEW stale \in SUBSET Sids, InvalidateForAgent(stale) PROVE StoreInv'
  <2>1. Good(tables')
    BY <1>8 DEF InvalidateForAgent, StoreInv, Good, TablesOK, Owned
  <2> QED BY <1>8, <2>1, LockedStep DEF InvalidateForAgent
<1>9. ASSUME UNCHANGED <<tables, smFile, saving, smFailed>> PROVE StoreInv'
  BY <1>9 DEF StoreInv, Good, TablesOK, Owned, FileHasTables
<1>10. ASSUME NEW s \in Sids, NEW id, SetAgentSessionID(s, id) \/ CompareAndSet(s, id)
       PROVE  StoreInv'
  BY <1>9, <1>10 DEF SetAgentSessionID, CompareAndSet
<1>11. ASSUME NEW r \in Savers, SaveBegin(r) PROVE StoreInv'
  <2>1. Snapshot.tables = tables
    BY DEF Snapshot
  <2>2. \A k \in Savers : saving'[k] = saving[k] \/ saving'[k] = {Snapshot}
    BY <1>11 DEF SaveBegin, StoreInv
  <2> QED BY <1>11, <2>1, <2>2
          DEF SaveBegin, StoreInv, Good, TablesOK, Owned, FileHasTables
<1>12. ASSUME NEW r \in Savers, SaveRename(r) PROVE StoreInv'
  <2>1. smFile' \in saving[r] \/ (smFile' = smFile /\ smFailed')
    BY <1>12 DEF SaveRename
  <2>2. smFile'.tables = tables \/ (smFile' = smFile /\ smFailed')
    BY <2>1 DEF StoreInv
  <2>3. \A k \in Savers : saving'[k] \subseteq saving[k]
    BY <1>12 DEF SaveRename, StoreInv
  <2>4. tables' = tables /\ DOMAIN saving' = Savers
    BY <1>12 DEF SaveRename, StoreInv
  <2> QED BY <2>2, <2>3, <2>4 DEF StoreInv, FileHasTables, Good, TablesOK, Owned
<1>13. CASE SmRestart
  BY <1>13 DEF SmRestart, StoreInv, FileHasTables, Good, TablesOK, Owned
<1> QED BY <1>1, <1>2, <1>3, <1>4, <1>5, <1>6, <1>7, <1>8, <1>10, <1>11, <1>12, <1>13
        DEF SmNext

LEMMA StoreStart == SmInit => StoreInv
BY SmBounds DEF SmInit, Snapshot, StoreInv, Good, TablesOK, Owned, FileHasTables, Sids

\* Whatever is created, switched, deleted, saved and reloaded, the active session of a
\* user is one of that user's sessions, in memory and in the file.
THEOREM ActiveIsOwned == SmSpec => []ActiveOwned
<1>1. StoreInv => ActiveOwned
  BY DEF StoreInv, Good, ActiveOwned
<1> QED BY <1>1, StoreStart, StoreStep, PTL DEF SmSpec

\* However Saves overlap, the file has the tables of the memory unless the last write
\* failed.
THEOREM TablesInFile == SmSpec => []FileHasTables
<1>1. StoreInv => FileHasTables
  BY DEF StoreInv
<1> QED BY <1>1, StoreStart, StoreStep, PTL DEF SmSpec

-----------------------------------------------------------------------------
(* The agent session ids that overlapping Saves leave in the file *)

\* A session that was never created has no ids, in memory, in a snapshot, in the file.
IdsOK(snap) ==
  /\ DOMAIN snap.ids = Sids /\ DOMAIN snap.past = Sids
  /\ \A s \in Sids : s > snap.tables.counter => Known(snap.ids, snap.past, s) = {}

\* What the first Save in flight found is known to a snapshot.
Covers(snap) ==
  \A s \in Sids : Exists(s) => floor[s] \subseteq Known(snap.ids, snap.past, s)

\* What makes SaveBurst inductive: every snapshot in flight knows what the first one
\* began with, and so does the memory, since ids are replaced but never forgotten.
BurstInv ==
  /\ StoreInv /\ SaveBurst
  /\ IdsOK(Snapshot) /\ Covers(Snapshot)
  /\ IdsOK(smFile)
  /\ \A r \in Savers : \A snap \in saving[r] : IdsOK(snap) /\ Covers(snap)
  /\ \A s \in Sids : s > tables.counter => floor[s] = {}

\* Ids of sessions are given out in order.
LEMMA NeverMade == ASSUME BurstInv PROVE \A s \in Sids : s > tables.counter => ~Exists(s)
<1>1. tables.counter \in Nat /\ Sids \subseteq Nat
  BY SmBounds DEF BurstInv, StoreInv, Good, TablesOK, Sids
<1>2. \A s \in Sids : Exists(s) => s <= tables.counter
  BY DEF BurstInv, StoreInv, Good, Owned, Exists
<1> QED BY <1>1, <1>2

\* An operation that holds the lock, once it is known to keep the ids.
LEMMA LockedBurst ==
  ASSUME BurstInv, Locked, SaveTables, StoreInv', IdsOK(Snapshot)', Covers(Snapshot)',
         \A s \in Sids : s > tables'.counter => floor[s] = {}
  PROVE  BurstInv'
<1>1. \/ smFile' = Snapshot' /\ ~smFailed'
      \/ smFile' = smFile /\ smFailed'
  BY DEF SaveTables, Snapshot
<1>2. \A r \in Savers : saving'[r] = {}
  BY DEF Locked, InFlight
<1>3. floor' = floor
  BY DEF Locked
<1>4. IdsOK(smFile)'
  BY <1>1 DEF BurstInv, IdsOK
<1>5. SaveBurst'
  <2>1. CASE smFile' = Snapshot' /\ ~smFailed'
    BY <2>1 DEF SaveBurst, Covers
  <2>2. CASE smFailed'
    BY <2>2 DEF SaveBurst
  <2> QED BY <1>1, <2>1, <2>2
<1> QED BY <1>2, <1>3, <1>4, <1>5 DEF BurstInv

\* Sessions keep what is known of them, or go.
LEMMA KeepsIds ==
  ASSUME BurstInv, floor' = floor, tables'.counter = tables.counter,
         DOMAIN idOf' = Sids, DOMAIN pastOf' = Sids,
         \A s \in Sids :
           IF tables'.owner[s] = Nobody
           THEN Known(idOf', pastOf', s) \subseteq Known(idOf, pastOf, s)
           ELSE Exists(s) /\ Known(idOf, pastOf, s) \subseteq Known(idOf', pastOf', s),
         \A s \in Sids : s > tables.counter => tables'.owner[s] = Nobody
  PROVE  /\ IdsOK(Snapshot)' /\ Covers(Snapshot)'
         /\ \A s \in Sids : s > tables'.counter => floor[s] = {}
<1>1. /\ Snapshot.ids = idOf /\ Snapshot.past = pastOf /\ Snapshot.tables = tables
      /\ Snapshot'.ids = idOf' /\ Snapshot'.past = pastOf' /\ Snapshot'.tables = tables'
  BY DEF Snapshot
<1>2. IdsOK(Snapshot)'
  BY <1>1 DEF BurstInv, IdsOK
<1>3. Covers(Snapshot)'
  BY <1>1 DEF BurstInv, Covers, Exists
<1> QED BY <1>2, <1>3 DEF BurstInv

\* A session is created, perhaps with an id.
LEMMA CreateIds ==
  ASSUME BurstInv, NEW u \in Users, NEW activate \in BOOLEAN, Create(u, activate),
         floor' = floor, pastOf' = pastOf,
         \/ idOf' = idOf
         \/ \E id : idOf' = [idOf EXCEPT ![tables.counter + 1] = id]
  PROVE  /\ IdsOK(Snapshot)' /\ Covers(Snapshot)'
         /\ \A s \in Sids : s > tables'.counter => floor[s] = {}
<1> DEFINE new == tables.counter + 1
<1>1. /\ Snapshot.ids = idOf /\ Snapshot.past = pastOf /\ Snapshot.tables = tables
      /\ Snapshot'.ids = idOf' /\ Snapshot'.past = pastOf' /\ Snapshot'.tables = tables'
  BY DEF Snapshot
<1>2. /\ new \in Sids /\ tables'.owner = [tables.owner EXCEPT ![new] = u]
      /\ tables'.counter = new /\ tables.counter \in Nat /\ Sids \subseteq Nat
      /\ DOMAIN tables.owner = Sids /\ DOMAIN idOf = Sids
  BY <1>1, SmBounds DEF Create, BurstInv, StoreInv, Good, TablesOK, Sids, IdsOK
<1>3. \A s \in Sids \ {new} : /\ Known(idOf', pastOf', s) = Known(idOf, pastOf, s)
                              /\ tables'.owner[s] = tables.owner[s]
  BY <1>2 DEF Known
<1>4. IdsOK(Snapshot)'
  <2>1. DOMAIN idOf' = Sids /\ DOMAIN pastOf' = Sids
    BY <1>1, <1>2 DEF BurstInv, IdsOK
  <2>2. \A s \in Sids : s > tables'.counter => Known(idOf', pastOf', s) = {}
    BY <1>1, <1>2, <1>3 DEF BurstInv, IdsOK
  <2> QED BY <1>1, <2>1, <2>2 DEF IdsOK
<1>5. Covers(Snapshot)'
  <2>1. floor[new] = {}
    BY <1>2 DEF BurstInv
  <2>2. \A s \in Sids \ {new} : Exists(s)' => floor[s] \subseteq Known(idOf', pastOf', s)
    BY <1>1, <1>3 DEF BurstInv, Covers, Exists
  <2> QED BY <1>1, <2>1, <2>2 DEF Covers
<1>6. \A s \in Sids : s > tables'.counter => floor[s] = {}
  <2>1. \A s \in Sids : s > tables'.counter => s > tables.counter
    BY <1>2
  <2> QED BY <2>1 DEF BurstInv
<1> QED BY <1>4, <1>5, <1>6

\* Sessions are deleted.
LEMMA DeleteIds ==
  ASSUME BurstInv, NEW gone, Delete(gone), floor' = floor
  PROVE  /\ IdsOK(Snapshot)' /\ Covers(Snapshot)'
         /\ \A s \in Sids : s > tables'.counter => floor[s] = {}
<1>1. /\ tables'.owner = [s \in Sids |-> IF s \in gone THEN Nobody ELSE tables.owner[s]]
      /\ tables'.counter = tables.counter
  BY DEF Delete, BurstInv, StoreInv, Good, TablesOK
<1>2. /\ idOf' = [s \in Sids |-> IF s \in gone THEN NoId ELSE idOf[s]]
      /\ pastOf' = [s \in Sids |-> IF s \in gone THEN {} ELSE pastOf[s]]
  BY DEF Delete
<1>3. \A s \in Sids : IF s \in gone THEN Known(idOf', pastOf', s) = {}
                      ELSE Known(idOf', pastOf', s) = Known(idOf, pastOf, s)
  BY <1>2 DEF Known
<1>4. \A s \in Sids : s > tables.counter => tables.owner[s] = Nobody
  BY NeverMade DEF Exists
<1>5. \A s \in Sids :
        IF tables'.owner[s] = Nobody
        THEN Known(idOf', pastOf', s) \subseteq Known(idOf, pastOf, s)
        ELSE Exists(s) /\ Known(idOf, pastOf, s) \subseteq Known(idOf', pastOf', s)
  BY <1>1, <1>3 DEF Exists
<1> QED BY <1>1, <1>2, <1>4, <1>5, KeepsIds

\* An id is set beside the Saves, or nothing happens to the ids.
LEMMA SetIds ==
  ASSUME BurstInv, UNCHANGED <<tables, smFile, saving, smFailed, floor>>, StoreInv',
         DOMAIN idOf' = Sids, DOMAIN pastOf' = Sids,
         \A s \in Sids :
           IF Exists(s) THEN Known(idOf, pastOf, s) \subseteq Known(idOf', pastOf', s)
           ELSE Known(idOf', pastOf', s) = Known(idOf, pastOf, s)
  PROVE  BurstInv'
<1>1. /\ Snapshot.ids = idOf /\ Snapshot.past = pastOf /\ Snapshot.tables = tables
      /\ Snapshot'.ids = idOf' /\ Snapshot'.past = pastOf' /\ Snapshot'.tables = tables
  BY DEF Snapshot
<1>2. \A s \in Sids : s > tables.counter => ~Exists(s)
  BY NeverMade
<1>3. IdsOK(Snapshot)'
  BY <1>1, <1>2 DEF BurstInv, IdsOK
<1>4. Covers(Snapshot)'
  BY <1>1 DEF BurstInv, Covers, Exists
<1>5. SaveBurst'
  BY DEF BurstInv, SaveBurst, InFlight, Exists
<1>6. \A r \in Savers : \A snap \in saving[r] : IdsOK(snap)' /\ Covers(snap)'
  BY DEF BurstInv, IdsOK, Covers, Exists
<1> QED BY <1>3, <1>4, <1>5, <1>6 DEF BurstInv, IdsOK

\* Every step keeps the invariant.
LEMMA BurstStep == ASSUME BurstInv, [SmNext]_SmVars PROVE BurstInv'
<1>0. /\ StoreInv' /\ tables.counter \in Nat /\ Sids \subseteq Nat
      /\ DOMAIN idOf = Sids /\ DOMAIN pastOf = Sids /\ DOMAIN saving = Savers
  BY StoreStep, SmBounds DEF BurstInv, StoreInv, Good, TablesOK, Sids, IdsOK, Snapshot
<1>1. CASE UNCHANGED SmVars
  BY <1>0, <1>1, SetIds DEF SmVars, Known
<1>2. ASSUME NEW u \in Users, GetOrCreateActive(u) PROVE BurstInv'
  <2>1. Locked /\ SaveTables /\ Create(u, TRUE) /\ UNCHANGED <<idOf, pastOf, floor>>
    BY <1>2 DEF GetOrCreateActive, Locked
  <2> QED BY <1>0, <2>1, CreateIds, LockedBurst
<1>3. ASSUME NEW u \in Users, NewSession(u) PROVE BurstInv'
  <2>1. /\ Locked /\ SaveTables /\ UNCHANGED <<idOf, pastOf, floor>>
        /\ \E activate \in BOOLEAN : Create(u, activate)
    BY <1>3 DEF NewSession, Locked
  <2> QED BY <1>0, <2>1, CreateIds, LockedBurst
<1>4. ASSUME NEW u \in Users, NEW new \in Sids, tables' = [tables EXCEPT !.active[u] = new],
             Locked, SaveTables, UNCHANGED <<idOf, pastOf>>
      PROVE  BurstInv'
  <2>1. tables'.owner = tables.owner /\ tables'.counter = tables.counter /\ floor' = floor
    BY <1>4 DEF BurstInv, StoreInv, Good, TablesOK, Locked
  <2>2. \A s \in Sids : s > tables.counter => tables.owner[s] = Nobody
    BY NeverMade DEF Exists
  <2>3. /\ IdsOK(Snapshot)' /\ Covers(Snapshot)'
        /\ \A s \in Sids : s > tables'.counter => floor[s] = {}
    BY <1>0, <1>4, <2>1, <2>2, KeepsIds DEF Exists
  <2> QED BY <1>0, <1>4, <2>3, LockedBurst
<1>5. ASSUME NEW u \in Users, NEW s \in Sids, SwitchSession(u, s) PROVE BurstInv'
  BY <1>4, <1>5 DEF SwitchSession
<1>6. ASSUME NEW u \in Users, NEW id \in AgentIds, SwitchToAgentSession(u, id)
      PROVE  BurstInv'
  <2>1. Locked /\ SaveTables /\ pastOf' = pastOf /\ floor' = floor
    BY <1>6 DEF SwitchToAgentSession, Locked
  <2>2. ASSUME NEW s \in Sids, tables' = [tables EXCEPT !.active[u] = s], UNCHANGED idOf
        PROVE  BurstInv'
    BY <1>4, <2>1, <2>2
  <2>3. ASSUME Create(u, TRUE), idOf' = [idOf EXCEPT ![tables.counter + 1] = id]
        PROVE  BurstInv'
    BY <1>0, <2>1, <2>3, CreateIds, LockedBurst
  <2> QED BY <1>6, <2>2, <2>3 DEF SwitchToAgentSession
<1>7. ASSUME NEW gone, Delete(gone), Locked, SaveTables PROVE BurstInv'
  <2>1. floor' = floor
    BY <1>7 DEF Locked
  <2> QED BY <1>0, <1>7, <2>1, DeleteIds, LockedBurst
<1>8. ASSUME NEW stale \in SUBSET Sids, InvalidateForAgent(stale) PROVE BurstInv'
  <2>1. Locked /\ SaveTables /\ tables' = tables /\ floor' = floor
    BY <1>8 DEF InvalidateForAgent, Locked
  <2>2. /\ idOf' = [s \in Sids |-> IF s \in stale THEN NoId ELSE idOf[s]]
        /\ pastOf' = [s \in Sids |-> IF s \in stale THEN pastOf[s] \cup {idOf[s]}
                                     ELSE pastOf[s]]
        /\ \A s \in stale : Exists(s)
    BY <1>8 DEF InvalidateForAgent
  <2>3. \A s \in Sids : /\ Known(idOf, pastOf, s) \subseteq Known(idOf', pastOf', s)
                        /\ \/ s \in stale
                           \/ Known(idOf', pastOf', s) = Known(idOf, pastOf, s)
    BY <2>2 DEF Known
  <2>4. \A s \in Sids : s > tables.counter => tables.owner[s] = Nobody
    BY NeverMade DEF Exists
  <2>5. \A s \in Sids :
          IF tables'.owner[s] = Nobody
          THEN Known(idOf', pastOf', s) \subseteq Known(idOf, pastOf, s)
          ELSE Exists(s) /\ Known(idOf, pastOf, s) \subseteq Known(idOf', pastOf', s)
    BY <2>1, <2>2, <2>3 DEF Exists
  <2>6. /\ IdsOK(Snapshot)' /\ Covers(Snapshot)'
        /\ \A s \in Sids : s > tables'.counter => floor[s] = {}
    BY <2>1, <2>2, <2>4, <2>5, KeepsIds
  <2> QED BY <1>0, <2>1, <2>6, LockedBurst
<1>9. ASSUME NEW s \in Sids, NEW id, SetAgentSessionID(s, id) PROVE BurstInv'
  <2>1. /\ Exists(s) /\ idOf' = [idOf EXCEPT ![s] = id]
        /\ pastOf' = [pastOf EXCEPT ![s] = IF idOf[s] \in {NoId, id} THEN @
                                           ELSE @ \cup {idOf[s]}]
        /\ UNCHANGED <<tables, smFile, saving, smFailed, floor>>
    BY <1>9 DEF SetAgentSessionID, SetId
  <2>2. \A k \in Sids : IF Exists(k)
                        THEN Known(idOf, pastOf, k) \subseteq Known(idOf', pastOf', k)
                        ELSE Known(idOf', pastOf', k) = Known(idOf, pastOf, k)
    BY <1>0, <2>1 DEF Known
  <2> QED BY <1>0, <2>1, <2>2, SetIds
<1>10. ASSUME NEW s \in Sids, NEW id, CompareAndSet(s, id) PROVE BurstInv'
  <2>1. /\ Exists(s) /\ idOf[s] = NoId /\ idOf' = [idOf EXCEPT ![s] = id]
        /\ UNCHANGED <<pastOf, tables, smFile, saving, smFailed, floor>>
    BY <1>10 DEF CompareAndSet
  <2>2. \A k \in Sids : IF Exists(k)
                        THEN Known(idOf, pastOf, k) \subseteq Known(idOf', pastOf', k)
                        ELSE Known(idOf', pastOf', k) = Known(idOf, pastOf, k)
    BY <1>0, <2>1 DEF Known
  <2> QED BY <1>0, <2>1, <2>2, SetIds
<1>11. ASSUME NEW r \in Savers, SaveBegin(r) PROVE BurstInv'
  <2>1. /\ saving' = [saving EXCEPT ![r] = {Snapshot}]
        /\ floor' = IF InFlight = {} THEN [s \in Sids |-> Known(idOf, pastOf, s)] ELSE floor
        /\ UNCHANGED <<tables, idOf, pastOf, smFile, smFailed>> /\ saving[r] = {}
    BY <1>11 DEF SaveBegin
  <2>2. /\ Snapshot.ids = idOf /\ Snapshot.past = pastOf /\ Snapshot.tables = tables
        /\ Snapshot' = Snapshot
    BY <2>1 DEF Snapshot
  <2>3. Covers(Snapshot)'
    BY <2>1, <2>2 DEF BurstInv, Covers, Exists
  <2>4. SaveBurst'
    <3>1. r \in InFlight'
      BY <1>0, <2>1 DEF InFlight
    <3> QED BY <3>1 DEF SaveBurst
  <2>5. \A k \in Savers : \A snap \in saving'[k] : IdsOK(snap)' /\ Covers(snap)'
    <3>1. CASE InFlight = {}
      <4>1. \A k \in Savers \ {r} : saving'[k] = {}
        BY <1>0, <2>1, <3>1 DEF InFlight
      <4>2. saving'[r] = {Snapshot'}
        BY <1>0, <2>1, <2>2
      <4>3. IdsOK(Snapshot)'
        BY <2>1, <2>2 DEF BurstInv, IdsOK
      <4> QED BY <2>3, <4>1, <4>2, <4>3 DEF IdsOK, Covers
    <3>2. CASE InFlight # {}
      <4>1. floor' = floor /\ tables' = tables
        BY <2>1, <3>2
      <4>2. \A k \in Savers : \A snap \in saving'[k] : snap \in saving[k] \/ snap = Snapshot
        BY <1>0, <2>1
      <4> QED BY <4>1, <4>2 DEF BurstInv, IdsOK, Covers, Exists
    <3> QED BY <3>1, <3>2
  <2>6. \A s \in Sids : s > tables'.counter => floor'[s] = {}
    BY <2>1, <2>2 DEF BurstInv, IdsOK
  <2>7. IdsOK(Snapshot)' /\ IdsOK(smFile)'
    BY <2>1, <2>2 DEF BurstInv, IdsOK
  <2> QED BY <1>0, <2>3, <2>4, <2>5, <2>6, <2>7 DEF BurstInv
<1>12. ASSUME NEW r \in Savers, SaveRename(r) PROVE BurstInv'
  <2>1. /\ \/ smFile' \in saving[r] /\ smFailed' = FALSE
           \/ UNCHANGED smFile /\ smFailed' = TRUE
        /\ saving' = [saving EXCEPT ![r] = {}]
        /\ UNCHANGED <<tables, idOf, pastOf, floor>>
    BY <1>12 DEF SaveRename
  <2>2. \A k \in Savers : saving'[k] \subseteq saving[k]
    BY <1>0, <2>1
  <2>3. Snapshot' = Snapshot
    BY <2>1 DEF Snapshot
  <2>4. IdsOK(smFile)'
    BY <2>1 DEF BurstInv, IdsOK
  <2>5. SaveBurst'
    BY <2>1 DEF BurstInv, SaveBurst, Covers, Exists
  <2>6. IdsOK(Snapshot)' /\ Covers(Snapshot)'
    BY <2>1, <2>3 DEF BurstInv, IdsOK, Covers, Exists
  <2>7. \A k \in Savers : \A snap \in saving'[k] : IdsOK(snap)' /\ Covers(snap)'
    BY <2>1, <2>2 DEF BurstInv, IdsOK, Covers, Exists
  <2> QED BY <1>0, <2>1, <2>4, <2>5, <2>6, <2>7 DEF BurstInv
<1>13. CASE SmRestart
  <2>1. /\ tables' = smFile.tables /\ idOf' = smFile.ids /\ pastOf' = smFile.past
        /\ \A k \in Savers : saving'[k] = {}
        /\ \A s \in Sids : floor'[s] = {}
        /\ smFile' = smFile
    BY <1>13 DEF SmRestart
  <2>2. IdsOK(Snapshot)' /\ IdsOK(smFile)'
    BY <2>1 DEF BurstInv, IdsOK, Snapshot
  <2> QED BY <1>0, <2>1, <2>2 DEF BurstInv, SaveBurst, Covers
<1>14. QED
  BY <1>1, <1>2, <1>3, <1>5, <1>6, <1>7, <1>8, <1>9, <1>10, <1>11, <1>12, <1>13
     DEF SmNext, DeleteByID, DeleteByAgentSessionID

LEMMA BurstStart == SmInit => BurstInv
<1>1. SmInit => StoreInv
  BY StoreStart
<1> QED BY <1>1, SmBounds
        DEF SmInit, BurstInv, IdsOK, Covers, Snapshot, SaveBurst, Known, Sids

\* However Saves overlap with each other and with turns that replace ids, the file
\* knows every id that the sessions had when the first of them began.
THEOREM BurstIsKnown == SmSpec => []SaveBurst
<1>1. BurstInv => SaveBurst
  BY DEF BurstInv
<1> QED BY <1>1, BurstStart, BurstStep, PTL DEF SmSpec

\* An id that a session knows leaves it only with the session, or in a restart.
LEMMA KnowledgeStays ==
  ASSUME BurstInv, SmNext, smOps' # smOps, NEW s \in Sids, Exists(s), tables'.owner[s] # Nobody
  PROVE  Known(idOf, pastOf, s) \subseteq Known(idOf', pastOf', s)
<1>1. DOMAIN idOf = Sids /\ DOMAIN pastOf = Sids
  BY DEF BurstInv, IdsOK, Snapshot
<1>2. s # tables.counter + 1
  BY NeverMade, SmBounds DEF BurstInv, StoreInv, Good, TablesOK, Sids
<1>3. ASSUME NEW u \in Users,
             \/ GetOrCreateActive(u) \/ NewSession(u)
             \/ \E k \in Sids : SwitchSession(u, k)
             \/ \E id \in AgentIds : SwitchToAgentSession(u, id)
      PROVE  idOf'[s] = idOf[s] /\ pastOf'[s] = pastOf[s]
  BY <1>1, <1>2, <1>3 DEF GetOrCreateActive, NewSession, SwitchSession, SwitchToAgentSession
<1>4. ASSUME NEW gone, Delete(gone)
      PROVE  idOf'[s] = idOf[s] /\ pastOf'[s] = pastOf[s]
  <2>1. tables'.owner = [k \in Sids |-> IF k \in gone THEN Nobody ELSE tables.owner[k]]
    BY <1>4 DEF Delete, BurstInv, StoreInv, Good, TablesOK
  <2>2. s \notin gone
    BY <2>1
  <2> QED BY <1>4, <2>2 DEF Delete
<1>5. ASSUME NEW k \in Sids, NEW id, SetAgentSessionID(k, id) \/ CompareAndSet(k, id)
      PROVE  Known(idOf, pastOf, s) \subseteq Known(idOf', pastOf', s)
  BY <1>1, <1>5 DEF SetAgentSessionID, CompareAndSet, SetId, Known
<1>6. ASSUME NEW stale, InvalidateForAgent(stale)
      PROVE  Known(idOf, pastOf, s) \subseteq Known(idOf', pastOf', s)
  BY <1>6 DEF InvalidateForAgent, Known
<1>7. ASSUME NEW r \in Savers, SaveBegin(r) \/ SaveRename(r) PROVE FALSE
  BY <1>7 DEF SaveBegin, SaveRename
<1>8. ~SmRestart
  BY DEF SmRestart
<1> QED BY <1>3, <1>4, <1>5, <1>6, <1>7, <1>8
        DEF SmNext, DeleteByID, DeleteByAgentSessionID, Known

\* Whatever replaces, clears or invalidates the agent session id of a session, the
\* session does not forget it.
THEOREM NeverForgotten == SmSpec => KnownForever
<1>1. SmInit => BurstInv
  BY BurstStart
<1>2. BurstInv /\ [SmNext]_SmVars =>
        [smOps' # smOps =>
           \A s \in Sids : Exists(s) /\ tables'.owner[s] # Nobody
             => Known(idOf, pastOf, s) \subseteq Known(idOf', pastOf', s)]_SmVars
  BY KnowledgeStays DEF SmVars
<1> QED BY <1>1, <1>2, BurstStep, PTL DEF SmSpec, KnownForever

-----------------------------------------------------------------------------
(* Types *)

\* The ids of a snapshot, and of the memory, are agent session ids.
IdTypes(ids, past) ==
  ids \in [Sids -> AgentIds \cup {NoId}] /\ past \in [Sids -> SUBSET AgentIds]
SmTyped ==
  /\ StoreInv
  /\ IdTypes(idOf, pastOf) /\ IdTypes(smFile.ids, smFile.past)
  /\ \A r \in Savers : \A snap \in saving[r] : IdTypes(snap.ids, snap.past)
  /\ smFailed \in BOOLEAN /\ smOps \in 0 .. SmOpsMax

LEMMA SmTypeStart == SmInit => SmTyped
<1> SUFFICES ASSUME SmInit PROVE SmTyped
  OBVIOUS
<1>1. IdTypes(idOf, pastOf) /\ IdTypes(smFile.ids, smFile.past)
  BY DEF SmInit, Snapshot, IdTypes
<1>2. 0 \in 0 .. SmOpsMax
  BY SmBounds
<1> QED BY <1>1, <1>2, StoreStart DEF SmInit, SmTyped

\* An operation that holds the lock writes what is in memory, or nothing.
LEMMA LockedTypes ==
  ASSUME SmTyped, StoreInv', Locked, SaveTables, IdTypes(idOf, pastOf)'
  PROVE  SmTyped'
<1>1. IdTypes(smFile.ids, smFile.past)' /\ smFailed' \in BOOLEAN
  <2>1. CASE smFile' = [tables |-> tables', ids |-> idOf', past |-> pastOf'] /\ smFailed' = FALSE
    <3>1. smFile'.ids = idOf' /\ smFile'.past = pastOf'
      BY <2>1
    <3> QED BY <2>1, <3>1
  <2>2. CASE UNCHANGED smFile /\ smFailed' = TRUE
    BY <2>2 DEF SmTyped
  <2> QED BY <2>1, <2>2 DEF SaveTables
<1>2. \A r \in Savers : saving'[r] = {}
  BY DEF Locked, InFlight
<1>3. smOps' \in 0 .. SmOpsMax
  BY SmBounds DEF Locked, Change, SmTyped
<1> QED BY <1>1, <1>2, <1>3 DEF SmTyped

LEMMA SmTypeStep == ASSUME SmTyped, [SmNext]_SmVars PROVE SmTyped'
<1>0. StoreInv'
  BY StoreStep DEF SmTyped
<1>1. CASE UNCHANGED SmVars
  BY <1>0, <1>1 DEF SmVars, SmTyped, IdTypes
<1>2. ASSUME NEW u \in Users,
             GetOrCreateActive(u) \/ NewSession(u) \/ \E s \in Sids : SwitchSession(u, s)
      PROVE  SmTyped'
  BY <1>0, <1>2, LockedTypes DEF GetOrCreateActive, NewSession, SwitchSession, SmTyped, IdTypes
<1>3. ASSUME NEW u \in Users, NEW id \in AgentIds, SwitchToAgentSession(u, id) PROVE SmTyped'
  <2>1. IdTypes(idOf, pastOf)'
    BY <1>3 DEF SwitchToAgentSession, SmTyped, IdTypes
  <2> QED BY <1>0, <1>3, <2>1, LockedTypes DEF SwitchToAgentSession
<1>4. ASSUME NEW gone, Locked, Delete(gone), SaveTables PROVE SmTyped'
  <2>1. IdTypes(idOf, pastOf)'
    BY <1>4 DEF Delete, SmTyped, IdTypes
  <2> QED BY <1>0, <1>4, <2>1, LockedTypes
<1>5. ASSUME NEW s \in Sids, NEW id \in AgentIds \cup {NoId}, SetAgentSessionID(s, id)
      PROVE  SmTyped'
  <2>1. IdTypes(idOf, pastOf)'
    BY <1>5 DEF SetAgentSessionID, SetId, SmTyped, IdTypes
  <2>2. smOps' \in 0 .. SmOpsMax
    BY <1>5, SmBounds DEF SetAgentSessionID, Change, SmTyped
  <2> QED BY <1>0, <1>5, <2>1, <2>2 DEF SetAgentSessionID, SmTyped
<1>6. ASSUME NEW s \in Sids, NEW id \in AgentIds, CompareAndSet(s, id) PROVE SmTyped'
  <2>1. IdTypes(idOf, pastOf)'
    BY <1>6 DEF CompareAndSet, SmTyped, IdTypes
  <2>2. smOps' \in 0 .. SmOpsMax
    BY <1>6, SmBounds DEF CompareAndSet, Change, SmTyped
  <2> QED BY <1>0, <1>6, <2>1, <2>2 DEF CompareAndSet, SmTyped
<1>7. ASSUME NEW stale \in SUBSET Sids, InvalidateForAgent(stale) PROVE SmTyped'
  <2>1. IdTypes(idOf, pastOf)'
    BY <1>7 DEF InvalidateForAgent, SmTyped, IdTypes
  <2> QED BY <1>0, <1>7, <2>1, LockedTypes DEF InvalidateForAgent
<1>8. ASSUME NEW r \in Savers, SaveBegin(r) PROVE SmTyped'
  <2>1. Snapshot.ids = idOf /\ Snapshot.past = pastOf
    BY DEF Snapshot
  <2>2. \A k \in Savers : saving'[k] = saving[k] \/ saving'[k] = {Snapshot}
    BY <1>8 DEF SaveBegin, SmTyped, StoreInv
  <2>3. UNCHANGED <<idOf, pastOf, smFile, smFailed, smOps>>
    BY <1>8 DEF SaveBegin
  <2> QED BY <1>0, <2>1, <2>2, <2>3 DEF SmTyped
<1>9. ASSUME NEW r \in Savers, SaveRename(r) PROVE SmTyped'
  <2>1. smFile' \in saving[r] \/ smFile' = smFile
    BY <1>9 DEF SaveRename
  <2>2. IdTypes(smFile.ids, smFile.past)'
    BY <2>1 DEF SmTyped
  <2>3. \A k \in Savers : saving'[k] \subseteq saving[k]
    BY <1>9 DEF SaveRename, SmTyped, StoreInv
  <2>4. UNCHANGED <<idOf, pastOf, smOps>> /\ smFailed' \in BOOLEAN
    BY <1>9 DEF SaveRename
  <2> QED BY <1>0, <2>2, <2>3, <2>4 DEF SmTyped
<1>10. CASE SmRestart
  BY <1>0, <1>10 DEF SmRestart, SmTyped
<1> QED BY <1>1, <1>2, <1>3, <1>4, <1>5, <1>6, <1>7, <1>8, <1>9, <1>10
        DEF SmNext, DeleteByID, DeleteByAgentSessionID

LEMMA SmTypesOK == SmTyped => SmTypeOK
BY DEF SmTyped, StoreInv, Good, IdTypes, SmTypeOK
\* The tables, the ids and the file keep their types, whatever is saved and reloaded.
LEMMA SmTypes == SmInit /\ [][SmNext]_SmVars => []SmTypeOK
BY SmTypeStart, SmTypeStep, SmTypesOK, PTL
=============================================================================
