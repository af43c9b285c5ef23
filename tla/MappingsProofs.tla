--------------------------- MODULE MappingsProofs ---------------------------
(***************************************************************************)
(* Proofs about Mappings, for every value of its constants.                *)
(***************************************************************************)
EXTENDS Mappings, TLAPS

-----------------------------------------------------------------------------
(* Type correctness.                                                       *)

LEMMA NoLeaseType == NoLease \in Lease
BY UserAssumption DEF NoLease, Lease

LEMMA RevNoType == RevNo \subseteq Nat /\ NoRev \notin RevNo /\ NoRev \in Nat
BY BoundAssumption DEF RevNo, NoRev

LEMMA InitType == Init => TypeOK
BY NoLeaseType DEF Init, TypeOK, Life, RevStatus

LEMMA CreateType ==
    ASSUME TypeOK, NEW m \in Mapping, NEW kind, NEW req, CreateMapping(m, kind, req)
    PROVE  TypeOK'
<1>1. PICK p \in Port \cup {NoPort} :
         /\ rport' = [rport EXCEPT ![m][1] = p]
         /\ lease' = [q \in Port |->
               IF q = p THEN [mapping |-> m, rev |-> 1, role |-> "active"]
               ELSE lease[q]]
  BY DEF CreateMapping
<1>2. 1 \in RevNo /\ Owner[m] \in User
  BY UserAssumption DEF CreateMapping
<1>3. lease' \in [Port -> Lease]
  <2>1. [mapping |-> m, rev |-> 1, role |-> "active"] \in Lease
    BY <1>2 DEF Lease
  <2> QED  BY <1>1, <2>1 DEF TypeOK
<1>4. rport' \in [Mapping -> [RevNo -> Port \cup {NoPort}]]
  BY <1>1, <1>2 DEF TypeOK
<1>5. desired' \in [User -> Nat]
  BY <1>2 DEF TypeOK, CreateMapping, BumpVersion
<1>6. rstat' \in [Mapping -> [RevNo -> RevStatus]]
  BY <1>2 DEF TypeOK, CreateMapping, RevStatus
<1>7. /\ life' \in [Mapping -> Life] /\ want' \in [Mapping -> {"enabled", "disabled"}]
      /\ active' \in [Mapping -> RevNo \cup {NoRev}]
      /\ pending' \in [Mapping -> RevNo \cup {NoRev}]
  BY <1>2 DEF TypeOK, CreateMapping, Life
<1> QED  BY <1>3, <1>4, <1>5, <1>6, <1>7 DEF TypeOK

LEMMA UpdateType ==
    ASSUME TypeOK, NEW m \in Mapping, NEW kind, NEW req, UpdateMapping(m, kind, req)
    PROVE  TypeOK'
<1>1. PICK p \in Port \cup {NoPort}, r \in RevNo :
         /\ rport' = [rport EXCEPT ![m][r] = p]
         /\ rstat' = [rstat EXCEPT ![m] = [k \in RevNo |->
               IF k = r THEN "pending"
               ELSE IF k = pending[m] /\ rstat[m][k] = "pending" THEN "superseded"
               ELSE rstat[m][k]]]
         /\ lease' = [q \in Port |->
               IF q \in NewPorts(m, p)
               THEN [mapping |-> m, rev |-> r, role |-> "pending"]
               ELSE IF q \in Superseded(m) THEN NoLease ELSE lease[q]]
         /\ pending' = [pending EXCEPT ![m] = r]
  BY DEF UpdateMapping
<1>2. Owner[m] \in User
  BY UserAssumption
<1>3. lease' \in [Port -> Lease]
  <2>1. [mapping |-> m, rev |-> r, role |-> "pending"] \in Lease
    BY DEF Lease
  <2> QED  BY <1>1, <2>1, NoLeaseType DEF TypeOK
<1>4. rport' \in [Mapping -> [RevNo -> Port \cup {NoPort}]]
  BY <1>1 DEF TypeOK
<1>5. desired' \in [User -> Nat]
  BY <1>2 DEF TypeOK, UpdateMapping, BumpVersion
<1>6. rstat' \in [Mapping -> [RevNo -> RevStatus]]
  <2>1. [k \in RevNo |->
           IF k = r THEN "pending"
           ELSE IF k = pending[m] /\ rstat[m][k] = "pending" THEN "superseded"
           ELSE rstat[m][k]] \in [RevNo -> RevStatus]
    BY DEF TypeOK, RevStatus
  <2> QED  BY <1>1, <2>1 DEF TypeOK
<1>7. /\ life' \in [Mapping -> Life] /\ want' \in [Mapping -> {"enabled", "disabled"}]
      /\ active' \in [Mapping -> RevNo \cup {NoRev}]
      /\ pending' \in [Mapping -> RevNo \cup {NoRev}]
  BY <1>1 DEF TypeOK, UpdateMapping, Life
<1> QED  BY <1>3, <1>4, <1>5, <1>6, <1>7 DEF TypeOK

LEMMA DeleteToggleType ==
    ASSUME TypeOK, NEW m \in Mapping, NEW state \in {"enabled", "disabled"},
           DeleteMapping(m) \/ ToggleMapping(m, state)
    PROVE  TypeOK'
<1>1. Owner[m] \in User
  BY UserAssumption
<1>2. life' \in [Mapping -> Life] /\ want' \in [Mapping -> {"enabled", "disabled"}]
  BY DEF TypeOK, DeleteMapping, ToggleMapping, Life
<1>3. desired' \in [User -> Nat]
  BY <1>1 DEF TypeOK, DeleteMapping, ToggleMapping, BumpVersion
<1> QED  BY <1>2, <1>3 DEF TypeOK, DeleteMapping, ToggleMapping

LEMMA ActivateType == ASSUME TypeOK, NEW u \in User, ActivatePending(u) PROVE TypeOK'
<1>1. ASSUME NEW m \in Mapping PROVE Activated(u, m) \in RevNo \cup {NoRev}
  BY DEF TypeOK, Activated, CurrentRev
<1>2. active' \in [Mapping -> RevNo \cup {NoRev}]
  BY <1>1 DEF ActivatePending
<1>3. pending' \in [Mapping -> RevNo \cup {NoRev}]
  BY DEF ActivatePending, TypeOK
<1>4. ASSUME NEW m \in Mapping, NEW r \in RevNo PROVE ActivatedStatus(u, m, r) \in RevStatus
  BY DEF TypeOK, ActivatedStatus, RevStatus
<1>5. rstat' \in [Mapping -> [RevNo -> RevStatus]]
  BY <1>4 DEF ActivatePending
<1>6. life' \in [Mapping -> Life]
  BY DEF ActivatePending, ActivatedLife, TypeOK, Life
<1>7. ASSUME NEW p \in Port PROVE ActivatedLease(u, p) \in Lease
  <2>1. CASE lease[p].mapping \notin MappingsOf(u)
    BY <2>1 DEF ActivatedLease, TypeOK
  <2>2. CASE lease[p].mapping \in MappingsOf(u)
    <3>1. lease[p].mapping \in Mapping
      BY <2>2 DEF MappingsOf
    <3>2. [mapping |-> lease[p].mapping, rev |-> Activated(u, lease[p].mapping),
           role |-> "active"] \in Lease
      BY <3>1, <1>1 DEF Lease
    <3> QED  BY <3>2, NoLeaseType DEF ActivatedLease, TypeOK
  <2> QED  BY <2>1, <2>2
<1>8. lease' \in [Port -> Lease]
  BY <1>7 DEF ActivatePending
<1> QED  BY <1>2, <1>3, <1>5, <1>6, <1>8 DEF TypeOK, ActivatePending

LEMMA FailType == ASSUME TypeOK, NEW u \in User, FailPending(u) PROVE TypeOK'
<1>1. pending' \in [Mapping -> RevNo \cup {NoRev}]
  BY DEF FailPending, TypeOK
<1>2. rstat' \in [Mapping -> [RevNo -> RevStatus]]
  BY DEF FailPending, TypeOK, RevStatus
<1>3. life' \in [Mapping -> Life]
  BY DEF FailPending, TypeOK, Life
<1>4. lease' \in [Port -> Lease]
  BY NoLeaseType DEF FailPending, FailedLease, TypeOK
<1> QED  BY <1>1, <1>2, <1>3, <1>4 DEF TypeOK, FailPending

LEMMA PurgeType == ASSUME TypeOK, NEW m \in Mapping, PurgeMapping(m) PROVE TypeOK'
<1>1. lease' \in [Port -> Lease]
  BY NoLeaseType DEF PurgeMapping, TypeOK
<1>2. rstat' \in [Mapping -> [RevNo -> RevStatus]]
  BY DEF PurgeMapping, TypeOK, RevStatus
<1>3. rport' \in [Mapping -> [RevNo -> Port \cup {NoPort}]]
  BY DEF PurgeMapping, TypeOK
<1>4. /\ life' \in [Mapping -> Life]
      /\ active' \in [Mapping -> RevNo \cup {NoRev}]
      /\ pending' \in [Mapping -> RevNo \cup {NoRev}]
  BY DEF PurgeMapping, TypeOK, Life
<1> QED  BY <1>1, <1>2, <1>3, <1>4 DEF TypeOK, PurgeMapping

\* Every transaction keeps the tables well typed.
LEMMA NextType == TypeOK /\ [Next]_vars => TypeOK'
<1> SUFFICES ASSUME TypeOK, [Next]_vars PROVE TypeOK'
  OBVIOUS
<1>1. CASE UNCHANGED vars
  BY <1>1 DEF TypeOK, vars
<1>2. ASSUME NEW m \in Mapping, UserRequest(m) PROVE TypeOK'
  BY <1>2, CreateType, UpdateType, DeleteToggleType DEF UserRequest
<1>3. ASSUME NEW m \in Mapping, PurgeMapping(m) PROVE TypeOK'
  BY <1>3, PurgeType
<1>4. ASSUME NEW u \in User, ActivatePending(u) \/ FailPending(u) PROVE TypeOK'
  BY <1>4, ActivateType, FailType
<1> QED  BY <1>1, <1>2, <1>3, <1>4 DEF Next

\* The tables are well typed in every state of every behaviour.
THEOREM TypeCorrect == Spec => []TypeOK
BY InitType, NextType, PTL DEF Spec

-----------------------------------------------------------------------------
(* The revisions.  RevisionAuthority is not inductive alone: a new         *)
(* revision must be newer than the active one, and a mapping without a row *)
(* must have no revision that a later step could pick up.                  *)

\* A mapping that has no row has no revisions.
Vacant == \A m \in Mapping : ~Exists(m) =>
             /\ active[m] = NoRev /\ pending[m] = NoRev
             /\ \A r \in RevNo : rstat[m][r] = "none"

\* The revision that waits for the Client is newer than the one in force.
PendingNewer == \A m \in Mapping : pending[m] # NoRev => pending[m] > active[m]

RevInv == TypeOK /\ RevisionAuthority /\ Vacant /\ PendingNewer

\* What a step may do to the history of revisions.
HistoryKept ==
    \A m \in Mapping : life'[m] # "purged" =>
       /\ active'[m] >= active[m]
       /\ \A r \in RevNo : rstat[m][r] \in {"failed", "superseded"} =>
             rstat'[m][r] = rstat[m][r]

\* Revision numbers can be compared.
LEMMA RevNumbers ==
    ASSUME TypeOK, NEW m \in Mapping PROVE active[m] \in Nat /\ pending[m] \in Nat
BY RevNoType DEF TypeOK

LEMMA InitRev == Init => RevInv
BY InitType, RevNoType DEF Init, RevInv, RevisionAuthority, Vacant, PendingNewer, TypeOK

LEMMA CreateRev ==
    ASSUME RevInv, NEW m \in Mapping, NEW kind, NEW req, CreateMapping(m, kind, req)
    PROVE  RevisionAuthority' /\ Vacant' /\ PendingNewer' /\ HistoryKept
<1>1. /\ 1 \in RevNo /\ life[m] = "absent"
      /\ life' = [life EXCEPT ![m] = "pending_apply"]
      /\ pending' = [pending EXCEPT ![m] = 1]
      /\ rstat' = [rstat EXCEPT ![m][1] = "pending"]
      /\ active' = active
  BY DEF CreateMapping
<1>2. /\ active[m] = NoRev /\ pending[m] = NoRev /\ NoRev = 0
      /\ \A r \in RevNo : rstat[m][r] = "none"
  BY <1>1 DEF RevInv, Vacant, Exists, NoRev
<1>3. RevisionAuthority'
  <2> SUFFICES ASSUME NEW n \in Mapping, NEW r \in RevNo
               PROVE  /\ rstat'[n][r] = "pending" <=> pending'[n] = r
                      /\ rstat'[n][r] = "active" <=> active'[n] = r
    BY DEF RevisionAuthority
  <2>1. CASE n # m
    BY <1>1, <2>1 DEF RevInv, TypeOK, RevisionAuthority
  <2>2. CASE n = m
    BY <1>1, <1>2, <2>2, RevNoType DEF RevInv, TypeOK, RevisionAuthority
  <2> QED  BY <2>1, <2>2
<1>4. Vacant'
  BY <1>1 DEF RevInv, TypeOK, Vacant, Exists
<1>5. PendingNewer'
  BY <1>1, <1>2 DEF RevInv, TypeOK, PendingNewer
<1>6. HistoryKept
  <2> SUFFICES ASSUME NEW n \in Mapping
               PROVE  /\ active'[n] >= active[n]
                      /\ \A r \in RevNo : rstat[n][r] \in {"failed", "superseded"} =>
                            rstat'[n][r] = rstat[n][r]
    BY DEF HistoryKept
  <2>1. active'[n] >= active[n]
    BY <1>1, RevNumbers DEF RevInv
  <2>2. CASE n # m
    BY <1>1, <2>1, <2>2 DEF RevInv, TypeOK
  <2>3. CASE n = m
    BY <1>1, <1>2, <2>1, <2>3 DEF RevInv, TypeOK
  <2> QED  BY <2>2, <2>3
<1> QED  BY <1>3, <1>4, <1>5, <1>6

LEMMA UpdateRev ==
    ASSUME RevInv, NEW m \in Mapping, NEW kind, NEW req, UpdateMapping(m, kind, req)
    PROVE  RevisionAuthority' /\ Vacant' /\ PendingNewer' /\ HistoryKept
<1>1. PICK r \in RevNo :
         /\ NextRevision(m, r)
         /\ rstat' = [rstat EXCEPT ![m] = [k \in RevNo |->
               IF k = r THEN "pending"
               ELSE IF k = pending[m] /\ rstat[m][k] = "pending" THEN "superseded"
               ELSE rstat[m][k]]]
         /\ pending' = [pending EXCEPT ![m] = r]
  BY DEF UpdateMapping
<1>2. /\ Exists(m) /\ active' = active
      /\ life' = [life EXCEPT ![m] = "pending_apply"]
  BY DEF UpdateMapping
\* The new revision is newer than every revision there is.
<1>3. rstat[m][r] = "none" /\ \A k \in RevNo : rstat[m][k] # "none" => k < r
  BY <1>1, RevNoType DEF NextRevision
<1>4. active[m] # r /\ active[m] < r
  <2>1. CASE active[m] = NoRev
    BY <2>1, RevNoType DEF NoRev
  <2>2. CASE active[m] # NoRev
    <3>1. active[m] \in RevNo
      BY <2>2 DEF RevInv, TypeOK
    <3>2. rstat[m][active[m]] = "active"
      BY <3>1 DEF RevInv, RevisionAuthority
    <3> QED  BY <3>1, <3>2, <1>3, RevNoType
  <2> QED  BY <2>1, <2>2
<1>5. RevisionAuthority'
  <2> SUFFICES ASSUME NEW n \in Mapping, NEW k \in RevNo
               PROVE  /\ rstat'[n][k] = "pending" <=> pending'[n] = k
                      /\ rstat'[n][k] = "active" <=> active'[n] = k
    BY DEF RevisionAuthority
  <2>1. CASE n # m
    BY <1>1, <1>2, <2>1 DEF RevInv, TypeOK, RevisionAuthority
  <2>2. CASE n = m
    BY <1>1, <1>2, <1>4, <2>2 DEF RevInv, TypeOK, RevisionAuthority
  <2> QED  BY <2>1, <2>2
<1>6. Vacant'
  BY <1>1, <1>2 DEF RevInv, TypeOK, Vacant, Exists
<1>7. PendingNewer'
  BY <1>1, <1>2, <1>4 DEF RevInv, TypeOK, PendingNewer
<1>8. HistoryKept
  <2> SUFFICES ASSUME NEW n \in Mapping
               PROVE  /\ active'[n] >= active[n]
                      /\ \A k \in RevNo : rstat[n][k] \in {"failed", "superseded"} =>
                            rstat'[n][k] = rstat[n][k]
    BY DEF HistoryKept
  <2>1. active'[n] >= active[n]
    BY <1>2, RevNumbers DEF RevInv
  <2>2. CASE n # m
    BY <1>1, <2>1, <2>2 DEF RevInv, TypeOK
  <2>3. CASE n = m
    BY <1>1, <1>3, <2>1, <2>3 DEF RevInv, TypeOK
  <2> QED  BY <2>2, <2>3
<1> QED  BY <1>5, <1>6, <1>7, <1>8

\* Deletions and toggles touch no revision.
LEMMA DeleteToggleRev ==
    ASSUME RevInv, NEW m \in Mapping, NEW state \in {"enabled", "disabled"},
           DeleteMapping(m) \/ ToggleMapping(m, state)
    PROVE  RevisionAuthority' /\ Vacant' /\ PendingNewer' /\ HistoryKept
<1>1. UNCHANGED <<active, pending, rstat>> /\ Exists(m)
  BY DEF DeleteMapping, ToggleMapping
<1>2. \A n \in Mapping : n # m => life'[n] = life[n]
  BY DEF DeleteMapping, ToggleMapping, RevInv, TypeOK
<1>3. RevisionAuthority' /\ PendingNewer'
  BY <1>1 DEF RevInv, RevisionAuthority, PendingNewer
<1>4. Vacant'
  <2>1. Exists(m)'
    BY DEF DeleteMapping, ToggleMapping, RevInv, TypeOK, Exists
  <2> QED  BY <1>1, <1>2, <2>1 DEF RevInv, Vacant, Exists
<1>5. HistoryKept
  BY <1>1, RevNumbers DEF RevInv, HistoryKept
<1> QED  BY <1>3, <1>4, <1>5

LEMMA ActivateRev ==
    ASSUME RevInv, NEW u \in User, ActivatePending(u)
    PROVE  RevisionAuthority' /\ Vacant' /\ PendingNewer' /\ HistoryKept
<1> SUFFICES ASSUME NEW m \in Mapping
             PROVE  /\ \A r \in RevNo : /\ rstat'[m][r] = "pending" <=> pending'[m] = r
                                        /\ rstat'[m][r] = "active" <=> active'[m] = r
                    /\ ~Exists(m)' => /\ active'[m] = NoRev /\ pending'[m] = NoRev
                                      /\ \A r \in RevNo : rstat'[m][r] = "none"
                    /\ pending'[m] # NoRev => pending'[m] > active'[m]
                    /\ active'[m] >= active[m]
                    /\ \A r \in RevNo : rstat[m][r] \in {"failed", "superseded"} =>
                          rstat'[m][r] = rstat[m][r]
  BY DEF RevisionAuthority, Vacant, PendingNewer, HistoryKept
<1>1. /\ active'[m] = Activated(u, m)
      /\ pending'[m] = IF m \in MappingsOf(u) THEN NoRev ELSE pending[m]
      /\ life'[m] = ActivatedLife(u, m)
      /\ \A r \in RevNo : rstat'[m][r] = ActivatedStatus(u, m, r)
  BY DEF ActivatePending
<1>2. active[m] \in Nat /\ pending[m] \in Nat
  BY RevNumbers DEF RevInv
<1>3. CASE m \notin MappingsOf(u)
  <2>1. /\ active'[m] = active[m] /\ pending'[m] = pending[m] /\ life'[m] = life[m]
        /\ \A r \in RevNo : rstat'[m][r] = rstat[m][r]
    BY <1>1, <1>3 DEF Activated, ActivatedLife, ActivatedStatus
  <2> QED  BY <2>1, <1>2 DEF RevInv, RevisionAuthority, Vacant, PendingNewer, Exists
<1>4. CASE m \in MappingsOf(u) /\ pending[m] = NoRev
  <2>1. /\ active'[m] = active[m] /\ pending'[m] = NoRev
        /\ \A r \in RevNo : rstat'[m][r] = rstat[m][r]
    BY <1>1, <1>4 DEF Activated, CurrentRev, ActivatedStatus
  <2>2. Exists(m)'
    BY <1>1, <1>4 DEF MappingsOf, Exists, ActivatedLife
  <2> QED  BY <2>1, <2>2, <1>2, <1>4, RevNoType DEF RevInv, RevisionAuthority
<1>5. CASE m \in MappingsOf(u) /\ pending[m] # NoRev
  <2>1. active'[m] = pending[m] /\ pending'[m] = NoRev
    BY <1>1, <1>5 DEF Activated, CurrentRev
  <2>2. \A r \in RevNo : rstat'[m][r] = IF r = pending[m] THEN "active"
                                       ELSE IF r = active[m] THEN "superseded"
                                       ELSE rstat[m][r]
    BY <1>1, <1>5 DEF ActivatedStatus
  <2>3. Exists(m)'
    BY <1>1, <1>5 DEF MappingsOf, Exists, ActivatedLife
  <2>4. pending[m] > active[m]
    BY <1>5 DEF RevInv, PendingNewer
  <2> QED  BY <2>1, <2>2, <2>3, <2>4, <1>2, RevNoType DEF RevInv, RevisionAuthority
<1> QED  BY <1>3, <1>4, <1>5

LEMMA FailRev ==
    ASSUME RevInv, NEW u \in User, FailPending(u)
    PROVE  RevisionAuthority' /\ Vacant' /\ PendingNewer' /\ HistoryKept
<1> SUFFICES ASSUME NEW m \in Mapping
             PROVE  /\ \A r \in RevNo : /\ rstat'[m][r] = "pending" <=> pending'[m] = r
                                        /\ rstat'[m][r] = "active" <=> active'[m] = r
                    /\ ~Exists(m)' => /\ active'[m] = NoRev /\ pending'[m] = NoRev
                                      /\ \A r \in RevNo : rstat'[m][r] = "none"
                    /\ pending'[m] # NoRev => pending'[m] > active'[m]
                    /\ active'[m] >= active[m]
                    /\ \A r \in RevNo : rstat[m][r] \in {"failed", "superseded"} =>
                          rstat'[m][r] = rstat[m][r]
  BY DEF RevisionAuthority, Vacant, PendingNewer, HistoryKept
<1>1. /\ active'[m] = active[m]
      /\ pending'[m] = IF m \in MappingsOf(u) THEN NoRev ELSE pending[m]
      /\ \A r \in RevNo :
            rstat'[m][r] = IF m \in MappingsOf(u) /\ rstat[m][r] = "pending"
                           THEN "failed" ELSE rstat[m][r]
  BY DEF FailPending
<1>2. Exists(m)' <=> Exists(m)
  BY DEF FailPending, MappingsOf, Exists
<1>3. active[m] \in Nat /\ pending[m] \in Nat
  BY RevNumbers DEF RevInv
<1>4. CASE m \in MappingsOf(u)
  BY <1>1, <1>2, <1>3, <1>4, RevNoType
     DEF RevInv, RevisionAuthority, MappingsOf
<1>5. CASE m \notin MappingsOf(u)
  BY <1>1, <1>2, <1>3, <1>5 DEF RevInv, RevisionAuthority, Vacant, PendingNewer
<1> QED  BY <1>4, <1>5

LEMMA PurgeRev ==
    ASSUME RevInv, NEW m \in Mapping, PurgeMapping(m)
    PROVE  RevisionAuthority' /\ Vacant' /\ PendingNewer' /\ HistoryKept
<1>1. /\ active' = [active EXCEPT ![m] = NoRev]
      /\ pending' = [pending EXCEPT ![m] = NoRev]
      /\ rstat' = [rstat EXCEPT ![m] = [r \in RevNo |-> "none"]]
      /\ life' = [life EXCEPT ![m] = "purged"]
  BY DEF PurgeMapping
<1>2. \A n \in Mapping : n # m =>
         /\ active'[n] = active[n] /\ pending'[n] = pending[n]
         /\ rstat'[n] = rstat[n] /\ life'[n] = life[n]
  BY <1>1 DEF RevInv, TypeOK
<1>3. /\ active'[m] = NoRev /\ pending'[m] = NoRev /\ life'[m] = "purged"
      /\ \A r \in RevNo : rstat'[m][r] = "none"
  BY <1>1 DEF RevInv, TypeOK
<1>4. RevisionAuthority'
  BY <1>2, <1>3, RevNoType DEF RevInv, RevisionAuthority
<1>5. Vacant' /\ PendingNewer'
  BY <1>2, <1>3 DEF RevInv, Vacant, PendingNewer, Exists
<1>6. HistoryKept
  BY <1>2, <1>3, RevNumbers DEF RevInv, HistoryKept
<1> QED  BY <1>4, <1>5, <1>6

\* RevInv is inductive, and a step from it keeps the history of revisions.
LEMMA NextRev == RevInv /\ [Next]_vars => RevInv' /\ HistoryKept
<1> SUFFICES ASSUME RevInv, [Next]_vars
             PROVE  RevisionAuthority' /\ Vacant' /\ PendingNewer' /\ HistoryKept
  BY NextType DEF RevInv
<1>1. CASE UNCHANGED vars
  <2>1. UNCHANGED <<life, active, pending, rstat>>
    BY <1>1 DEF vars
  <2> QED  BY <2>1, RevNumbers
              DEF RevInv, RevisionAuthority, Vacant, PendingNewer, Exists, HistoryKept
<1>2. ASSUME NEW m \in Mapping, UserRequest(m)
      PROVE  RevisionAuthority' /\ Vacant' /\ PendingNewer' /\ HistoryKept
  BY <1>2, CreateRev, UpdateRev, DeleteToggleRev DEF UserRequest
<1>3. ASSUME NEW m \in Mapping, PurgeMapping(m)
      PROVE  RevisionAuthority' /\ Vacant' /\ PendingNewer' /\ HistoryKept
  BY <1>3, PurgeRev
<1>4. ASSUME NEW u \in User, ActivatePending(u) \/ FailPending(u)
      PROVE  RevisionAuthority' /\ Vacant' /\ PendingNewer' /\ HistoryKept
  BY <1>4, ActivateRev, FailRev
<1> QED  BY <1>1, <1>2, <1>3, <1>4 DEF Next

\* The row of a mapping always points to its one pending and its one active revision,
\* whatever the order of requests and outcomes.
THEOREM RevisionsAuthoritative == Spec => []RevisionAuthority
<1>1. RevInv => RevisionAuthority
  BY DEF RevInv
<1> QED  BY <1>1, InitRev, NextRev, PTL DEF Spec

\* No outcome of an apply brings an older revision back.
THEOREM HistoryOnlyGrows == Spec => RevisionHistory
<1>1. RevInv /\ [Next]_vars => [HistoryKept]_vars
  BY NextRev
<1>2. Spec => [][HistoryKept]_vars
  BY <1>1, InitRev, NextRev, PTL DEF Spec
<1> QED  BY <1>2 DEF RevisionHistory, HistoryKept

-----------------------------------------------------------------------------
(* The leases.  A port is shared by no two mappings because each one's     *)
(* live revisions have their ports leased, and a port has one lease.  That *)
(* every live revision keeps its lease needs the converse, NoLeakedLease:  *)
(* the leases an update or a failed apply deletes are never the active     *)
(* revision's.  It also needs that no user resubmits a pending port.       *)

LeaseInv == RevInv /\ LeaseBacked /\ NoLeakedLease

\* Only a mapping with a row has live revisions.
LEMMA LiveExists ==
    ASSUME RevInv, NEW m \in Mapping, NEW r \in LiveRevs(m)
    PROVE  Exists(m) /\ r \in RevNo
BY DEF RevInv, TypeOK, Vacant, LiveRevs

\* The leases of a live revision's port, as a fact about one mapping.
LEMMA BackedPort ==
    ASSUME LeaseInv, NEW m \in Mapping, NEW r \in LiveRevs(m), rport[m][r] # NoPort
    PROVE  /\ rport[m][r] \in Port /\ lease[rport[m][r]].mapping = m
           /\ r = active[m] => lease[rport[m][r]].role = "active"
<1>1. r \in RevNo
  BY LiveExists DEF LeaseInv
<1> QED  BY <1>1 DEF LeaseInv, RevInv, TypeOK, LeaseBacked

LEMMA InitLease == Init => LeaseInv
<1> SUFFICES ASSUME Init PROVE LeaseInv
  OBVIOUS
<1>1. RevInv
  BY InitRev
<1>2. \A m \in Mapping : LiveRevs(m) = {}
  BY DEF Init, LiveRevs
<1>3. LeaseBacked
  BY <1>2 DEF LeaseBacked
<1>4. NoLeakedLease
  BY DEF Init, NoLeakedLease
<1> QED  BY <1>1, <1>3, <1>4 DEF LeaseInv

LEMMA CreateLease ==
    ASSUME LeaseInv, RevInv', NEW m \in Mapping, NEW kind, NEW req,
           CreateMapping(m, kind, req)
    PROVE  LeaseBacked' /\ NoLeakedLease'
<1>1. PICK p \in Port \cup {NoPort} :
         /\ p # NoPort => lease[p] = NoLease
         /\ rport' = [rport EXCEPT ![m][1] = p]
         /\ lease' = [q \in Port |->
               IF q = p THEN [mapping |-> m, rev |-> 1, role |-> "active"]
               ELSE lease[q]]
  BY DEF CreateMapping
<1>2. /\ 1 \in RevNo /\ ~Exists(m) /\ active' = active
      /\ life' = [life EXCEPT ![m] = "pending_apply"]
      /\ pending' = [pending EXCEPT ![m] = 1]
  BY DEF CreateMapping, Exists
<1>3. active[m] = NoRev /\ pending[m] = NoRev
  BY <1>2 DEF LeaseInv, RevInv, Vacant
<1>4. \A n \in Mapping : n # m =>
         LiveRevs(n)' = LiveRevs(n) /\ rport'[n] = rport[n] /\ life'[n] = life[n]
  BY <1>1, <1>2 DEF LeaseInv, RevInv, TypeOK, LiveRevs
<1>5. LiveRevs(m)' = {1} /\ rport'[m][1] = p /\ NoRev \notin {1} /\ life'[m] = "pending_apply"
  BY <1>1, <1>2, <1>3 DEF LeaseInv, RevInv, TypeOK, LiveRevs, NoRev
<1>6. LeaseBacked'
  <2> SUFFICES ASSUME NEW n \in Mapping, NEW r \in LiveRevs(n)', rport'[n][r] # NoPort
               PROVE  /\ lease'[rport'[n][r]].mapping = n
                      /\ r = active'[n] => lease'[rport'[n][r]].role = "active"
    BY DEF LeaseBacked
  <2>1. CASE n = m
    <3>1. r = 1 /\ p \in Port /\ lease'[p] = [mapping |-> m, rev |-> 1, role |-> "active"]
      BY <1>1, <1>5, <2>1
    <3> QED  BY <3>1, <1>5, <2>1
  <2>2. CASE n # m
    <3>1. /\ rport[n][r] \in Port /\ lease[rport[n][r]].mapping = n
          /\ r = active[n] => lease[rport[n][r]].role = "active"
      BY <1>4, <2>2, BackedPort
    <3>2. rport[n][r] # p
      BY <3>1, <1>1, UserAssumption DEF NoLease
    <3> QED  BY <1>1, <1>2, <1>4, <2>2, <3>1, <3>2
  <2> QED  BY <2>1, <2>2
<1>7. ASSUME NEW q \in Port, lease'[q] # NoLease PROVE Accounted(q)'
  <2>1. CASE q = p
    <3>1. lease'[q].mapping = m /\ lease'[q].role = "active"
      BY <1>1, <2>1
    <3> QED  BY <3>1, <1>2, <1>3, <1>5 DEF Exists, Accounted
  <2>2. CASE q # p
    <3>1. lease'[q] = lease[q]
      BY <1>1, <2>2
    <3>2. Accounted(q)
      BY <1>7, <3>1 DEF LeaseInv, NoLeakedLease
    <3>3. lease[q].mapping \in Mapping \ {m}
      BY <3>2, <1>2 DEF Accounted
    <3> QED  BY <3>1, <3>2, <3>3, <1>2, <1>4
                DEF Accounted, Exists, LeaseInv, RevInv, TypeOK
  <2> QED  BY <2>1, <2>2
<1> QED  BY <1>6, <1>7 DEF NoLeakedLease

LEMMA UpdateLease ==
    ASSUME ~ReeditPendingPort, LeaseInv, RevInv', NEW m \in Mapping, NEW kind, NEW req,
           UpdateMapping(m, kind, req)
    PROVE  LeaseBacked' /\ NoLeakedLease'
<1>1. PICK p \in Port \cup {NoPort}, r \in RevNo :
         /\ ~Reedit(m, p)
         /\ \A q \in NewPorts(m, p) : lease[q] = NoLease \/ q \in Superseded(m)
         /\ NextRevision(m, r)
         /\ rport' = [rport EXCEPT ![m][r] = p]
         /\ lease' = [q \in Port |->
               IF q \in NewPorts(m, p)
               THEN [mapping |-> m, rev |-> r, role |-> "pending"]
               ELSE IF q \in Superseded(m) THEN NoLease ELSE lease[q]]
         /\ pending' = [pending EXCEPT ![m] = r]
  BY DEF UpdateMapping
<1>2. /\ Exists(m) /\ active' = active
      /\ life' = [life EXCEPT ![m] = "pending_apply"]
  BY DEF UpdateMapping
<1>3. \A n \in Mapping : n # m =>
         /\ LiveRevs(n)' = LiveRevs(n) /\ rport'[n] = rport[n] /\ life'[n] = life[n]
         /\ pending'[n] = pending[n]
  BY <1>1, <1>2 DEF LeaseInv, RevInv, TypeOK, LiveRevs
<1>4. /\ LiveRevs(m)' = {active[m], r} \ {NoRev} /\ pending'[m] = r /\ r # NoRev
      /\ rport'[m][r] = p /\ \A k \in RevNo \ {r} : rport'[m][k] = rport[m][k]
      /\ life'[m] = "pending_apply"
  BY <1>1, <1>2, RevNoType DEF LeaseInv, RevInv, TypeOK, LiveRevs
<1>5. active[m] # r
  BY <1>2, <1>4, RevNoType, RevNumbers DEF LeaseInv, RevInv, PendingNewer
\* The lease of a port that is not new and not superseded stays as it is.
<1>6. \A q \in Port : q \notin NewPorts(m, p) /\ q \notin Superseded(m) =>
         lease'[q] = lease[q]
  BY <1>1
\* Only leases of m, and free ports, are touched.
<1>7. \A q \in Port, n \in Mapping : n # m /\ lease[q].mapping = n => lease'[q] = lease[q]
  BY <1>1, <1>6, UserAssumption DEF Superseded, NoLease
\* The active lease of m is not touched.
<1>8. \A q \in Port : lease[q].mapping = m /\ lease[q].role = "active" =>
         lease'[q] = lease[q]
  BY <1>1, <1>6, UserAssumption DEF Superseded, NoLease
<1>9. LeaseBacked'
  <2> SUFFICES ASSUME NEW n \in Mapping, NEW k \in LiveRevs(n)', rport'[n][k] # NoPort
               PROVE  /\ lease'[rport'[n][k]].mapping = n
                      /\ k = active'[n] => lease'[rport'[n][k]].role = "active"
    BY DEF LeaseBacked
  <2>1. CASE n # m
    <3>1. /\ rport[n][k] \in Port /\ lease[rport[n][k]].mapping = n
          /\ k = active[n] => lease[rport[n][k]].role = "active"
      BY <1>3, <2>1, BackedPort
    <3> QED  BY <1>2, <1>3, <1>7, <2>1, <3>1
  <2>2. CASE n = m /\ k # r
    <3>1. k = active[m] /\ k \in LiveRevs(m) /\ k \in RevNo
      BY <1>4, <2>2 DEF LeaseInv, RevInv, TypeOK, LiveRevs
    <3>2. rport'[m][k] = rport[m][k]
      BY <1>4, <2>2, <3>1
    <3>3. /\ rport[m][k] \in Port /\ lease[rport[m][k]].mapping = m
          /\ lease[rport[m][k]].role = "active"
      BY <2>2, <3>1, <3>2, BackedPort
    <3> QED  BY <1>8, <2>2, <3>2, <3>3
  <2>3. CASE n = m /\ k = r
    <3>1. p \in Port /\ rport'[n][k] = p /\ k # active'[n]
      BY <1>1, <1>2, <1>4, <1>5, <2>3
    <3>2. CASE p \in NewPorts(m, p)
      BY <1>1, <2>3, <3>1, <3>2
    \* The revision keeps the port of the one before it, and its lease.
    <3>3. CASE p \notin NewPorts(m, p)
      <4>1. p = PortOf(m, CurrentRev(m)) /\ CurrentRev(m) # NoRev
        BY <3>1, <3>3, PortAssumption DEF NewPorts, PortOf
      <4>2. CurrentRev(m) \in LiveRevs(m) /\ rport[m][CurrentRev(m)] = p
        BY <4>1 DEF CurrentRev, LiveRevs, PortOf
      <4>3. lease[p].mapping = m
        BY <4>2, <3>1, <2>3, BackedPort
      <4>4. p \notin Superseded(m)
        BY <1>1 DEF Reedit
      <4> QED  BY <1>6, <2>3, <3>1, <3>3, <4>3, <4>4
    <3> QED  BY <3>2, <3>3
  <2> QED  BY <2>1, <2>2, <2>3
<1>10. ASSUME NEW q \in Port, lease'[q] # NoLease PROVE Accounted(q)'
  <2>1. CASE q \in NewPorts(m, p)
    <3>1. /\ lease'[q].mapping = m /\ lease'[q].rev = r
          /\ lease'[q].role = "pending" /\ q = p
      BY <1>1, <2>1 DEF NewPorts
    <3> QED  BY <3>1, <1>4 DEF Accounted, Exists
  <2>2. CASE q \notin NewPorts(m, p)
    <3>1. lease'[q] = lease[q] /\ q \notin Superseded(m)
      BY <1>1, <1>10, <2>2
    <3>2. Accounted(q)
      BY <1>10, <3>1 DEF LeaseInv, NoLeakedLease
    <3>3. CASE lease[q].mapping # m
      BY <3>1, <3>2, <3>3, <1>2, <1>3 DEF Accounted, Exists
    <3>4. CASE lease[q].mapping = m
      <4>1. lease[q].role # "pending"
        BY <3>1, <3>2, <3>4 DEF Accounted, Superseded
      <4>2. active[m] # NoRev => active[m] \in RevNo \ {r}
        BY <1>5 DEF LeaseInv, RevInv, TypeOK
      <4> QED  BY <3>1, <3>2, <3>4, <4>1, <4>2, <1>2, <1>4 DEF Accounted, Exists
    <3> QED  BY <3>3, <3>4
  <2> QED  BY <2>1, <2>2
<1> QED  BY <1>9, <1>10 DEF NoLeakedLease

LEMMA DeleteToggleLease ==
    ASSUME LeaseInv, NEW m \in Mapping, NEW state \in {"enabled", "disabled"},
           DeleteMapping(m) \/ ToggleMapping(m, state)
    PROVE  LeaseBacked' /\ NoLeakedLease'
<1>1. UNCHANGED <<active, pending, rport, lease>>
  BY DEF DeleteMapping, ToggleMapping
<1>2. \A n \in Mapping : Exists(n) => Exists(n)'
  BY DEF DeleteMapping, ToggleMapping, Exists, LeaseInv, RevInv, TypeOK
<1>3. LeaseBacked'
  BY <1>1 DEF LeaseInv, LeaseBacked, LiveRevs
<1>4. NoLeakedLease'
  BY <1>1, <1>2 DEF LeaseInv, NoLeakedLease, Accounted
<1> QED  BY <1>3, <1>4

\* The switch keeps the lease of the port that becomes, or stays, the active one.
LEMMA ActivateLease ==
    ASSUME LeaseInv, NEW u \in User, ActivatePending(u)
    PROVE  LeaseBacked' /\ NoLeakedLease'
<1>1. /\ rport' = rport
      /\ \A m \in Mapping : active'[m] = Activated(u, m)
      /\ \A p \in Port : lease'[p] = ActivatedLease(u, p)
      /\ \A m \in Mapping :
            pending'[m] = IF m \in MappingsOf(u) THEN NoRev ELSE pending[m]
  BY DEF ActivatePending
<1>2. \A m \in Mapping : Exists(m) => Exists(m)'
  BY DEF ActivatePending, ActivatedLife, MappingsOf, Exists
<1>3. LeaseBacked'
  <2> SUFFICES ASSUME NEW m \in Mapping, NEW r \in LiveRevs(m)', rport'[m][r] # NoPort
               PROVE  /\ lease'[rport'[m][r]].mapping = m
                      /\ r = active'[m] => lease'[rport'[m][r]].role = "active"
    BY DEF LeaseBacked
  <2>1. CASE m \in MappingsOf(u)
    <3>1. r = Activated(u, m) /\ r # NoRev /\ r \in LiveRevs(m)
      BY <1>1, <2>1 DEF LiveRevs, Activated, CurrentRev
    <3>2. rport[m][r] \in Port /\ lease[rport[m][r]].mapping = m
      BY <1>1, <3>1, BackedPort
    <3>3. lease'[rport[m][r]] = [mapping |-> m, rev |-> r, role |-> "active"]
      BY <1>1, <2>1, <3>1, <3>2 DEF ActivatedLease
    <3> QED  BY <1>1, <3>3
  <2>2. CASE m \notin MappingsOf(u)
    <3>1. active'[m] = active[m] /\ r \in LiveRevs(m)
      BY <1>1, <2>2 DEF LiveRevs, Activated
    <3>2. /\ rport[m][r] \in Port /\ lease[rport[m][r]].mapping = m
          /\ r = active[m] => lease[rport[m][r]].role = "active"
      BY <1>1, <3>1, BackedPort
    <3>3. lease'[rport[m][r]] = lease[rport[m][r]]
      BY <1>1, <2>2, <3>2 DEF ActivatedLease
    <3> QED  BY <1>1, <3>1, <3>2, <3>3
  <2> QED  BY <2>1, <2>2
<1>4. ASSUME NEW p \in Port, lease'[p] # NoLease PROVE Accounted(p)'
  <2>1. CASE lease[p].mapping \in MappingsOf(u)
    <3> DEFINE m == lease[p].mapping
    <3>1. m \in Mapping /\ Exists(m)
      BY <2>1 DEF MappingsOf
    <3>2. /\ lease'[p] = [mapping |-> m, rev |-> Activated(u, m), role |-> "active"]
          /\ rport[m][Activated(u, m)] = p
      BY <1>1, <1>4, <2>1 DEF ActivatedLease
    <3> HIDE DEF m
    <3> QED  BY <1>1, <1>2, <3>1, <3>2 DEF Accounted
  <2>2. CASE lease[p].mapping \notin MappingsOf(u)
    <3> DEFINE m == lease[p].mapping
    <3>1. lease'[p] = lease[p]
      BY <1>1, <2>2 DEF ActivatedLease
    <3>2. Accounted(p)
      BY <1>4, <3>1 DEF LeaseInv, NoLeakedLease
    <3>3. m \in Mapping /\ active'[m] = active[m] /\ pending'[m] = pending[m]
      BY <1>1, <2>2, <3>2 DEF Activated, Accounted
    <3> QED  BY <1>1, <1>2, <3>1, <3>2, <3>3 DEF Accounted
  <2> QED  BY <2>1, <2>2
<1> QED  BY <1>3, <1>4 DEF NoLeakedLease

LEMMA FailLease ==
    ASSUME LeaseInv, NEW u \in User, FailPending(u)
    PROVE  LeaseBacked' /\ NoLeakedLease'
<1>1. /\ rport' = rport /\ active' = active
      /\ \A p \in Port : lease'[p] = FailedLease(u, p)
      /\ \A m \in Mapping :
            pending'[m] = IF m \in MappingsOf(u) THEN NoRev ELSE pending[m]
  BY DEF FailPending
<1>2. \A m \in Mapping : Exists(m) => Exists(m)'
  BY DEF FailPending, MappingsOf, Exists
<1>3. LeaseBacked'
  <2> SUFFICES ASSUME NEW m \in Mapping, NEW r \in LiveRevs(m)', rport'[m][r] # NoPort
               PROVE  /\ lease'[rport'[m][r]].mapping = m
                      /\ r = active'[m] => lease'[rport'[m][r]].role = "active"
    BY DEF LeaseBacked
  <2>1. r \in LiveRevs(m) /\ (m \in MappingsOf(u) => r = active[m])
    BY <1>1 DEF LiveRevs
  <2>2. /\ rport[m][r] \in Port /\ lease[rport[m][r]].mapping = m
        /\ r = active[m] => lease[rport[m][r]].role = "active"
    BY <1>1, <2>1, BackedPort
  <2>3. lease'[rport[m][r]] = lease[rport[m][r]]
    BY <1>1, <2>1, <2>2 DEF FailedLease
  <2> QED  BY <1>1, <2>2, <2>3
<1>4. ASSUME NEW p \in Port, lease'[p] # NoLease PROVE Accounted(p)'
  <2>1. /\ lease'[p] = lease[p]
        /\ lease[p].mapping \in MappingsOf(u) => lease[p].role # "pending"
    BY <1>1, <1>4 DEF FailedLease
  <2>2. Accounted(p)
    BY <1>4, <2>1 DEF LeaseInv, NoLeakedLease
  <2> QED  BY <1>1, <1>2, <2>1, <2>2 DEF Accounted
<1> QED  BY <1>3, <1>4 DEF NoLeakedLease

LEMMA PurgeLease ==
    ASSUME LeaseInv, NEW m \in Mapping, PurgeMapping(m)
    PROVE  LeaseBacked' /\ NoLeakedLease'
<1>1. /\ LiveRevs(m)' = {}
      /\ \A p \in Port : lease'[p] = IF lease[p].mapping = m THEN NoLease ELSE lease[p]
  BY DEF PurgeMapping, LiveRevs, LeaseInv, RevInv, TypeOK
<1>2. \A n \in Mapping : n # m =>
         /\ LiveRevs(n)' = LiveRevs(n) /\ rport'[n] = rport[n] /\ life'[n] = life[n]
         /\ active'[n] = active[n] /\ pending'[n] = pending[n]
  BY DEF PurgeMapping, LiveRevs, LeaseInv, RevInv, TypeOK
<1>3. LeaseBacked'
  <2> SUFFICES ASSUME NEW n \in Mapping, NEW r \in LiveRevs(n)', rport'[n][r] # NoPort
               PROVE  /\ lease'[rport'[n][r]].mapping = n
                      /\ r = active'[n] => lease'[rport'[n][r]].role = "active"
    BY DEF LeaseBacked
  <2>1. n # m
    BY <1>1
  <2>2. /\ rport[n][r] \in Port /\ lease[rport[n][r]].mapping = n
        /\ r = active[n] => lease[rport[n][r]].role = "active"
    BY <1>2, <2>1, BackedPort
  <2> QED  BY <1>1, <1>2, <2>1, <2>2
<1>4. ASSUME NEW p \in Port, lease'[p] # NoLease PROVE Accounted(p)'
  <2>1. lease'[p] = lease[p] /\ lease[p].mapping # m
    BY <1>1, <1>4
  <2>2. Accounted(p)
    BY <1>4, <2>1 DEF LeaseInv, NoLeakedLease
  <2> QED  BY <1>2, <2>1, <2>2 DEF Accounted, Exists
<1> QED  BY <1>3, <1>4 DEF NoLeakedLease

LEMMA NextLease == ~ReeditPendingPort /\ LeaseInv /\ [Next]_vars => LeaseInv'
<1> SUFFICES ASSUME ~ReeditPendingPort, LeaseInv, [Next]_vars
             PROVE  LeaseBacked' /\ NoLeakedLease'
  BY NextRev DEF LeaseInv
<1>1. RevInv'
  BY NextRev DEF LeaseInv
<1>2. CASE UNCHANGED vars
  <2>1. UNCHANGED <<life, active, pending, rport, lease>>
    BY <1>2 DEF vars
  <2> QED  BY <2>1 DEF LeaseInv, LeaseBacked, LiveRevs, NoLeakedLease, Accounted, Exists
<1>3. ASSUME NEW m \in Mapping, UserRequest(m) PROVE LeaseBacked' /\ NoLeakedLease'
  BY <1>1, <1>3, CreateLease, UpdateLease, DeleteToggleLease DEF UserRequest
<1>4. ASSUME NEW m \in Mapping, PurgeMapping(m) PROVE LeaseBacked' /\ NoLeakedLease'
  BY <1>4, PurgeLease
<1>5. ASSUME NEW u \in User, ActivatePending(u) \/ FailPending(u)
      PROVE  LeaseBacked' /\ NoLeakedLease'
  BY <1>5, ActivateLease, FailLease
<1> QED  BY <1>2, <1>3, <1>4, <1>5 DEF Next

\* Leased ports are not shared, because a port has one lease.
LEMMA BackedIsExclusive == LeaseInv => PortExclusive
<1> SUFFICES ASSUME LeaseInv, NEW m \in Mapping, NEW n \in Mapping, m # n,
                    NEW r \in LiveRevs(m), NEW s \in LiveRevs(n), rport[m][r] # NoPort
             PROVE  rport[m][r] # rport[n][s]
  BY DEF PortExclusive
<1> QED  BY BackedPort

\* As long as no pending port is resubmitted, every live revision has its port leased,
\* and the lease of an active one is safe from failed applies and newer edits.
THEOREM LeasesBacked == ASSUME ~ReeditPendingPort PROVE Spec => []LeaseBacked
<1>1. LeaseInv => LeaseBacked
  BY DEF LeaseInv
<1>2. LeaseInv /\ [Next]_vars => LeaseInv'
  BY NextLease
<1> QED  BY <1>1, <1>2, InitLease, PTL DEF Spec

\* Under the same condition no lease outlives the purpose it was taken for.
THEOREM LeasesAccounted == ASSUME ~ReeditPendingPort PROVE Spec => []NoLeakedLease
<1>1. LeaseInv => NoLeakedLease
  BY DEF LeaseInv
<1>2. LeaseInv /\ [Next]_vars => LeaseInv'
  BY NextLease
<1> QED  BY <1>1, <1>2, InitLease, PTL DEF Spec

\* Under the same condition no two mappings, of one account or of two, have the same
\* remote port in revisions that are or may be put in force.
THEOREM PortsExclusive == ASSUME ~ReeditPendingPort PROVE Spec => []PortExclusive
<1>1. LeaseInv /\ [Next]_vars => LeaseInv'
  BY NextLease
<1> QED  BY <1>1, BackedIsExclusive, InitLease, PTL DEF Spec

=============================================================================
