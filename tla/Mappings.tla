------------------------------ MODULE Mappings ------------------------------
(***************************************************************************)
(* The authority the Server keeps over proxies: mappings, their immutable  *)
(* revisions, the leases on remote ports and the desired configuration     *)
(* version (server/internal/service/service.go).  SQLite runs on one       *)
(* connection (db.go), so a transaction is one atomic step.                *)
(*                                                                         *)
(* This module has the transactions that write these tables.  When those   *)
(* of ApplyResult run is left open here: the outcome of an apply may be    *)
(* recorded at any time.  ConfigSync adds the fetches and reports that     *)
(* decide it, and is shown to implement this module.                       *)
(***************************************************************************)
EXTENDS Integers, FiniteSets

CONSTANTS
    User,                  \* accounts, all with status 'active'
    Mapping,               \* mapping ids; every id is created at most once
    Owner,                 \* Owner[m]: the account that creates m
    NoMapping,             \* the mapping of a port nobody leases
    Port,                  \* the remote ports a request may name
    PortStart, PortEnd,    \* FRP_PORT_START and FRP_PORT_END
    FRPSBindPort,          \* FRPS_BIND_PORT
    MaxMappings,           \* users.max_mappings
    MaxPendingMappings,    \* users.max_pending_mappings
    MaxPendingPortLeases,  \* users.max_pending_port_leases
    MaxRevision,           \* bound: revisions of one mapping
    MaxVersion,            \* bound: desired_config_version of one account
    ReeditPendingPort      \* may a user resubmit a port change that is still pending?

NoPort == 0
NoRev == 0
PortRange == PortStart..PortEnd
RevNo == 1..MaxRevision

ASSUME UserAssumption == Owner \in [Mapping -> User] /\ NoMapping \notin Mapping
ASSUME PortAssumption == /\ Port \subseteq Nat \ {NoPort}
                         /\ PortStart \in Nat /\ PortEnd \in Nat
                         /\ PortRange \subseteq Port
ASSUME BoundAssumption == /\ MaxRevision \in Nat /\ MaxVersion \in Nat
                          /\ ReeditPendingPort \in BOOLEAN

VARIABLES
    life,      \* mappings.lifecycle_status; "absent" before the row, "purged" after it
    want,      \* mappings.desired_state
    active,    \* mappings.active_revision_id, as a revision number
    pending,   \* mappings.pending_revision_id, as a revision number
    rport,     \* mapping_revisions.remote_port
    rstat,     \* mapping_revisions.status; "none": there is no such row
    lease,     \* port_leases, by remote_port: UNIQUE(server_id, remote_port)
    desired    \* users.desired_config_version

vars == <<life, want, active, pending, rport, rstat, lease, desired>>

Life == {"absent", "pending_apply", "running", "config_error", "disabled",
         "deleting", "purged"}
RevStatus == {"none", "pending", "active", "failed", "superseded"}

Lease == [mapping : Mapping \cup {NoMapping}, rev : RevNo \cup {NoRev},
          role : {"none", "active", "pending"}]
NoLease == [mapping |-> NoMapping, rev |-> NoRev, role |-> "none"]

-----------------------------------------------------------------------------
(* Rows and joins the handlers look at.                                    *)

Exists(m) == life[m] \notin {"absent", "purged"}
MappingsOf(u) == {m \in Mapping : Owner[m] = u /\ Exists(m)}
Awaiting(u) == {m \in MappingsOf(u) : life[m] = "pending_apply"}

\* COALESCE(pending_revision_id, active_revision_id), and its remote_port.
CurrentRev(m) == IF pending[m] # NoRev THEN pending[m] ELSE active[m]
PortOf(m, r) == IF r = NoRev THEN NoPort ELSE rport[m][r]

\* The leases that count against max_pending_port_leases.
PendingPorts(u) ==
    {p \in Port : /\ lease[p].mapping \in MappingsOf(u)
                  /\ \/ lease[p].role = "pending"
                     \/ lease[p].mapping \in Awaiting(u)}

\* r is MAX(revision) + 1 of mapping m.
NextRevision(m, r) == \A k \in RevNo : (rstat[m][k] # "none") <=> (k < r)

BumpVersion(u) == /\ desired[u] < MaxVersion
                  /\ desired' = [desired EXCEPT ![u] = @ + 1]

-----------------------------------------------------------------------------
Init ==
    /\ life = [m \in Mapping |-> "absent"]
    /\ want = [m \in Mapping |-> "enabled"]
    /\ active = [m \in Mapping |-> NoRev]
    /\ pending = [m \in Mapping |-> NoRev]
    /\ rport = [m \in Mapping |-> [r \in RevNo |-> NoPort]]
    /\ rstat = [m \in Mapping |-> [r \in RevNo |-> "none"]]
    /\ lease = [p \in Port |-> NoLease]
    /\ desired = [u \in User |-> 0]

-----------------------------------------------------------------------------
(* Requests of a user.  "tcp" stands for tcp and udp, which the code treats *)
(* alike; a request that names no port has req = NoPort.                   *)

\* allocatePort: the lowest port of the range without a lease.
AllocatePort(p) == /\ p \in PortRange /\ lease[p] = NoLease
                   /\ \A q \in PortRange : q < p => lease[q] # NoLease

\* The port CreateMapping leases for a request.
CreatePort(kind, req, p) ==
    \/ kind = "http" /\ p = req
    \/ /\ kind = "tcp"
       /\ IF req = NoPort THEN AllocatePort(p) ELSE p = req
       /\ p \in PortRange /\ p # FRPSBindPort

CreateMapping(m, kind, req) ==
    LET u == Owner[m] IN
    /\ life[m] = "absent"
    /\ Cardinality(MappingsOf(u)) < MaxMappings
    /\ Cardinality(Awaiting(u)) < MaxPendingMappings
    /\ kind = "tcp" => Cardinality(PendingPorts(u)) < MaxPendingPortLeases
    /\ 1 \in RevNo
    /\ \E p \in Port \cup {NoPort} :
          /\ CreatePort(kind, req, p)
          /\ p # NoPort => lease[p] = NoLease
          /\ rport' = [rport EXCEPT ![m][1] = p]
          /\ lease' = [q \in Port |->
                IF q = p THEN [mapping |-> m, rev |-> 1, role |-> "active"]
                ELSE lease[q]]
    /\ life' = [life EXCEPT ![m] = "pending_apply"]
    /\ want' = [want EXCEPT ![m] = "enabled"]
    /\ pending' = [pending EXCEPT ![m] = 1]
    /\ rstat' = [rstat EXCEPT ![m][1] = "pending"]
    /\ BumpVersion(u)
    /\ UNCHANGED active

\* The port UpdateMapping asks for: FRPSBindPort is not excluded here.
UpdatePort(m, kind, req, p) ==
    \/ kind = "http" /\ p = req
    \/ /\ kind = "tcp"
       /\ p = IF req = NoPort THEN PortOf(m, CurrentRev(m)) ELSE req
       /\ p \in PortRange

\* Mutant: the lease of the superseded revision is not deleted.
SupersededKept(m) == {}

\* The temporary leases of a revision that a newer one supersedes.
Superseded(m) ==
    {q \in Port : /\ pending[m] # NoRev /\ lease[q].role = "pending"
                  /\ lease[q].mapping = m /\ lease[q].rev = pending[m]}

\* The new lease an update takes: none when the port is the current one.
NewPorts(m, p) == {p} \ {NoPort, PortOf(m, CurrentRev(m))}

\* Resubmitting a port change before the Client has answered it.
Reedit(m, p) == p \in Superseded(m)

UpdateMapping(m, kind, req) ==
    LET u == Owner[m] IN
    /\ Exists(m)
    /\ life[m] # "pending_apply" => Cardinality(Awaiting(u)) < MaxPendingMappings
    /\ \E p \in Port \cup {NoPort}, r \in RevNo :
          /\ UpdatePort(m, kind, req, p)
          /\ ReeditPendingPort \/ ~Reedit(m, p)
          /\ NewPorts(m, p) # {} =>
                Cardinality(PendingPorts(u)) < MaxPendingPortLeases
          /\ \A q \in NewPorts(m, p) : lease[q] = NoLease \/ q \in Superseded(m)
          /\ NextRevision(m, r)
          /\ rport' = [rport EXCEPT ![m][r] = p]
          /\ rstat' = [rstat EXCEPT ![m] = [k \in RevNo |->
                IF k = r THEN "pending"
                ELSE IF k = pending[m] /\ rstat[m][k] = "pending" THEN "superseded"
                ELSE rstat[m][k]]]
          /\ lease' = [q \in Port |->
                IF q \in NewPorts(m, p)
                THEN [mapping |-> m, rev |-> r, role |-> "pending"]
                ELSE IF q \in Superseded(m) THEN NoLease ELSE lease[q]]
          /\ pending' = [pending EXCEPT ![m] = r]
    /\ life' = [life EXCEPT ![m] = "pending_apply"]
    /\ BumpVersion(u)
    /\ UNCHANGED <<want, active>>

DeleteMapping(m) ==
    /\ Exists(m)
    /\ life' = [life EXCEPT ![m] = "deleting"]
    /\ want' = [want EXCEPT ![m] = "disabled"]
    /\ BumpVersion(Owner[m])
    /\ UNCHANGED <<active, pending, rport, rstat, lease>>

ToggleMapping(m, state) ==
    /\ Exists(m)
    /\ want' = [want EXCEPT ![m] = state]
    /\ life' = [life EXCEPT ![m] =
                  IF state = "enabled" THEN "pending_apply" ELSE "disabled"]
    /\ BumpVersion(Owner[m])
    /\ UNCHANGED <<active, pending, rport, rstat, lease>>

-----------------------------------------------------------------------------
(* The transactions that record the outcome of an apply and a deletion.    *)

\* Mutant: active_revision_id=pending_revision_id, without the COALESCE.
ActivatedNull(u, m) == IF m \in MappingsOf(u) THEN pending[m] ELSE active[m]

\* The revision that is active once u's pending revisions are switched.
Activated(u, m) == IF m \in MappingsOf(u) THEN CurrentRev(m) ELSE active[m]

\* Mutant: the leases are swept before active_revision_id is switched.
ActivatedLeaseEarly(u, p) ==
    LET m == lease[p].mapping IN
    IF m \notin MappingsOf(u) THEN lease[p]
    ELSE IF active[m] # NoRev /\ rport[m][active[m]] = p
         THEN [mapping |-> m, rev |-> Activated(u, m), role |-> "active"]
         ELSE NoLease

\* Mutant: the old port's lease is not deleted.
ActivatedLeaseAll(u, p) ==
    LET m == lease[p].mapping IN
    IF m \notin MappingsOf(u) \/ Activated(u, m) = NoRev THEN lease[p]
    ELSE [mapping |-> m, rev |-> Activated(u, m), role |-> "active"]

\* The lease on p after the switch: kept for the active revision's port only.
ActivatedLease(u, p) ==
    LET m == lease[p].mapping IN
    IF m \notin MappingsOf(u) THEN lease[p]
    ELSE IF Activated(u, m) # NoRev /\ rport[m][Activated(u, m)] = p
         THEN [mapping |-> m, rev |-> Activated(u, m), role |-> "active"]
         ELSE NoLease

\* Mutant: every active revision is superseded, pending or not.
ActivatedStatusEvery(u, m, r) ==
    IF m \in MappingsOf(u)
    THEN IF r = pending[m] THEN "active"
         ELSE IF r = active[m] THEN "superseded" ELSE rstat[m][r]
    ELSE rstat[m][r]

ActivatedStatus(u, m, r) ==
    IF m \in MappingsOf(u) /\ pending[m] # NoRev
    THEN IF r = pending[m] THEN "active"
         ELSE IF r = active[m] THEN "superseded" ELSE rstat[m][r]
    ELSE rstat[m][r]

\* Mutant: the observed state of a disabled proxy is written as its lifecycle.
ActivatedLifeObserved(u, m) ==
    IF m \notin MappingsOf(u) \/ life[m] = "deleting" THEN life[m]
    ELSE IF want[m] = "disabled" THEN "offline" ELSE "running"

ActivatedLife(u, m) ==
    IF m \notin MappingsOf(u) \/ life[m] = "deleting" THEN life[m]
    ELSE IF want[m] = "disabled" THEN "disabled" ELSE "running"

\* ApplyResult's transaction for a configuration that u's Client has put in force.
ActivatePending(u) ==
    /\ rstat' = [m \in Mapping |-> [r \in RevNo |-> ActivatedStatus(u, m, r)]]
    /\ active' = [m \in Mapping |-> Activated(u, m)]
    /\ pending' = [m \in Mapping |-> IF m \in MappingsOf(u) THEN NoRev ELSE pending[m]]
    /\ life' = [m \in Mapping |-> ActivatedLife(u, m)]
    /\ lease' = [p \in Port |-> ActivatedLease(u, p)]
    /\ UNCHANGED <<want, rport, desired>>

\* Mutant: a failed apply releases every port of the account.
FailedLeaseAll(u, p) == IF lease[p].mapping \in MappingsOf(u) THEN NoLease ELSE lease[p]

\* What a failed apply leaves of the lease on p: the new ports are released.
FailedLease(u, p) ==
    IF lease[p].mapping \in MappingsOf(u) /\ lease[p].role = "pending"
    THEN NoLease ELSE lease[p]

\* ApplyResult's transaction for a configuration that u's Client could not apply.
FailPending(u) ==
    /\ rstat' = [m \in Mapping |-> [r \in RevNo |->
          IF m \in MappingsOf(u) /\ rstat[m][r] = "pending" THEN "failed"
          ELSE rstat[m][r]]]
    /\ pending' = [m \in Mapping |-> IF m \in MappingsOf(u) THEN NoRev ELSE pending[m]]
    /\ life' = [m \in Mapping |->
          IF m \in MappingsOf(u) /\ life[m] \notin {"disabled", "deleting"}
          THEN "config_error" ELSE life[m]]
    /\ lease' = [p \in Port |-> FailedLease(u, p)]
    /\ UNCHANGED <<want, active, rport, desired>>

\* finalizeDeletedMapping: DELETE FROM mappings ... AND lifecycle_status='deleting',
\* which cascades to the revisions and the leases.
PurgeMapping(m) ==
    /\ life[m] = "deleting"
    /\ life' = [life EXCEPT ![m] = "purged"]
    /\ active' = [active EXCEPT ![m] = NoRev]
    /\ pending' = [pending EXCEPT ![m] = NoRev]
    /\ rport' = [rport EXCEPT ![m] = [r \in RevNo |-> NoPort]]
    /\ rstat' = [rstat EXCEPT ![m] = [r \in RevNo |-> "none"]]
    /\ lease' = [p \in Port |-> IF lease[p].mapping = m THEN NoLease ELSE lease[p]]
    /\ UNCHANGED <<want, desired>>

-----------------------------------------------------------------------------
UserRequest(m) ==
    \/ \E kind \in {"tcp", "http"}, req \in Port \cup {NoPort} :
          CreateMapping(m, kind, req) \/ UpdateMapping(m, kind, req)
    \/ DeleteMapping(m)
    \/ \E state \in {"enabled", "disabled"} : ToggleMapping(m, state)

Next ==
    \/ \E m \in Mapping : UserRequest(m) \/ PurgeMapping(m)
    \/ \E u \in User : ActivatePending(u) \/ FailPending(u)

Spec == Init /\ [][Next]_vars

-----------------------------------------------------------------------------
(* Properties.                                                             *)

TypeOK ==
    /\ life \in [Mapping -> Life]
    /\ want \in [Mapping -> {"enabled", "disabled"}]
    /\ active \in [Mapping -> RevNo \cup {NoRev}]
    /\ pending \in [Mapping -> RevNo \cup {NoRev}]
    /\ rport \in [Mapping -> [RevNo -> Port \cup {NoPort}]]
    /\ rstat \in [Mapping -> [RevNo -> RevStatus]]
    /\ lease \in [Port -> Lease]
    /\ desired \in [User -> Nat]

\* Each mapping has at most one pending and one active revision, and they are the ones
\* its row points to: UpdateMapping "keeps one authoritative pending revision per
\* mapping", and ApplyResult never leaves a mapping "pointing at a revision whose
\* state no longer reflects the database authority".
RevisionAuthority ==
    \A m \in Mapping, r \in RevNo :
       /\ rstat[m][r] = "pending" <=> pending[m] = r
       /\ rstat[m][r] = "active" <=> active[m] = r

\* The revisions of m that are in force or that a Client may put in force.
LiveRevs(m) == {active[m], pending[m]} \ {NoRev}

\* The port of every active and every pending revision is leased to that mapping, and
\* the lease of an active revision's port is not a temporary one, so that neither a
\* failed apply nor a newer edit can release it (DELETE ... lease_role='pending').
LeaseBacked ==
    \A m \in Mapping : \A r \in LiveRevs(m) :
       rport[m][r] # NoPort =>
          /\ lease[rport[m][r]].mapping = m
          /\ r = active[m] => lease[rport[m][r]].role = "active"

\* Two mappings never have the same remote port in their active or pending revisions.
PortExclusive ==
    \A m, n \in Mapping : m # n =>
       \A r \in LiveRevs(m), s \in LiveRevs(n) :
          rport[m][r] # NoPort => rport[m][r] # rport[n][s]

\* The lease on p serves a purpose.
Accounted(p) ==
    LET m == lease[p].mapping IN
    /\ m \in Mapping /\ Exists(m)
    /\ lease[p].role = "pending" =>
          /\ pending[m] # NoRev /\ lease[p].rev = pending[m]
          /\ rport[m][pending[m]] = p
    /\ lease[p].role = "active" /\ active[m] # NoRev => rport[m][active[m]] = p

\* Leases do not leak: a pending lease is the one of the mapping's pending revision, and
\* once a revision is active every other lease of the mapping is a pending one
\* (UpdateMapping's DELETE, ApplyResult's DELETE ... NOT EXISTS).
NoLeakedLease == \A p \in Port : lease[p] # NoLease => Accounted(p)

\* The history of a mapping only grows: no older revision becomes active again, and a
\* revision that failed or was superseded stays so.  UpdateMapping supersedes the pending
\* revision to prevent "a later successful apply from activating stale revisions".
RevisionHistory ==
    [][\A m \in Mapping : life'[m] # "purged" =>
          /\ active'[m] >= active[m]
          /\ \A r \in RevNo : rstat[m][r] \in {"failed", "superseded"} =>
                rstat'[m][r] = rstat[m][r]]_vars

=============================================================================
