----------------------------- MODULE ConfigSync -----------------------------
(***************************************************************************)
(* How a configuration reaches a Client and how its outcome comes back:    *)
(* FullConfig, the Client's apply and report, and ApplyResult with the     *)
(* clean-up that follows it.  None of these runs in one transaction, so    *)
(* every database statement or transaction is a step of its own and the    *)
(* user's requests of Mappings fall between any two of them.               *)
(*                                                                         *)
(* A Client has several fetches under way at once: every write made in its *)
(* panel calls FetchConfigAndApply, and so does the goroutine that reads   *)
(* its WebSocket.                                                          *)
(***************************************************************************)
EXTENDS Mappings

CONSTANT Fetcher    \* the fetches of one Client that may be under way at once

VARIABLES
    applied,   \* users.applied_config_version
    fetch,     \* fetch[u][f]: what fetch f of u's Client has done and read
    apply      \* the call of ApplyResult being served

syncVars == <<vars, applied, fetch, apply>>

Items == SUBSET (Mapping \X (RevNo \cup {NoRev}))

\* current: config_snapshots holds this fetch's configuration for its version, so that
\* the hash the Client reports is the one ApplyResult finds.
Fetch == [pc : {"idle", "reading", "listed", "fetched"}, version : Nat,
          items : Items, current : BOOLEAN]
NoFetch == [pc |-> "idle", version |-> 0, items |-> {}, current |-> FALSE]

Apply == [pc : {"idle", "checked", "committed", "deleting"},
          user : User, version : Nat, ok : BOOLEAN, items : Items, doomed : SUBSET Mapping]
NoReport(u) == [pc |-> "idle", user |-> u, version |-> 0, ok |-> FALSE,
                items |-> {}, doomed |-> {}]
Served == NoReport(apply.user)

SyncInit ==
    /\ Init
    /\ applied = [u \in User |-> 0]
    /\ fetch = [u \in User |-> [f \in Fetcher |-> NoFetch]]
    /\ \E u \in User : apply = NoReport(u)

-----------------------------------------------------------------------------
(* FullConfig, statement by statement, and the Client's apply.             *)

\* Mutant: the version before the last request is served with the mappings after it.
ReadVersionBefore(u, f) ==
    /\ fetch[u][f].pc = "idle"
    /\ fetch' = [fetch EXCEPT ![u][f].pc = "reading", ![u][f].version = desired[u] - 1]
    /\ UNCHANGED <<vars, applied, apply>>

\* Mutant: the next version is served.
ReadVersionNext(u, f) ==
    /\ fetch[u][f].pc = "idle"
    /\ fetch' = [fetch EXCEPT ![u][f].pc = "reading", ![u][f].version = desired[u] + 1]
    /\ UNCHANGED <<vars, applied, apply>>

ReadVersion(u, f) ==
    /\ fetch[u][f].pc = "idle"
    /\ fetch' = [fetch EXCEPT ![u][f].pc = "reading", ![u][f].version = desired[u]]
    /\ UNCHANGED <<vars, applied, apply>>

\* Mutant: COALESCE(active_revision_id, pending_revision_id).
ConfigItemsActive(u) ==
    {<<m, IF active[m] # NoRev THEN active[m] ELSE pending[m]>> :
        m \in {n \in MappingsOf(u) : life[n] # "deleting" /\ want[n] # "disabled"}}

\* Mutant: the deleted and disabled mappings are not left out.
ConfigItemsAll(u) == {<<m, CurrentRev(m)>> : m \in MappingsOf(u)}

\* The mappings in the configuration, each with the revision it is served with.
ConfigItems(u) ==
    {<<m, CurrentRev(m)>> :
        m \in {n \in MappingsOf(u) : life[n] # "deleting" /\ want[n] # "disabled"}}

ReadMappings(u, f) ==
    /\ fetch[u][f].pc = "reading"
    /\ fetch' = [fetch EXCEPT ![u][f].pc = "listed", ![u][f].items = ConfigItems(u)]
    /\ UNCHANGED <<vars, applied, apply>>

\* INSERT OR REPLACE: one snapshot for an account and a version, the last one written.
StoreSnapshot(u, f) ==
    /\ fetch[u][f].pc = "listed"
    /\ fetch' = [fetch EXCEPT ![u] = [g \in Fetcher |->
          IF g = f THEN [fetch[u][g] EXCEPT !.pc = "fetched", !.current = TRUE]
          ELSE [fetch[u][g] EXCEPT
                   !.current = @ /\ fetch[u][g].version # fetch[u][f].version]]]
    /\ UNCHANGED <<vars, applied, apply>>

\* The fetch fails, or its report is lost or refused.  The Client retries neither.
AbandonFetch(u, f) ==
    /\ fetch[u][f].pc # "idle"
    /\ fetch' = [fetch EXCEPT ![u][f] = NoFetch]
    /\ UNCHANGED <<vars, applied, apply>>

-----------------------------------------------------------------------------
(* ApplyResult.  The idempotency middleware holds writeIdempotencyMu while  *)
(* it serves a report, so reports are served one at a time; requests on    *)
(* mappings do not take that lock.                                         *)

\* Mutant: the report's version is not compared with the desired one.
ReportAcceptedAny(u, f) == fetch[u][f].current

ReportAccepted(u, f) ==
    /\ fetch[u][f].version = desired[u]
    /\ fetch[u][f].current

\* Supervisor.apply checks the local service of every proxy first, and a mapping without
\* a revision is served with local_port 0: such a configuration always fails.
Appliable(items) == \A x \in items : x[2] # NoRev

\* The Client has put the configuration in force (ok) or restored the old one, and its
\* report passes the checks, which ApplyResult makes before it opens a transaction.
CheckReport(u, f, ok) ==
    /\ apply.pc = "idle"
    /\ fetch[u][f].pc = "fetched"
    /\ ok => Appliable(fetch[u][f].items)
    /\ ReportAccepted(u, f)
    /\ apply' = [pc |-> "checked", user |-> u, version |-> fetch[u][f].version,
                 ok |-> ok, items |-> fetch[u][f].items, doomed |-> {}]
    /\ fetch' = [fetch EXCEPT ![u][f] = NoFetch]
    /\ UNCHANGED <<vars, applied>>

ApplySucceeded ==
    /\ apply.pc = "checked" /\ apply.ok
    /\ ActivatePending(apply.user)
    /\ applied' = [applied EXCEPT ![apply.user] = apply.version]
    /\ apply' = [apply EXCEPT !.pc = "committed"]
    /\ UNCHANGED fetch

ApplyFailed ==
    /\ apply.pc = "checked" /\ ~apply.ok
    /\ FailPending(apply.user)
    /\ apply' = Served
    /\ UNCHANGED <<applied, fetch>>

\* finalizeDeletedMappings: the SELECT, then one transaction for each row of it.
SelectDeleted ==
    /\ apply.pc = "committed"
    /\ apply' = [apply EXCEPT !.pc = "deleting",
                    !.doomed = {m \in MappingsOf(apply.user) : life[m] = "deleting"}]
    /\ UNCHANGED <<vars, applied, fetch>>

\* Mutant: the DELETE does not cascade to the revisions and the leases.
DeleteRowOnly(m) ==
    /\ life' = [life EXCEPT ![m] = IF life[m] = "deleting" THEN "purged" ELSE life[m]]
    /\ UNCHANGED <<want, active, pending, rport, rstat, lease, desired>>

\* The DELETE looks at lifecycle_status again, and may find nothing to delete.
DeleteRow(m) == IF life[m] = "deleting" THEN PurgeMapping(m) ELSE UNCHANGED vars

FinalizeDeletedMapping(m) ==
    /\ apply.pc = "deleting" /\ m \in apply.doomed
    /\ DeleteRow(m)
    /\ apply' = [apply EXCEPT !.doomed = @ \ {m}]
    /\ UNCHANGED <<applied, fetch>>

FinishReport ==
    /\ apply.pc = "deleting" /\ apply.doomed = {}
    /\ apply' = Served
    /\ UNCHANGED <<vars, applied, fetch>>

\* The Server stops, or the request's context ends, between two statements.
InterruptReport ==
    /\ apply.pc # "idle"
    /\ apply' = Served
    /\ UNCHANGED <<vars, applied, fetch>>

-----------------------------------------------------------------------------
MappingRequest(m) == UserRequest(m) /\ UNCHANGED <<applied, fetch, apply>>

ClientStep(u, f) ==
    \/ ReadVersion(u, f) \/ ReadMappings(u, f) \/ StoreSnapshot(u, f)
    \/ AbandonFetch(u, f)
    \/ \E ok \in BOOLEAN : CheckReport(u, f, ok)

ReportStep ==
    \/ ApplySucceeded \/ ApplyFailed
    \/ SelectDeleted \/ FinishReport \/ InterruptReport
    \/ \E m \in Mapping : FinalizeDeletedMapping(m)

SyncNext ==
    \/ \E m \in Mapping : MappingRequest(m)
    \/ \E u \in User, f \in Fetcher : ClientStep(u, f)
    \/ ReportStep

SyncSpec == SyncInit /\ [][SyncNext]_syncVars

-----------------------------------------------------------------------------
(* Properties.                                                             *)

SyncTypeOK ==
    /\ applied \in [User -> Nat]
    /\ fetch \in [User -> [Fetcher -> Fetch]]
    /\ apply \in Apply

\* No one claims a version that does not exist yet: what a fetch carries, what a report
\* claims and what is recorded as applied never exceed desired_config_version.
VersionBounded ==
    /\ \A u \in User : applied[u] <= desired[u]
    /\ \A u \in User, f \in Fetcher : fetch[u][f].version <= desired[u]
    /\ apply.version <= desired[apply.user]

\* applied_config_version never goes back: the report of an older configuration that
\* arrives late is refused, though ApplyResult makes the check outside its transaction.
AppliedAdvances == [][\A u \in User : applied'[u] >= applied[u]]_syncVars

\* The request is served on the configuration the Client reports: no request of the user
\* has moved desired_config_version since the check.
Undisturbed(u) == apply.user = u /\ apply.version = desired[u]

\* As long as no request of the user comes between ApplyResult's check and its commit,
\* a revision becomes the active one of a running mapping only if it was in the
\* configuration the Client reports, whatever other fetches and reports do meanwhile.
ActivatedWasServed ==
    [][\A m \in Mapping :
          Undisturbed(Owner[m]) /\ active'[m] # active[m] /\ life'[m] = "running" =>
             <<m, active'[m]>> \in apply.items]_syncVars

\* Under the same condition a mapping is deleted, and its port released, only on the
\* report of a configuration without it.
PurgedWasDropped ==
    [][\A m \in Mapping :
          Undisturbed(Owner[m]) /\ life[m] = "deleting" /\ life'[m] = "purged" =>
             \A x \in apply.items : x[1] # m]_syncVars

=============================================================================
