# A TLA+ model of the FRP panel platform

The platform publishes services of private machines through FRP. A **Server** (Go, SQLite)
holds all authority: accounts, sessions, mappings (proxies), leases of remote ports, domains,
certificates, and the configuration every account's **Client** must run. The Client fetches a
complete signed configuration, writes an frpc configuration from it, restarts frpc and reports
the outcome. A **Router** process serves HTTP hosts from a signed snapshot file and never sees
the database. A **worker** inside the Server runs durable jobs: Cloudflare DNS, certificates,
deletions, router snapshots.

The model follows the code. Where this text names a line, the line is in
`server/internal/service/service.go` unless another file is named.

## 1. Inventory

| Component | State | Operations | Interacts through | What makes it hard | Correct when |
|---|---|---|---|---|---|
| Mapping authority (`service.go`, `cloudflare_jobs.go`) | `mappings`, `mapping_revisions`, `port_leases`, `users.desired_config_version` | CreateMapping, UpdateMapping, DeleteMapping, ToggleMapping, the two transactions of ApplyResult, finalizeDeletedMapping | SQLite; requests of users, reports of Clients | long chains of edits before the Client answers; leases with two roles | rows and revision statuses agree; every live revision's port is leased; no port is shared; no lease leaks |
| Configuration distribution (`service.go`, `client/internal/app/app.go`) | `users.applied_config_version`, `config_snapshots`; a fetch's version, list and hash; a report being served | FullConfig, applySnapshot, ApplyResult, finalizeDeletedMappings | HTTP, WebSocket notification, SQLite | not one of the handlers is one transaction; fetches overlap; reports are lost, late or refused | versions only advance; what is recorded as applied is what the Client reported |
| Job store and worker (`server/internal/jobs/worker.go`) | `jobs` | Enqueue, Claim, Heartbeat, Complete, Fail, Block, Run | SQLite; handlers | lease expiry against a late answer; crash while a job runs; retry budget; de-duplication against a running job | a job is never lost, and a request made while its job runs still takes effect |
| Router snapshots (`router_service.go`, `router/*.go`) | `router_state`, `router_snapshots`, the files, the Router's memory | EnqueueRouterSnapshot, BuildRouterSnapshot, Runtime.Load, Watcher | the job store; a file | several statements and two file writes without a transaction; crash between any two | the Router's version never goes back and reaches the last state of the database |
| Sessions and authentication (`service.go` 280-538, 1533-1687, 1950-1972; `httpapi.go` 252-451) | `sessions`, `frp_runtime_credentials`, `reauth_tickets`, `users` (status, generation, password), the mutex of the idempotency middleware | Login, Authenticate, Logout, ChangeCredentials, tickets, ResetUserPassword, SetUserStatus, ResetFRPCredential, authorizeFRP | HTTP, the frps plugin | requests authenticated before the lock and served after it; revocations in statements of their own whose errors are ignored | one honoured session for an account, none comes back, and the one that is left can run frpc |
| Domains, DNS, certificates (`service.go` 1023-1268, 2087-2180, `cloudflare_jobs.go`) | `domain_bindings`, `dns_records`, `certificates`, `operations`, jobs; the owner's zone | CreateDomain, ResolveDomainDNS, DeleteDomain, RetryOperation, syncDomainDNS, deleteDomainExternal, issueCertificate | jobs, the Cloudflare API, ACME, router builds | external calls between statements, whose answers are lost; deletion racing a DNS job; an owner who edits the zone | no record of the owner is removed; nothing managed is left outside unlisted; deletions end |
| Account deletion | `users`, `operations`, `external_residues` | DeleteUser, deleteUserExternal, RetryOperation | jobs | many steps, each may fail; forced deletion; revival by SetUserStatus | every resource is deleted or recorded as residue |
| Cloudflare tokens | `cloudflare_credentials`, `users.active_cloudflare_token_version` | SetCloudflareToken, verifyCloudflareToken, ClearCloudflareToken | jobs | verification of an old token racing a new one | only the newest verified token is active |
| Client supervisor (`client/internal/supervisor/supervisor.go`) | queue, secrets, frpc.toml, last-good, frpc.pid, the frpc process | Apply, reload, restart, rollback, Stop, ClearRuntimeSecrets, RecoverOrphan | goroutines, files, processes | crash between file and process; callers that give up; a clean-up that does not pass through the queue | one frpc, which the next start can find; a failed apply leaves the old configuration |
| Client session (`client/internal/app/app.go`) | tokens, socket generation | LoginWithTrust, Logout, runWebSocket, invalidateRemoteSession, FetchConfigAndApply | HTTP, WebSocket | logout racing a fetch; lost and late notifications | an ended session is given up; after it nothing runs |
| Idempotency middleware (`server/internal/httpapi/httpapi.go` 365-480) | `idempotency_records` | idempotency, serviceOwnsIdempotency | every write | the record is written after the handler | a retried write is not done twice |
| Backup and restore (`server/internal/backup/backup.go`) | archive files | Create, Restore | files | crash while restoring | a restore is all or nothing |
| Panels, wording, crypto, HTTP plumbing | – | – | – | – | not modelled |

## 2. Modules

| Module | What it is |
|---|---|
| `Mappings` | the transactions on mappings, revisions, leases and the desired version; the outcome of an apply may be recorded at any time |
| `ConfigSync` | extends it with fetches, reports and the statements of FullConfig and ApplyResult; implements `Mappings` |
| `Jobs` | the jobs table, its worker, requests, seeding, leases and crashes |
| `RouterSnapshots` | extends `Jobs`: the snapshot job's handler step by step, the file, the Router; implements `Jobs` |
| `SingleSession` | what the Server promises about Client sessions, in two actions |
| `Sessions` | the statements of login, authentication and everything that ends a session; implements `SingleSession` |
| `Domains` | the requests on one account's domains, the jobs that carry them out, and the zone |
| `Client` | the Client Panel: calls, socket, Supervisor, files and frpc |
| `MCMappings`, `MCConfigSync`, `MCJobs`, `MCRouterSnapshots`, `MCSessions`, `MCDomains`, `MCClient` | instances for TLC |
| `MappingsProofs`, `ConfigSyncProofs`, `JobsProofs`, `RouterProofs`, `SessionsProofs`, `DomainsProofs`, `ClientProofs` | the theorems |

### Mappings

SQLite runs on one connection (`db.go:33`), so a transaction is one step. A variable is a column
or a table: `life`, `want`, `active`, `pending` are the columns of `mappings`; `rport`, `rstat`
those of `mapping_revisions`, indexed by mapping and revision number; `lease` is `port_leases`
indexed by port, which is what its unique index says. `tcp` stands for tcp and udp, which the code
treats alike. Left out: local address, names, bandwidth, domains. A request that fails changes
nothing (its transaction is rolled back), so it is not a step. Ids are not reused.

The constant `ReeditPendingPort` says whether users resubmit a port change before it is answered.
The code permits it, and then loses a lease (run `mappings_reedit`); everything else about leases is
checked and proved for the behaviours without it.

### ConfigSync

`fetch[u][f]` is one of several calls of FetchConfigAndApply under way in a Client: the statements
of FullConfig (version, list, snapshot), then the apply, seen as its outcome. `apply` is the report
being served; the idempotency middleware's mutex makes that one at a time. Between any two of their
steps, requests of the user and other fetches take place. `AbandonFetch` is a failed fetch, a lost
report or a refused one; `InterruptReport` a crash, or a request that is cancelled.

### Jobs

The unique index `one_active_deduplicated_job` allows one active row for a type and a
de-duplication key and nothing reads a row that has ended, so `job[k]` is the last row of key `k`:
status, attempts, whether a lock is in force (`locked`) and whether `run_after` has passed (`due`).
There is one worker (`run`), which is also how the code uses the store. `asking` holds the requests
that have committed their change and not yet called Enqueue, which is always a statement of its own
after the transaction. `failures` is a history variable: how often the handler of a row has failed.

| Code | Action |
|---|---|
| `Enqueue`, and `enqueueUserDeleteJob` for the keys of `WakeKey` | `Ask`, `Enqueue` |
| `main` and `RunJobs` at the start; the daily pass | `Start`, `Reseed` (both through `Seeded`) |
| `Claim` | `Claim` |
| `Complete`, `Fail`, `Block` after the handler has returned | `Complete`, `Fail`, `Block` |
| `Heartbeat` | `Heartbeat`, when it works and in time: its error is ignored (`worker.go:257`) |
| time | `ComeDue`, `Expire` (also of a lock whose handler still runs) |
| the process ends; `Run` returns a database error | `Crash`, `StopWorker` |

`INSERT OR IGNORE` and the UPDATE that `enqueueUserDeleteJob` adds are two statements in the code and
one step here: whatever the worker does between them, one of them alone or the two together at
either moment leave the same rows. A seeding pass may ask for any set of keys, since what waits for
something is not part of this model. `locked` says that `lock_expires_at` has not passed; `lock_owner` does not need a
variable, since one worker exists at a time and Claim is the only writer.

### RouterSnapshots

`BuildRouterSnapshot` runs no transaction; `build` is its program counter with what it has read. Its
steps are the SELECT, the version, last-good.json (the versioned file is never read), the three
statements, and one UPDATE per domain. Requests, the Watcher and crashes come between any two of them, and
any of them may fail. Of a domain the model keeps whether it is in the snapshot (`bound`), being
deleted or gone, and whether its mapping is running. `changed` says that the Watcher has not seen the last write; a file that `Runtime.Load` refuses is not
tried again. The Router's table is lost with the Server's process. `torn` is a history variable: a
build has ended between last-good.json and router_state.

UpdateMapping, DeleteMapping and a failed apply change a mapping's state without asking for a snapshot
and are left out. What a build writes to the statuses of domains and their operations is in `Domains`.

### Sessions

`sess[s]` is a row of `sessions` with its row of `frp_runtime_credentials`; ids are numbered in the
order of creation. Passwords are numbers: `pw` is the account's, `known` what its owner knows, `reset`
(a history variable) the one the last reset has set. A request `req[r]` moves through the statements of
Authenticate (`found`, `authed`), waits for the middleware's lock (`Enter`), and runs its handler statement by
statement; it may be abandoned after each one, which releases the lock, and a crash ends them
all. The lock is taken by logout, change of password, tickets, status and password reset; not by
logins, rotation of the FRP secret and deletion of accounts (`serviceOwnsIdempotency` and the routes without
the middleware). `time` says which deadlines have passed: Authenticate refuses an idle session, authorizeFRP does not.

| Code | Action |
|---|---|
| `Login` (one transaction) | `Login` |
| `Authenticate`: the SELECT; the generation and the idle deadline | `FindSession`, `CheckGeneration` |
| `Logout` | `LogoutSession`, `LogoutCredentials` |
| `ChangeCredentials`, `IssueReauthTicket` | `VerifyPassword`, then `ChangePassword` or `IssueTicket` |
| `SetUserStatus`, `ResetUserPassword` and the UPDATEs after them | `SetUserStatus`, `ResetUserPassword`, `RevokeUserSessions`, `RevokeUserCredentials` |
| `RequireReauthTicket`, `ResetFRPCredential` (one transaction) | `RequireReauthTicket`, `ResetFRPCredential`, `AdminResetFRPCredential` |
| `DeleteUser`, as far as sessions go | `DeleteUser` |

An administrator's own session is not modelled: his requests arrive authenticated. Nor are login
failures, TouchSession (it moves the idle deadline as Authenticate does) and the NewProxy part of authorizeFRP.

`SingleSession` is the promise: `Open` puts a session nobody ever had in the place of the one before it,
`Close` ends it. The mapping of `Sessions` to it computes `honoured` from what Authenticate would accept.

### Domains

One account with its domains. `dom`, `row`, `cert`, `op` are its tables, `ext` the zone: the
id of the record under the name, who wrote it last and whether it is as the panel wants it. `q` holds the
active jobs by de-duplication key with their payload, `ask` the requests that have committed and not yet
called Enqueue, `w` the worker: its job, the next statement and what it has read. Record ids are small numbers; a new record gets
one that neither the zone nor the row nor the worker has (`Fresh`), since the provider does not give one out twice. The claim,
budget and lease of jobs are those of `Jobs`; here a failed job is due again or given up. Every call of
the provider may succeed, fail, be refused for missing permission, or take effect and lose its answer. The owner edits the zone
(`OwnerEdits`), the Server crashes (`Crash`), administrators delete, force and revive the account.

The worker's steps are named for the functions: `Sync...` is syncDomainDNS with saveDNSRecord, `Remove...`
deleteDomainExternal, `Finalize...` finalizeDeletedDomain, `Certify...` issueCertificate, `Build...` what
BuildRouterSnapshot reads and writes of a domain, `User...` deleteUserExternal. `MarkDomain` and
`MarkOperations` are the two statements of the mark...Failure functions.
`ACMEEnabled` is the setting that decides whether syncDomainDNS leaves a domain to its certificate (`cloudflare_jobs.go:611`).

### Client

A call (`call[t]`) is the sequence of steps it still has to take; two goroutines run calls of the page and
of the socket. A login reads whether there is a session to replace before it asks the Server (`StartLogin`), and acts on it
after the answer (`LoginAnswer`). `queue` and `w` are the Supervisor: operations run one after the other, each caller waits for
its result or gives up. `disk` is the secrets (of which session), frpc.toml and the pid file (frpc.last-good.toml is written and
removed with frpc.toml and never read); `proc` the processes, `handle` Supervisor.process, `w.pid` the process that is being
started or stopped. A configuration knows the session it was fetched for and the one whose credentials
were injected. The Server is reduced to which session it honours.

| Code | Action |
|---|---|
| `LoginWithTrust`, `Logout`, `FetchConfigAndApply`, notifications, `main`'s end | `StartLogin`, `StartCall`, `Receive`, `StartTerminate`, then the steps `LoginAnswer` to `DropSnapshot`, `Quit` |
| `runWebSocket`, heartbeat | `Dial`, `Heartbeat`, `Disconnect` |
| `ClearRuntimeSecrets` | `ClearSecrets`, `ClearConfig`, `DropSnapshot`; `ClearFails` when a file cannot be removed |
| `apply` | `WriteSecrets`, `Verify`, `Replace`, `Reload` or `Restart`, `Commit` or `Rollback` and once more `Restart`, `Fail` |
| `stopProcess` | `StopProcess` (in `Restart` and `StopOperation`), `Await`, `Kill`, `Hang` |
| `restart` after the stop | `StartProcess`, `MarkProcess` |
| the goroutine that waits for frpc | `WaiterRead`, `WaiterRemove`, `WaiterClear` |
| `RecoverOrphan` | `Recover`, `RecoverFails` |

The waiter's `removePIDIf` is two steps, its read and its remove, because the Supervisor may start and mark another process
between them; `unmarked` (a history variable) collects the processes whose marker is lost that way. In the Supervisor's
own goroutine `removePIDIf` is one step, since nobody else writes a marker. `lost` (a history variable) are the processes the next start
cannot know of or could not end: without a marker when the Client went, or left by a RecoverOrphan that failed.

Steps that fail are part of the steps: half-written secrets, verification, the rename (also after it has replaced the file),
reload (also after it has taken effect), a marker that cannot be written, an frpc that exits at once, the restoring
write of the rollback, whose error is ignored, and a binary that is refused in the rollback. `Hang` is stopProcess waiting for a message on
`done` that restart has already taken (`supervisor.go` 513-519, 598-620).
Left out: rendering frpc.toml, the capacity of the queue (32), the mode without a binary, pins and backoff, the logout of the replaced session
that a login sends (the Server has ended it already), and a pid that the system uses again while the waiter of its former owner is at work.

## 3. Runs

| Run | Bounds | Shows |
|---|---|---|
| `mappings` | 2 accounts, 1 mapping each, 3 ports of which one is frps's own, 3 revisions, 3 versions | leases across accounts, revisions, history |
| `sync` | 1 account, 1 mapping, 2 overlapping fetches, 3 revisions, 3 versions | the protocol implements `Mappings`; versions; what an undisturbed report may do |
| `jobs` | 2 keys (a certificate job that may be blocked, an account deletion), budget 2, 2 crashes, 1 blocked attempt | leases with late and failing heartbeats, budget, and that every job ends as long as handlers do |
| `router` | 1 domain, 4 versions, budget 2, 1 crash | what torn builds leave; what is served |
| `sessions` | 1 account, 2 sessions, 2 requests, 4 generations, 3 passwords, 1 ticket | one honoured session, which can run frpc; tickets and password changes against resets |
| `domains` | 1 domain without certificate, 3 requests, 1 disturbance (crash, given-up job, seeding, edit of the zone) | no record of the owner is removed, no managed record is forgotten |
| `domain_deletion` | 1 domain without certificate, 3 requests and disturbances together, at most 1 disturbance, fair | a deletion ends, as long as Clients report |
| `client` | 2 sessions, 2 versions, 2 processes, 2 calls in 2 goroutines, 2 disturbances (exit, kill, give-up, lost socket, file that cannot be removed, failed recovery) | one frpc, marked unless a late waiter took the marker; rolled back when an apply fails |
| `client_live` | 2 sessions, 1 version, 1 process, 2 calls, 2 disturbances before the second login, fair | the queue is worked off; an ended session is noticed |
| `mappings_reedit`, `domains_unmanaged`, `client_late_apply` | as the runs above, smaller | disagreements, see section 5 |

Three revisions make a superseded, an active and a pending one exist together; three versions let a
request fall on either side of a fetch and of its report. A budget of two tells the first failure from the
last one, and two crashes let a job be interrupted twice, once at its last attempt. One domain has three tables (absent, offline, online), and four versions let builds
follow one that was cut off and one that was retried. Two sessions are a session and its successor, and four generations leave room for a reset, a disabling and a
rotation between their logins; accounts do not interact, and the theorems cover any number. Three requests on a domain are a creation, a deletion
and whatever comes between or after them (an answer to a conflict, a second deletion, the account's deletion or revival), also in `domain_deletion`, where a
domain is brought back after its deletion has begun. `MaxEvents` bounds requests and disturbances together, and `MaxDisturbances2` the disturbances
of behaviours with two logins. Two
goroutines are a call and another one that overtakes it; two processes an frpc and its successor. Views drop what no action and no property
looks at (the ports of dead revisions, the lists in fetches that can only be refused). Symmetry is used for
accounts, fetches, requests, goroutines, and in `client` for versions and pids, and in no run that checks liveness. Every bound is a
constant named `Max...` or the size of a set.

Deadlock is checked in the runs of `Mappings`, `ConfigSync`, `Jobs`, `RouterSnapshots` and `Sessions`. The
bounded numbers of requests and calls of `MCDomains` and `MCClient` let those systems come to rest, so their runs do not check it.

Fairness (`FairJobs`): the worker polls every 500 ms and claims in the order of `run_after`, so a row
that is due again and again is claimed (strong fairness of Claim); clocks advance, so retries come due and locks expire;
requests that are not cut off go on; a Server that is down is started again. Nothing is assumed of handlers: `runOnce`
gives them a context without a deadline (`worker.go:245`, `268`), and the waits of `IssueDNS01` have none of their own
(`cloudflare_dns01.go:133`, `137`). That no handler keeps the worker for ever is therefore a hypothesis of `JobsEnd` itself, `[]<>(run.pc # "busy")`,
and the property says that nothing else keeps a job from ending. Nothing is assumed of requests, crashes, seeding or database errors.

`Domains!Fairness`: the worker goes on, except in the wait for a certificate, and a job that is due again and again is claimed; requests that have committed
call Enqueue; a deletion that is sent to the provider again and again succeeds in the end (it is
refused with an error the panel shows, or it works: an outage ends). Without the last one a deletion may of
course be retried until its budget is used up, again and again. Nothing makes a Client report: it does so only after a login, a notification or a
request of its page (`app.go:171`, `641`), and a start does not seed domains that are being deleted (`cloudflare_jobs.go:72`). Both gaps are hypotheses of
`DeletionEnds`, `Reported` and `Answered`.

`Client!Fairness`: goroutines and the Supervisor go on, since every request has a timeout (15 s and 20 s); the socket's goroutine
dials or sends its heartbeat; a process that has been killed exits, and its waiter goes on. Nothing is assumed of calls, of frpc or of the
Server's notifications: they may all be lost.

## 4. Proofs

`MappingsProofs` proves for every set of accounts, mappings and ports: `TypeCorrect`,
`RevisionsAuthoritative`, `HistoryOnlyGrows`, and, assuming `~ReeditPendingPort`, `LeasesBacked`,
`LeasesAccounted`, `PortsExclusive`. Two inductive invariants carry them. `RevInv` adds to the agreement of rows
and statuses that a mapping without a row has no revisions, and that a pending
revision is newer than the active one: without it an activation could go back. `LeaseInv`
adds what leases are for. Port exclusivity follows from `LeaseBacked`, since a lease has one owner.

`ConfigSyncProofs` proves that `SyncSpec` implements `Spec`, step by step, so that everything above
holds of the protocol, and `VersionsBounded`, `AppliedOnlyAdvances`, `ActivationServed`,
`DeletionServed`, and with them `SyncTyped`. The inductive invariant says that a fetch of the desired version which has been listed
agrees with the tables as far as the pending revisions go, and that a checked report does too.

`JobsProofs` proves `JobsTypeCorrect`, `LeaseNeverLost` (whatever heartbeats do), `LocksOfRunningJobs` and `RetryBudget` for any
keys, budget, crashes and blocked attempts (the budget is at least one). `RetryBudget` needs the
strengthening `FailuresCounted`: the failures of a row never exceed its attempts, and a running row has one attempt more.

`RouterProofs` proves that the pipeline implements the jobs table (`RouterImplementsJobs`), which brings
the worker's invariants along, and then `RouterTypeCorrect`, `OneVersionAhead` and `TableServed` for any domains and versions.
`BuildProgress` says what a build has numbered and written at each step; `Served` that the file is the only table
of its version the Router can have. `TableServed` also needs `BuildBusy`: no build without its handler.

`SessionsProofs` proves for any accounts, requests and bounds: `SessionsTypeCorrect`, the refinement
`SessionsImplementSingle`, `CredentialKept`, `TicketsOfThisPassword` and `PasswordChangedByOwner`. One inductive invariant, `SessionsInv`,
carries them. `GenerationsOrdered` (no session is ahead of its account, no two share a generation) gives that at most one session is honoured and that
a new generation ends it whether or not its row is revoked. `LockHeld` and `VerifiedHolds` say what the middleware's lock is for: a password verified under it is still the
account's. `RevokingOld` is the least obvious part: while the rows of a disabled or reset account are being revoked no login can
have opened a session that they would hit, because the account is not active or nobody has been told its password yet. `CredentialsDead`
and `TicketsCurrent` follow from it. The lemma `InvStep` reduces a step of one request to what that request and its account must satisfy.

`DomainsProofs` proves for any domains, answers to conflicts, requests, crashes and edits of the zone: `DomainsTyped`,
`AdoptedNeverRemoved`, `ResidueListed`, `ManagedRecordsArePanels` and `NoOrphanedRow`. The runs have one domain and three requests. The
properties are about single steps (a record or a row goes), so the inductive invariant `DomainsInv` has to say what the worker knows when it
gets to that step, though requests, the owner and revivals have come between all the statements before it. `Carried`: the record that syncDomainDNS
carries from the zone to the table is either the panel's, or is about to be because the action is `sync`. `Removed`:
before finalizeDeletedDomain drops a managed row the record is gone or listed, and when an account is
committed all its rows are gone. `Managed`: a managed row has an id, is of a record of the panel, and of a domain that is still there;
the last part is why the count in UserCount, which is not in the transaction of UserCommit, is enough for rows.
The statements of the worker are proved to keep `WorkInv`, the part that does not speak of requests, one function of the code at a
time; `Statement` puts the two together. `ZoneWriters` and `RowWriters` name the only steps that write the zone and dns_records.

`ClientProofs` proves for any sessions, versions, goroutines and processes: `ClientTyped`, `OneFrpcRuns`, `FrpcMarked`, `NeverTwoFrpc`,
`FailureRolledBack` and `CallersWait`. The inductive invariant has two halves. `CallsInv` is about callers: what a call can still do (`Injected`),
that an operation somebody waits for is the only one of its caller (`Waited`), and that a Client that does not run has
nothing under way (`Off`). `ProcessInv` is about frpc. `Handled`: the Supervisor has the handle of a process or starts or stops one, never both, so that
`OneFrpc` leaves no room for a second one; a waiter is at work only for a process that has ended, so that it can take a marker but never the handle of one that is up.
`OneFrpc` and `Marked` need each other only through it: when a marker is written, the process being marked is the only one up.
`Undone`: from the moment the old file is back until the operation
ends neither the file nor the process is of the new configuration, though ClearRuntimeSecrets may come in between. Beside the types of the constants, the assumption is that 0 is no
pid (`PidAssumption`), since 0 stands for a missing pid file. The theorems keep the exceptions of the properties: `lost` and `unmarked` processes, and the three errors after which
nothing has been rolled back.

Two attempts failed for a reason that was in the model, and it was corrected: a process that RecoverOrphan had ended stayed in `lost`, so that
its pid could be used again for a process the invariant did not speak of; and `Fresh` could give a new record of the owner an id that the worker was
still carrying, which the provider does not do. TLC had not reached either within the bounds.

Every invariant and every action property of the passing runs is a theorem. Liveness (`JobsEnd`, `DeletionEnds`, `QueueDrains`,
`EndNoticed`) is out of the prover's reach and left to TLC, on the instances of section 3; and so is the absence of deadlock, which is about
ENABLED. No module uses RECURSIVE.

## 5. Where the code and its documents differ

Three of these are runs that TLC refutes; PROJECT.json quotes the lines.

- `mappings_reedit`: a pending port change that is submitted again loses its lease, and two mappings
  get one port.
- `domains_unmanaged`: a record that the panel has created, and whose job runs again, is taken for the owner's, and is
  left in the zone when the domain is deleted.
- `client_late_apply`: a configuration being fetched when the user logs out is applied after the logout.

Others were seen while modelling and have no run.

Mappings and configuration: the port of a mapping whose first apply failed is released by the next success (1356);
a request between ApplyResult's check and its transaction is recorded as applied (1333), which is why `ActivatedWasServed` and `PurgedWasDropped`
speak of undisturbed reports; an update or a toggle revives a mapping that is being
deleted (806, 966); a toggle passes the pending quota (966); a mapping deleted while a report is served is
purged though its proxy still runs (1399); a snapshot listed before a failed apply is still accepted
after it (1407).

Jobs and Router: a blocked attempt consumes the retry budget (`worker.go:134`); a change made while a build runs is
not served until something else asks for a build (`worker.go:76`); a build cut off before router_state makes every later build
fail on the primary key (`router_service.go:184`); a domain deleted during a build is written back as bound (`router_service.go:241`); a retried build may reuse a version the
Router already has, with another table, which the Router refuses (`router_service.go:169`); one database error stops
the worker until the Server is restarted (`worker.go:226`), which is why `JobsEnd` excepts a stopped worker; a handler has no deadline (`worker.go:245`, `268`), so that
one certificate whose authority stays pending keeps the only worker (`cloudflare_dns01.go:133`, `137`); an error of the heartbeat is ignored (`worker.go:257`), which is
harmless with one worker and would not be with two.

Sessions: SetUserStatus revives an account that is being deleted (1540); a rotation of the FRP secret that was authenticated for a session
ends the session that has replaced it (1640); CreateUser's two INSERTs are not one transaction (1521, 1525).

Domains: a deletion is reported as succeeded when a router build or a certificate closes it, while the domain is still there
(`router_service.go:244`, `cloudflare_jobs.go:682`); deleting a record that is gone already is an error at every
retry (`cloudflare_jobs.go:344`), which `DeletionEnds` excepts; an answer to a conflict is lost when the DNS job is active; adopting with an empty
list panics (`cloudflare_jobs.go:560`); a late deletion job removes the rows of a domain that has been revived (`cloudflare_jobs.go:353`);
a deletion whose job has been given up waits for the next report of the Client, or for somebody who retries it.

Client: restart takes the only message about an frpc that exits at once, and stopProcess then waits for it, without a limit when it is called with
`context.Background()` for shutdown_frpc (`supervisor.go:514`), which `QueueDrains` and `EndNoticed` except; a binary that is refused in the rollback
leaves frpc with the new configuration (`supervisor.go:357`); so does a restoring write that fails, whose error is ignored (`supervisor.go:355`), though FRPC-005 wants the last good configuration back and the comment at 357-359 makes that
"explicit"; a rename that fails after replacing the file is not rolled back (`supervisor.go:343`, 662-671); the waiter of an earlier frpc may remove the marker of a newer one
(`supervisor.go:500`, 674-689), so that a Client that is killed then does not find it again: the comment at 133-136 calls the marker the only safe way to; the first file that cannot be removed ends ClearRuntimeSecrets (546-548) and its
callers go on; of two applies the older may be the last (`supervisor.go:303`); credentials
of one session may be put into a configuration of another (`app.go:356`); a late notification ends a newer login (`app.go:631`); the 120 s of grace that
the acceptance standard gives an offline Client (784-793) have no code.

## 6. Plan

1. `Tokens`: SetCloudflareToken, verifyCloudflareToken and ClearCloudflareToken; only the newest verified token is
   active, and a cleared one does not come back.
2. `Idempotency`: a write that is repeated after a crash between handler and record.
3. The restore of an older database against the Router's versions.
4. `Client` in the place of the atomic apply of `ConfigSync`.

## 7. Not modelled

The web panels, the HTTP clients of Cloudflare and ACME (their outcomes are the environment of `Domains`), the frps
process, cryptography, password hashing, rate limits, the clock check, decoding and wording have no state the
properties could be about. Backups are files; tokens, idempotency records and restores are in the plan.
