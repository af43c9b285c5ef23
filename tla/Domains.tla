------------------------------ MODULE Domains -------------------------------
(***************************************************************************)
(* Domain bindings of one account: the requests on them (service.go), the  *)
(* jobs that carry them out (cloudflare_jobs.go) and the owner's DNS zone, *)
(* which the panel and the owner both write.  The worker runs one job at a *)
(* time; requests come between any two of its statements.  Calls of the    *)
(* provider may fail, be refused, or take effect and lose their answer.    *)
(*                                                                         *)
(* The claim, the retry budget and the lease of jobs are those of Jobs;    *)
(* here a job that fails is due again or given up.                         *)
(***************************************************************************)
EXTENDS Integers, FiniteSets

CONSTANTS
    Domain,      \* names, each bound at most once (normalized_domain is UNIQUE)
    Https,       \* the ones whose https_mode is not 'http_only'
    ACMEEnabled, \* Config.ACMEEnabled
    NoDomain,    \* the subject of jobs that have none
    Action,      \* what users answer to a DNS conflict: adopt, overwrite, cancel, sync
    Steps,       \* what administrators do: "delete", "force", "revive"
    MaxAsk       \* bound: requests between their commit and their Enqueue

ASSUME NoDomainAssumption == NoDomain \notin Domain /\ Https \subseteq Domain
ASSUME AskAssumption == MaxAsk \in Nat /\ ACMEEnabled \in BOOLEAN

VARIABLES
    user,      \* users.status of the owner, "gone" without a row
    userOp,    \* its delete operation: status, and whether it is forced
    residue,   \* external_residues: the domains named
    dom,       \* domain_bindings.status, "none" without a row
    row,       \* dns_records: managed_by_panel and record_id; no row reads as unmanaged
    cert,      \* certificates.status, "none" without a row
    op,        \* operations of the domain: the last create or dns_sync, the last delete
    ext,       \* the record under the name in the owner's zone
    q,         \* the active jobs by deduplication key: their status and payload
    ask,       \* committed requests whose Enqueue is still to come
    retry,     \* the RetryOperation under way
    w          \* the worker: its job, its next statement and what it has read

account == <<user, userOp, residue>>
tables == <<dom, row, cert, op>>
queue == <<q, ask>>
vars == <<account, tables, ext, queue, retry, w>>

Status == {"none", "pending_dns", "dns_error", "pending_certificate", "pending_router",
           "pending_client", "active", "deleting"}
OpStatus == {"none", "pending", "running", "failed", "canceled", "succeeded"}
OpType == {"dns", "delete"}
Id == 0..4                       \* record ids; 0 is no record
Key == ({"dns", "redns", "acme", "reacme", "delete"} \X Domain)
          \cup ({"router", "user"} \X {NoDomain})
Payload == Action \cup {"check", "plain", "force"}   \* the action, or whether a deletion is forced

K(t, d) == <<t, d>>
Router == K("router", NoDomain)
UserJob == K("user", NoDomain)

NoJob == [st |-> "none", pay |-> "check"]
NoRow == [managed |-> FALSE, id |-> 0]
NoRecord == [id |-> 0, by |-> "user", same |-> FALSE]
Idle == [key |-> Router, pc |-> "idle", d |-> NoDomain, act |-> "check", rec |-> NoRow,
         err |-> FALSE, todo |-> {}, src |-> [d \in Domain |-> "none"]]
NoRetry == [pc |-> "none", d |-> NoDomain, type |-> "dns", job |-> "dns"]

-----------------------------------------------------------------------------
\* Store.Enqueue: an active job of the same key swallows the request.
Put(jobs, k, p) == [jobs EXCEPT ![k] = IF @ = NoJob THEN [st |-> "due", pay |-> p] ELSE @]

\* enqueueUserDeleteJob also replaces the payload of the active job.
Renew(jobs, k, p) == IF jobs[k] = NoJob THEN Put(jobs, k, p) ELSE [jobs EXCEPT ![k].pay = p]

\* UPDATE domain_bindings SET status = st WHERE id = d.
SetStatus(d, st) == dom' = [dom EXCEPT ![d] = IF @ = "none" THEN @ ELSE st]

\* UPDATE operations SET status = st WHERE resource_id = d AND status IN from.
Moved(d, types, from, st) ==
    [op EXCEPT ![d] = [t \in OpType |-> IF t \in types /\ @[t] \in from THEN st ELSE @[t]]]
Open == {"pending", "running"}

\* A committed request goes on to Enqueue, or is cut off before.
Asked(as) == /\ Cardinality(ask \cup as) <= MaxAsk
             /\ ask' = ask \cup as
             /\ UNCHANGED q

-----------------------------------------------------------------------------
Init ==
    /\ user = "active" /\ userOp = [status |-> "none", force |-> FALSE] /\ residue = {}
    /\ dom = [d \in Domain |-> "none"]
    /\ row = [d \in Domain |-> NoRow]
    /\ cert = [d \in Domain |-> "none"]
    /\ op = [d \in Domain |-> [t \in OpType |-> "none"]]
    /\ ext \in [Domain -> {NoRecord} \cup [id : {1}, by : {"user"}, same : BOOLEAN]]
    /\ q = [k \in Key |-> NoJob]
    /\ ask = {} /\ retry = NoRetry /\ w = Idle

-----------------------------------------------------------------------------
(* Requests.                                                               *)

CreateDomain(d) ==
    /\ user = "active" /\ dom[d] = "none"
    /\ dom' = [dom EXCEPT ![d] = "pending_dns"]
    /\ op' = [op EXCEPT ![d] = [dns |-> "pending", delete |-> "none"]]
    /\ Asked({<<K("dns", d), "check", FALSE>>})
    /\ UNCHANGED <<account, row, cert, ext, retry, w>>

\* An answer to a conflict; a domain that is being deleted is not refused.
ResolveDomainDNS(d, action) ==
    /\ dom[d] # "none"
    /\ action = "sync" => row[d].managed
    /\ SetStatus(d, "pending_dns")
    /\ op' = IF action = "sync" THEN [op EXCEPT ![d].dns = "pending"]
             ELSE Moved(d, OpType, {"failed", "canceled"}, "pending")
    /\ Asked({<<K("dns", d), action, FALSE>>})
    /\ UNCHANGED <<account, row, cert, ext, retry, w>>

DeleteDomain(d) ==
    /\ user # "gone" /\ dom[d] # "none"
    /\ SetStatus(d, "deleting")
    /\ op' = [op EXCEPT ![d].delete = "pending"]
    /\ Asked({<<Router, "check", FALSE>>})
    /\ UNCHANGED <<account, row, cert, ext, retry, w>>

\* ApplyResult: a Client, of whichever account, has applied its configuration; every domain
\* found deleting is handed to its job.
ClientApplied(d) ==
    /\ dom[d] = "deleting"
    /\ Asked({<<K("delete", d), "check", FALSE>>})
    /\ UNCHANGED <<account, tables, ext, retry, w>>

\* DeleteUser, asked for the first time or again.
DeleteUser(forced) ==
    /\ user \in {"active", "deleting"}
    /\ user' = "deleting"
    /\ IF user = "active"
       THEN /\ userOp' = [status |-> "pending", force |-> forced]
            /\ dom' = [d \in Domain |-> IF dom[d] = "none" THEN "none" ELSE "deleting"]
            /\ op' = [d \in Domain |-> IF dom[d] = "none" THEN op[d]
                                       ELSE [op[d] EXCEPT !.delete = "pending"]]
       ELSE /\ userOp.status # "succeeded"
            /\ userOp' = [status |-> IF userOp.status = "failed" THEN "pending" ELSE userOp.status,
                          force |-> userOp.force \/ forced]
            /\ UNCHANGED <<dom, op>>
    /\ Asked({<<UserJob, IF userOp'.force THEN "force" ELSE "plain", TRUE>>})
    /\ UNCHANGED <<residue, row, cert, ext, retry, w>>

\* SetUserStatus does not look at the status it replaces.
ReviveUser == /\ user = "deleting" /\ user' = "active"
              /\ UNCHANGED <<userOp, residue, tables, ext, queue, retry, w>>

\* RetryOperation reads the operation and the domain, then writes each in a statement of its
\* own; its jobs have keys of their own, except for deletions and the Router.
RetryRead(d, t) ==
    /\ retry.pc = "none" /\ op[d][t] \in {"failed", "canceled"} /\ dom[d] # "none"
    /\ retry' = [pc |-> "operation", d |-> d, type |-> t, job |->
          CASE t = "delete" -> "delete"
            [] t = "dns" /\ dom[d] = "pending_router" -> "router"
            [] t = "dns" /\ dom[d] = "pending_certificate" -> "reacme"
            [] OTHER -> "redns"]
    /\ UNCHANGED <<account, tables, ext, queue, w>>

RetryOperation ==
    /\ retry.pc = "operation"
    /\ op' = [op EXCEPT ![retry.d][retry.type] = "pending"]
    /\ retry' = [retry EXCEPT !.pc = "domain"]
    /\ UNCHANGED <<account, dom, row, cert, ext, queue, w>>

RetryDomain ==
    /\ retry.pc = "domain"
    /\ SetStatus(retry.d, CASE retry.job = "delete" -> "deleting"
                            [] retry.job = "router" -> "pending_router"
                            [] retry.job = "reacme" -> "pending_certificate"
                            [] retry.job = "redns" -> "pending_dns")
    /\ Asked({<<IF retry.job = "router" THEN Router ELSE K(retry.job, retry.d), "check", FALSE>>})
    /\ retry' = NoRetry
    /\ UNCHANGED <<account, row, cert, op, ext, w>>

RetryUser ==
    /\ retry.pc = "none" /\ userOp.status = "failed"
    /\ userOp' = [userOp EXCEPT !.status = "pending"]
    /\ Asked({<<UserJob, IF userOp.force THEN "force" ELSE "plain", FALSE>>})
    /\ UNCHANGED <<user, residue, tables, ext, retry, w>>

\* Enqueue, or enqueueUserDeleteJob (a[3]).
Enqueue(a) ==
    /\ ask' = ask \ {a}
    /\ q' = IF a[3] THEN Renew(q, a[1], a[2]) ELSE Put(q, a[1], a[2])
    /\ UNCHANGED <<account, tables, ext, retry, w>>

\* seedPendingJobs, when the Server starts and once a day, takes up what the tables say is not
\* finished, and certificates that are due for renewal.
Seed(k) ==
    /\ \/ \E d \in Domain : k = K("dns", d) /\ q' = Put(q, k, "check")
             /\ dom[d] \in {"pending_dns", "dns_error", "pending_client", "pending_router"}
       \/ \E d \in Domain : k = K("acme", d) /\ q' = Put(q, k, "check")
             /\ ACMEEnabled /\ cert[d] \in {"pending", "valid"}
       \/ k = UserJob /\ userOp.status \in Open
          /\ q' = Renew(q, k, IF userOp.force THEN "force" ELSE "plain")
    /\ q' # q
    /\ UNCHANGED <<account, tables, ext, ask, retry, w>>

-----------------------------------------------------------------------------
(* The worker.                                                             *)

\* Claim and handleJob.
Claim(k) ==
    /\ w.pc = "idle" /\ q[k].st = "due"
    /\ q' = [q EXCEPT ![k].st = "running"]
    /\ w' = [Idle EXCEPT !.key = k, !.d = k[2], !.act = q[k].pay, !.pc =
          CASE k[1] \in {"dns", "redns"} -> "sync" [] k[1] \in {"acme", "reacme"} -> "certify"
            [] k[1] = "delete" -> "remove" [] k[1] = "user" -> "user" [] k[1] = "router" -> "build"]
    /\ UNCHANGED <<account, tables, ext, ask, retry>>

Goto(pc) == w' = [w EXCEPT !.pc = pc] /\ UNCHANGED q
End(jobs) == w' = Idle /\ q' = [jobs EXCEPT ![w.key] = NoJob]
Complete == End(q)
Again == w' = Idle /\ q' = [q EXCEPT ![w.key].st = "due"]     \* Fail or Block

\* markDomainDNSFailure and markDomainDNSCanceled, in two statements.
MarkDomain ==
    /\ w.pc \in {"failed", "canceled"}
    /\ SetStatus(w.d, IF w.pc = "failed" THEN "dns_error" ELSE "pending_dns")
    /\ Goto(IF w.pc = "failed" THEN "failed_operation" ELSE "canceled_operation")
    /\ UNCHANGED <<row, cert, op, ext>>

MarkOperations ==
    /\ w.pc \in {"failed_operation", "canceled_operation"}
    /\ op' = Moved(w.d, OpType, Open, IF w.pc = "failed_operation" THEN "failed" ELSE "canceled")
    /\ Complete
    /\ UNCHANGED <<dom, row, cert, ext>>

-----------------------------------------------------------------------------
(* syncDomainDNS.                                                          *)

\* The domain and the token are read.  Whether there is a valid token is left open; one that is
\* replaced later shows as an error of the calls.
SyncStart ==
    /\ w.pc = "sync"
    /\ IF dom[w.d] \in {"none", "deleting"} THEN Complete
       ELSE \E token \in BOOLEAN :
               Goto(IF w.act = "cancel" THEN "canceled" ELSE IF token THEN "list" ELSE "failed")
    /\ UNCHANGED <<tables, ext>>

\* Whether the record found is as it should be: compared with what the row says was saved last,
\* or, without a row, with the panel's own host. The row's content is not modelled, so for a
\* record other than the saved one, or one that was adopted as it was, the answer is left open.
Matches(d, r) ==
    IF r.id = 0 THEN {FALSE}
    ELSE IF row[d].id = 0 \/ (row[d].id = r.id /\ r.same) THEN {r.same}
    ELSE BOOLEAN

\* Mutant: a record that is found as wanted is managed from then on.
SyncDecideManaged(r, match) ==
    w' = [w EXCEPT !.pc = "drop", !.rec = [managed |-> TRUE, id |-> r.id]]

\* A record that is found as it should be is adopted, one that the panel is asked to keep in
\* sync is managed; the owner's may have another TTL and is then overwritten.
SyncDecide(r, match) ==
    \/ /\ match \/ w.act = "adopt"
       /\ w' = [w EXCEPT !.pc = "drop", !.rec = [managed |-> w.act = "sync", id |-> r.id]]
    \/ /\ match /\ w.act \in {"overwrite", "sync"} /\ r.by = "user"
       /\ w' = [w EXCEPT !.pc = "upsert"]
    \/ /\ ~match /\ w.act # "adopt"
       /\ w' = [w EXCEPT !.pc = IF r.id # 0 /\ w.act = "check" THEN "failed" ELSE "upsert"]

\* The zone and the records of the name are listed and the action is decided; asked to adopt
\* where there is nothing, the handler panics (Crash).
SyncList ==
    /\ w.pc = "list"
    /\ \/ Again
       \/ Goto("failed")
       \/ ~(w.act = "sync" /\ ~row[w.d].managed) /\ ~(w.act = "adopt" /\ ext[w.d].id = 0)
          /\ (\E match \in Matches(w.d, ext[w.d]) : SyncDecide(ext[w.d], match)) /\ UNCHANGED q
    /\ UNCHANGED <<tables, ext>>

\* The provider gives out no id a second time: none that the zone, the table or the worker has.
Fresh(d) == CHOOSE i \in Id \ {0} : i \notin {ext[d].id, row[d].id, w.rec.id}

\* UpsertDNS changes the record that is there or creates one; if the answer is lost,
\* upsertDNSWithRecovery looks whether the record is there.
SyncUpsert ==
    /\ w.pc = "upsert"
    /\ \/ (Again \/ Goto("failed")) /\ UNCHANGED ext
       \/ LET i == IF ext[w.d].id = 0 THEN Fresh(w.d) ELSE ext[w.d].id IN
          /\ ext' = [ext EXCEPT ![w.d] = [id |-> i, by |-> "panel", same |-> TRUE]]
          /\ \/ Again
             \/ w' = [w EXCEPT !.pc = "drop", !.rec = [managed |-> TRUE, id |-> i]] /\ UNCHANGED q
    /\ UNCHANGED tables

\* saveDNSRecord: a DELETE and an INSERT.
SyncDrop ==
    /\ w.pc = "drop"
    /\ row' = [row EXCEPT ![w.d] = NoRow]
    /\ Goto("insert")
    /\ UNCHANGED <<dom, cert, op, ext>>

\* A record the panel is told to keep in sync counts as the panel's.
SyncInsert ==
    /\ w.pc = "insert"
    /\ row' = [row EXCEPT ![w.d] = w.rec]
    /\ ext' = [ext EXCEPT ![w.d].by = IF w.act = "sync" /\ ext[w.d].id = w.rec.id THEN "panel" ELSE @]
    /\ Goto(IF w.d \in Https THEN "certificate" ELSE "status")
    /\ UNCHANGED <<dom, cert, op>>

SyncCertificate ==
    /\ w.pc = "certificate"
    /\ cert' = [cert EXCEPT ![w.d] = IF @ = "none" THEN "pending" ELSE @]
    /\ Goto("status")
    /\ UNCHANGED <<dom, row, op, ext>>

\* The status is written whatever it has become in the meantime.
SyncStatus ==
    /\ w.pc = "status"
    /\ SetStatus(w.d, IF w.d \in Https THEN "pending_certificate" ELSE "pending_router")
    /\ Goto("operations")
    /\ UNCHANGED <<row, cert, op, ext>>

SyncOperations ==
    /\ w.pc = "operations"
    /\ op' = Moved(w.d, OpType, Open, "running")
    /\ IF w.d \in Https /\ ~ACMEEnabled THEN Complete
       ELSE End(Put(q, IF w.d \in Https THEN K("acme", w.d) ELSE Router, "check"))
    /\ UNCHANGED <<dom, row, cert, ext>>

-----------------------------------------------------------------------------
(* deleteDomainExternal and finalizeDeletedDomain, for a job of the domain *)
(* or for each domain of a deletion of the account.                        *)

\* What follows a deletion that has failed: Fail, or the next statement of the account's job.
RemoveError == \/ w.key # UserJob /\ Again
               \/ w.key = UserJob /\ w' = [w EXCEPT !.pc = "present", !.err = TRUE] /\ UNCHANGED q

\* Mutant: a missing token is taken for nothing to delete.
RemoveStartTokenless ==
    /\ w.pc = "remove"
    /\ \E token \in BOOLEAN :
          Goto(IF row[w.d].managed /\ row[w.d].id # 0 /\ token THEN "external" ELSE "drop_record")
    /\ UNCHANGED <<tables, ext>>

\* Whatever the status of the domain has become: only the DNS row is read.
RemoveStart ==
    /\ w.pc = "remove"
    /\ \E token \in BOOLEAN :
          Goto(IF ~row[w.d].managed \/ row[w.d].id = 0 THEN "drop_record"
               ELSE IF token THEN "external" ELSE "refused")
    /\ UNCHANGED <<tables, ext>>

\* DeleteDNS by record id: done, done with the answer lost, denied, or an error; a record
\* that is not there any more is an error too.
RemoveExternal ==
    /\ w.pc = "external"
    /\ \/ (RemoveError \/ Goto("refused")) /\ UNCHANGED ext
       \/ /\ ext[w.d].id = row[w.d].id
          /\ ext' = [ext EXCEPT ![w.d] = NoRecord]
          /\ RemoveError \/ Goto("drop_record")
    /\ UNCHANGED tables

\* Mutant: a deletion that is refused ends without a word.
RemoveRefusedSilent ==
    /\ w.pc = "refused"
    /\ IF w.key = UserJob THEN Goto("present") ELSE Complete
    /\ UNCHANGED <<tables, ext>>

\* markDomainDeleteFailure; the job is complete.
RemoveRefused ==
    /\ w.pc = "refused"
    /\ op' = Moved(w.d, {"delete"}, Open, "failed")
    /\ IF w.key = UserJob THEN Goto("present") ELSE Complete
    /\ UNCHANGED <<dom, row, cert, ext>>

FinalizeRecord ==
    /\ w.pc = "drop_record"
    /\ row' = [row EXCEPT ![w.d] = NoRow]
    /\ Goto("drop_certificate")
    /\ UNCHANGED <<dom, cert, op, ext>>

FinalizeCertificate ==
    /\ w.pc = "drop_certificate"
    /\ cert' = [cert EXCEPT ![w.d] = "none"]
    /\ Goto("drop_domain")
    /\ UNCHANGED <<dom, row, op, ext>>

FinalizeDomain ==
    /\ w.pc = "drop_domain"
    /\ dom' = [dom EXCEPT ![w.d] = IF @ = "deleting" THEN "none" ELSE @]
    /\ Goto("drop_operation")
    /\ UNCHANGED <<row, cert, op, ext>>

\* The delete operations succeed, whether the row has gone or not.
FinalizeOperations ==
    /\ w.pc = "drop_operation"
    /\ op' = Moved(w.d, {"delete"}, Open \cup {"failed"}, "succeeded")
    /\ CASE w.key # UserJob -> Complete
         [] w.key = UserJob /\ w.d \in w.todo -> Goto("present")
         [] w.key = UserJob /\ w.d \notin w.todo -> Goto("next")
    /\ UNCHANGED <<dom, row, cert, ext>>

-----------------------------------------------------------------------------
(* issueCertificate.                                                       *)

CertifyStart ==
    /\ w.pc = "certify"
    /\ IF dom[w.d] \in {"none", "deleting"} THEN Complete
       ELSE Again \/ (ACMEEnabled /\ Goto("issue"))     \* without a token the job is blocked
    /\ UNCHANGED <<tables, ext>>

\* IssueDNS01, the files and the UPDATE, which must find the certificate's row.
CertifyIssue ==
    /\ w.pc = "issue"
    /\ \/ Again /\ UNCHANGED cert
       \/ /\ cert[w.d] # "none"
          /\ cert' = [cert EXCEPT ![w.d] = "valid"]
          /\ Goto("issued")
    /\ UNCHANGED <<dom, row, op, ext>>

CertifyStatus ==
    /\ w.pc = "issued"
    /\ SetStatus(w.d, "pending_router")
    /\ Goto("issued_operations")
    /\ UNCHANGED <<row, cert, op, ext>>

CertifyOperations ==
    /\ w.pc = "issued_operations"
    /\ op' = Moved(w.d, OpType, Open, "running")
    /\ End(Put(q, Router, "check"))
    /\ UNCHANGED <<dom, row, cert, ext>>

-----------------------------------------------------------------------------
(* BuildRouterSnapshot, as far as it writes domains.                       *)

\* What has been read is written back after the snapshot; a build may also fail on the way.
BuildRead ==
    /\ w.pc = "build"
    /\ \/ Again
       \/ /\ w' = [w EXCEPT !.pc = "finalize", !.src = [d \in Domain |->
                IF dom[d] \in {"deleting", "dns_error", "pending_dns"} THEN "none" ELSE dom[d]]]
          /\ UNCHANGED q
    /\ UNCHANGED <<tables, ext>>

\* Of a domain whose mapping has been read as running, or not.
RoutedStatus(d, running) ==
    CASE d \in Https /\ w.src[d] = "pending_certificate" -> "pending_certificate"
      [] ~running -> "pending_client"
      [] d \in Https /\ cert[d] # "valid" -> "pending_certificate"
      [] OTHER -> "active"

BuildDomain(d) ==
    /\ w.pc = "finalize" /\ w.src[d] # "none"
    /\ \E running \in BOOLEAN :
          /\ SetStatus(d, RoutedStatus(d, running))
          /\ w' = [w EXCEPT !.pc = "finalize_operations", !.d = d,
                            !.src[d] = IF RoutedStatus(d, running) = "active" THEN "active" ELSE "none"]
    /\ UNCHANGED <<row, cert, op, ext, q>>

BuildOperations ==
    /\ w.pc = "finalize_operations"
    /\ op' = Moved(w.d, OpType, Open, IF w.src[w.d] = "active" THEN "succeeded" ELSE "running")
    /\ w' = [w EXCEPT !.pc = "finalize", !.src[w.d] = "none"]
    /\ UNCHANGED <<dom, row, cert, ext, q>>

BuildDone ==
    /\ w.pc = "finalize" /\ \A d \in Domain : w.src[d] = "none"
    /\ Complete
    /\ UNCHANGED <<tables, ext>>

-----------------------------------------------------------------------------
(* deleteUserExternal.                                                     *)

UserStart ==
    /\ w.pc = "user"
    /\ CASE user = "gone" -> Complete
         [] user = "active" -> Again
         [] user = "deleting" -> /\ w' = [w EXCEPT !.pc = "next", !.err = FALSE,
                                             !.todo = {d \in Domain : dom[d] = "deleting"}]
                                 /\ UNCHANGED q
    /\ UNCHANGED <<account, tables, ext>>

UserNext ==
    /\ w.pc = "next"
    /\ IF w.todo = {} THEN Goto("count")
       ELSE \E d \in w.todo : w' = [w EXCEPT !.pc = "remove", !.d = d, !.err = FALSE] /\ UNCHANGED q
    /\ UNCHANGED <<account, tables, ext>>

\* Mutant: a forced deletion goes on without writing down what it leaves behind.
UserPresentSilent ==
    /\ w.pc = "present"
    /\ w' = [w EXCEPT !.pc = IF w.err \/ dom[w.d] # "none" THEN "drop_record" ELSE "next",
                      !.todo = @ \ {w.d}]
    /\ UNCHANGED <<q, account, tables, ext>>

\* A domain that could not be removed stops the deletion, unless it is forced: then it is
\* written down as residue, and removed all the same.
UserPresent ==
    /\ w.pc = "present"
    /\ IF ~w.err /\ dom[w.d] = "none"
       THEN w' = [w EXCEPT !.pc = "next", !.todo = @ \ {w.d}] /\ UNCHANGED <<q, residue, userOp>>
       ELSE IF w.act = "force"
       THEN /\ residue' = residue \cup {w.d}
            /\ w' = [w EXCEPT !.pc = "drop_record", !.todo = @ \ {w.d}]
            /\ UNCHANGED <<q, userOp>>
       ELSE /\ userOp' = [userOp EXCEPT !.status = IF @ \in Open THEN "failed" ELSE @]
            /\ Again
            /\ UNCHANGED residue
    /\ UNCHANGED <<user, tables, ext>>

\* The rows that are left are counted before, not in, the transaction that deletes the account.
UserCount ==
    /\ w.pc = "count"
    /\ IF \A d \in Domain : dom[d] = "none" THEN Goto("commit") ELSE Again
    /\ UNCHANGED <<account, tables, ext>>

\* The account goes only if it is still 'deleting', and what it owns goes with it.
UserCommit ==
    /\ w.pc = "commit"
    /\ userOp' = [userOp EXCEPT !.status = "succeeded"]
    /\ IF user = "deleting"
       THEN /\ user' = "gone"
            /\ dom' = [d \in Domain |-> "none"] /\ row' = [d \in Domain |-> NoRow]
            /\ cert' = [d \in Domain |-> "none"]
       ELSE UNCHANGED <<user, dom, row, cert>>
    /\ End(Put(q, Router, "check"))
    /\ UNCHANGED <<residue, op, ext>>

-----------------------------------------------------------------------------
(* The owner's zone, and the end of the process.                           *)

\* The owner removes the record, or puts one of his own there.
OwnerEdits(d) ==
    /\ \/ ext[d].id # 0 /\ ext' = [ext EXCEPT ![d] = NoRecord]
       \/ \E same \in BOOLEAN :
             ext' = [ext EXCEPT ![d] = [id |-> Fresh(d), by |-> "user", same |-> same]]
    /\ UNCHANGED <<account, tables, queue, retry, w>>

\* Fail or Claim find that a job has used up its attempts.
GiveUp(k) == /\ w.pc = "idle" /\ q[k].st = "due"
             /\ q' = [q EXCEPT ![k] = NoJob]
             /\ UNCHANGED <<account, tables, ext, ask, retry, w>>

\* Mutant: the lock of a job that was running is never taken for expired.
CrashLocked ==
    /\ w # Idle \/ ask # {} \/ retry # NoRetry
    /\ w' = Idle /\ ask' = {} /\ retry' = NoRetry
    /\ UNCHANGED <<account, tables, ext, q>>

\* The Server stops; a job that was running is claimed again when its lock expires.
Crash ==
    /\ w # Idle \/ ask # {} \/ retry # NoRetry
    /\ w' = Idle /\ ask' = {} /\ retry' = NoRetry
    /\ q' = IF w = Idle THEN q ELSE [q EXCEPT ![w.key].st = "due"]
    /\ UNCHANGED <<account, tables, ext>>

-----------------------------------------------------------------------------
\* What users and administrators ask for.
Request ==
    \/ \E d \in Domain : \/ CreateDomain(d) \/ DeleteDomain(d)
                         \/ \E a \in Action : ResolveDomainDNS(d, a)
                         \/ \E t \in OpType : RetryRead(d, t)
    \/ RetryUser
    \/ "delete" \in Steps /\ DeleteUser(FALSE)
    \/ "force" \in Steps /\ DeleteUser(TRUE)
    \/ "revive" \in Steps /\ ReviveUser

\* What else may happen to a system that would otherwise come to rest.
Disturbance ==
    \/ \E d \in Domain : OwnerEdits(d)
    \/ \E k \in Key : Seed(k) \/ GiveUp(k)
    \/ Crash

DomainStep ==
    /\ \/ SyncStart \/ SyncList \/ SyncUpsert \/ SyncDrop \/ SyncInsert \/ SyncCertificate
       \/ SyncStatus \/ SyncOperations \/ MarkDomain \/ MarkOperations
       \/ RemoveStart \/ RemoveExternal \/ RemoveRefused
       \/ FinalizeRecord \/ FinalizeCertificate \/ FinalizeDomain \/ FinalizeOperations
       \/ CertifyStart \/ CertifyIssue \/ CertifyStatus \/ CertifyOperations
       \/ BuildRead \/ (\E d \in Domain : BuildDomain(d)) \/ BuildOperations \/ BuildDone
    /\ UNCHANGED account

UserStep == UserStart \/ UserNext \/ UserPresent \/ UserCount \/ UserCommit

Work == (DomainStep \/ UserStep) /\ UNCHANGED <<ask, retry>>

Progress ==
    \/ \E d \in Domain : ClientApplied(d)
    \/ RetryOperation \/ RetryDomain
    \/ \E a \in ask : Enqueue(a)
    \/ \E k \in Key : Claim(k)
    \/ Work

Next == Request \/ Disturbance \/ Progress

Spec == Init /\ [][Next]_vars

\* The worker goes on, and claims every job that stays due (Store.Claim takes the oldest); requests
\* finish; and a call to the provider that is made again and again is answered in the end. Nothing
\* ends the wait for a certificate, and nothing makes a Client report.
Fairness ==
    /\ WF_vars(w.pc # "issue" /\ Work) /\ \A k \in Key : SF_vars(Claim(k))
    /\ WF_vars(RetryOperation) /\ WF_vars(RetryDomain)
    /\ WF_vars(\E a \in ask : Enqueue(a))
    /\ SF_vars(RemoveExternal /\ w'.pc = "drop_record" /\ UNCHANGED <<account, ask, retry>>)

-----------------------------------------------------------------------------
(* Properties.                                                             *)

\* Every variable has its type, and a status is one the tables allow.
DomainsTypeOK ==
    /\ user \in {"active", "deleting", "gone"}
    /\ userOp \in [status : OpStatus, force : BOOLEAN] /\ residue \subseteq Domain
    /\ dom \in [Domain -> Status] /\ row \in [Domain -> [managed : BOOLEAN, id : Id]]
    /\ cert \in [Domain -> {"none", "pending", "valid"}]
    /\ op \in [Domain -> [OpType -> OpStatus]]
    /\ ext \in [Domain -> [id : Id, by : {"user", "panel"}, same : BOOLEAN]]
    /\ q \in [Key -> [st : {"none", "due", "running"}, pay : Payload]]
    /\ \A k \in Key : q[k].st = "running" <=> w.pc # "idle" /\ w.key = k

\* deleteDomainExternal: a record that the owner has put there, adopted by the panel but never
\* overwritten or synchronised by it, is not removed by any deletion, retried or forced.
AdoptedKept ==
    [][\A d \in Domain : w' # w /\ ext[d].id # 0 /\ ext'[d].id = 0 => ext[d].by = "panel"]_vars

\* finalizeDeletedDomain and deleteUserExternal: a managed row is removed for good only when its
\* record is gone, or when the record has been listed as residue for the administrator.
NoSilentResidue ==
    [][\A d \in Domain :
          w.pc # "drop" /\ row[d].managed /\ row'[d] = NoRow =>
             ext[d].id # row[d].id \/ d \in residue]_vars

\* The acceptance standard's DNS-012 and DNS-013: a record that the panel has put into the zone
\* and keeps a row of is managed, so that it is updated and deleted with the domain.
PanelRecordManaged ==
    \A d \in Domain :
        row[d].id # 0 /\ row[d].id = ext[d].id /\ ext[d].by = "panel" => row[d].managed

\* Clients go on reporting: as often as a deletion has no job, a report gives it one again.
Reported(d) == []<>(dom[d] # "deleting" \/ q[K("delete", d)] # NoJob)

\* The certificate authority answers in the end.
Answered == []<>(w.pc # "issue")

\* deleteDomainExternal and its retries: a deletion ends, as long as Clients report and the worker
\* is not kept by a certificate. The domain goes, or is brought back by another request, or its
\* operation is closed; except where the record is not in the zone any more under the id the
\* panel knows, and deleting it is an error each time.
DeletionEnds ==
    \A d \in Domain : Reported(d) /\ Answered =>
        (dom[d] = "deleting" ~> \/ dom[d] # "deleting" \/ op[d].delete \notin Open
                                \/ row[d].managed /\ ext[d].id # row[d].id)

=============================================================================
