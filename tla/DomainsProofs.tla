--------------------------- MODULE DomainsProofs ----------------------------
(***************************************************************************)
(* Proofs about Domains, for any domains and any number of requests, jobs, *)
(* crashes and edits of the owner's zone.                                  *)
(***************************************************************************)
EXTENDS Domains, TLAPS

-----------------------------------------------------------------------------
(* The inductive invariant.                                                *)

\* The statements of the worker that are about its domain, and the others.
DomainPc == {"sync", "list", "upsert", "drop", "insert", "certificate", "status", "operations",
             "failed", "canceled", "failed_operation", "canceled_operation", "remove", "external",
             "refused", "drop_record", "drop_certificate", "drop_domain", "drop_operation",
             "certify", "issue", "issued", "issued_operations", "finalize_operations", "present"}
BusyPc == DomainPc \cup {"build", "finalize", "user", "next", "count", "commit"}

Job == [st : {"none", "due", "running"}, pay : Payload]
Row == [managed : BOOLEAN, id : Id]
Record == [id : Id, by : {"user", "panel"}, same : BOOLEAN]
Worker == [key : Key, pc : BusyPc \cup {"idle"}, d : Domain \cup {NoDomain}, act : Payload,
           rec : Row, err : BOOLEAN, todo : SUBSET Domain, src : [Domain -> Status]]
Retry == [pc : {"none", "operation", "domain"}, d : Domain \cup {NoDomain}, type : OpType,
          job : {"dns", "delete", "router", "reacme", "redns"}]
Asks == Key \X Payload \X BOOLEAN

AccountOK == /\ user \in {"active", "deleting", "gone"}
             /\ userOp \in [status : OpStatus, force : BOOLEAN] /\ residue \subseteq Domain
TablesOK == /\ dom \in [Domain -> Status] /\ row \in [Domain -> Row]
            /\ cert \in [Domain -> {"none", "pending", "valid"}]
            /\ op \in [Domain -> [OpType -> OpStatus]] /\ ext \in [Domain -> Record]
RequestsOK == /\ ask \subseteq Asks /\ retry \in Retry
              /\ retry.pc # "none" => retry.d \in Domain /\ retry.job # "dns"

\* The lock on a job is the worker's.
QueueOK == /\ q \in [Key -> Job]
           /\ \A k \in Key : q[k].st = "running" <=> w.pc # "idle" /\ w.key = k
WorkerOK == w \in Worker /\ (w.pc \in DomainPc => w.d \in Domain)

Typed == AccountOK /\ TablesOK /\ RequestsOK /\ QueueOK /\ WorkerOK

\* What the worker knows while it carries a record from the zone to the table.
Carried ==
    w.pc \in {"drop", "insert"} =>
       /\ w.rec.id # 0
       /\ w.rec.managed /\ w.rec.id = ext[w.d].id => w.act = "sync" \/ ext[w.d].by = "panel"

\* What a deletion has made sure of before it drops the row.
Removed ==
    /\ w.pc = "external" => row[w.d].managed
    /\ w.pc = "drop_record" /\ row[w.d].managed =>
          ext[w.d].id # row[w.d].id \/ w.d \in residue
    /\ w.pc \in {"insert", "drop_certificate", "drop_domain"} => row[w.d] = NoRow
    /\ w.pc = "commit" => \A d \in Domain : row[d] = NoRow

\* A managed row is that of a record of the panel, and of a domain that is there.
Managed ==
    /\ \A d \in Domain : row[d].managed => row[d].id # 0
    /\ \A d \in Domain : row[d].managed /\ row[d].id = ext[d].id => ext[d].by = "panel"
    /\ \A d \in Domain : dom[d] = "none" => row[d] = NoRow
    /\ w.pc \in {"list", "upsert", "drop", "insert"} => dom[w.d] # "none"

DomainsInv == Typed /\ Carried /\ Removed /\ Managed

-----------------------------------------------------------------------------
(* Jobs.                                                                   *)

LEMMA KeyParts ==
    /\ Router \in Key /\ UserJob \in Key
    /\ \A t \in {"dns", "redns", "acme", "reacme", "delete"}, d \in Domain : K(t, d) \in Key
    /\ \A k \in Key : \/ k[1] \in {"dns", "redns", "acme", "reacme", "delete"} /\ k[2] \in Domain
                      \/ k[1] \in {"router", "user"} /\ k[2] = NoDomain
BY DEF Router, UserJob, K, Key

LEMMA NoJobType == NoJob \in Job /\ NoJob.st = "none"
BY DEF NoJob, Job, Payload

\* An enqueued job starts out due: what is running stays so, and nothing else is.
SameLocks(jobs) == /\ jobs \in [Key -> Job]
                   /\ \A k \in Key : jobs[k].st = "running" <=> q[k].st = "running"

LEMMA PutLocks ==
    ASSUME q \in [Key -> Job], NEW k \in Key, NEW p \in Payload
    PROVE  SameLocks(Put(q, k, p)) /\ SameLocks(Renew(q, k, p))
<1>1. [st |-> "due", pay |-> p] \in Job
  BY DEF Job
<1>2. SameLocks(Put(q, k, p))
  BY <1>1, NoJobType DEF Put, SameLocks
<1>3. SameLocks([q EXCEPT ![k].pay = p])
  <2>1. [q[k] EXCEPT !.pay = p] \in Job /\ [q[k] EXCEPT !.pay = p].st = q[k].st
    BY DEF Job
  <2>2. [q EXCEPT ![k].pay = p] = [q EXCEPT ![k] = [q[k] EXCEPT !.pay = p]]
    BY DEF Job
  <2> QED  BY <2>1, <2>2 DEF SameLocks
<1> QED  BY <1>2, <1>3 DEF Renew

\* The queue is left alone, or a job is put into it.
LEMMA QueuedKeeps ==
    ASSUME QueueOK, WorkerOK, SameLocks(q'), w' = w
    PROVE  QueueOK' /\ WorkerOK'
BY DEF QueueOK, WorkerOK, SameLocks

LEMMA IdleOK == Idle \in Worker /\ Idle.pc = "idle" /\ Idle.key = Router
<1>1. NoRow \in Row
  BY DEF NoRow, Row, Id
<1>2. [d \in Domain |-> "none"] \in [Domain -> Status]
  BY DEF Status
<1> QED  BY <1>1, <1>2, KeyParts DEF Idle, Worker, Payload

\* The worker goes on with its job.
LEMMA WorkingKeeps ==
    ASSUME QueueOK, WorkerOK, w.pc # "idle", w' \in Worker, w'.key = w.key, w'.pc # "idle",
           w'.pc \in DomainPc => w'.d \in Domain, q' = q
    PROVE  QueueOK' /\ WorkerOK'
BY DEF QueueOK, WorkerOK

LEMMA GotoKeeps ==
    ASSUME QueueOK, WorkerOK, w.pc # "idle", NEW pc \in BusyPc, Goto(pc),
           pc \in DomainPc => w.d \in Domain
    PROVE  /\ QueueOK' /\ WorkerOK' /\ q' = q /\ w'.pc = pc /\ w'.d = w.d /\ w'.act = w.act
           /\ w'.rec = w.rec
<1>1. w' \in Worker /\ w'.pc = pc /\ w'.d = w.d /\ w'.act = w.act /\ w'.rec = w.rec /\ w'.key = w.key
  BY DEF Goto, WorkerOK, Worker
<1>2. pc # "idle"
  BY DEF BusyPc, DomainPc
<1> QED  BY <1>1, <1>2, WorkingKeeps DEF Goto

\* The job ends.
LEMMA EndKeeps ==
    ASSUME QueueOK, WorkerOK, w.pc # "idle", NEW jobs, SameLocks(jobs), End(jobs)
    PROVE  QueueOK' /\ WorkerOK' /\ w' = Idle
<1>1. w.key \in Key
  BY DEF WorkerOK, Worker
<1>2. q' = [jobs EXCEPT ![w.key] = NoJob] /\ w' = Idle
  BY DEF End
<1>3. q' \in [Key -> Job] /\ \A k \in Key : q'[k].st # "running"
  BY <1>1, <1>2, NoJobType DEF SameLocks, QueueOK
<1> QED  BY <1>2, <1>3, IdleOK DEF QueueOK, WorkerOK, DomainPc

LEMMA CompleteKeeps ==
    ASSUME QueueOK, WorkerOK, w.pc # "idle", Complete
    PROVE  QueueOK' /\ WorkerOK' /\ w' = Idle
BY EndKeeps DEF Complete, SameLocks, QueueOK

LEMMA AgainKeeps ==
    ASSUME QueueOK, WorkerOK, w.pc # "idle", Again
    PROVE  QueueOK' /\ WorkerOK' /\ w' = Idle
<1>1. w.key \in Key /\ q \in [Key -> Job]
  BY DEF WorkerOK, Worker, QueueOK
<1>2. [q[w.key] EXCEPT !.st = "due"] \in Job /\ [q[w.key] EXCEPT !.st = "due"].st = "due"
  BY <1>1 DEF Job
<1>3. q' = [q EXCEPT ![w.key] = [q[w.key] EXCEPT !.st = "due"]] /\ w' = Idle
  BY <1>1 DEF Again, Job
<1>4. q' \in [Key -> Job] /\ \A k \in Key : q'[k].st # "running"
  BY <1>1, <1>2, <1>3 DEF QueueOK
<1> QED  BY <1>3, <1>4, IdleOK DEF QueueOK, WorkerOK, DomainPc

-----------------------------------------------------------------------------
(* Tables.                                                                 *)

LEMMA SetStatusType ==
    ASSUME dom \in [Domain -> Status], NEW d, NEW st \in Status, SetStatus(d, st)
    PROVE  /\ dom' \in [Domain -> Status]
           /\ st # "none" => \A e \in Domain : dom'[e] = "none" <=> dom[e] = "none"
BY DEF SetStatus

LEMMA MovedType ==
    ASSUME op \in [Domain -> [OpType -> OpStatus]], NEW d, NEW types, NEW from, NEW st \in OpStatus
    PROVE  Moved(d, types, from, st) \in [Domain -> [OpType -> OpStatus]]
BY DEF Moved

LEMMA OpTypes ==
    ASSUME op \in [Domain -> [OpType -> OpStatus]], NEW d \in Domain, NEW t \in OpType,
           NEW st \in OpStatus
    PROVE  /\ [op EXCEPT ![d][t] = st] \in [Domain -> [OpType -> OpStatus]]
           /\ [op EXCEPT ![d].dns = st] \in [Domain -> [OpType -> OpStatus]]
           /\ [op EXCEPT ![d].delete = st] \in [Domain -> [OpType -> OpStatus]]
           /\ [op EXCEPT ![d] = [dns |-> st, delete |-> "none"]] \in [Domain -> [OpType -> OpStatus]]
BY DEF OpType, OpStatus

-----------------------------------------------------------------------------
(* Records and rows.                                                       *)

Known == Carried /\ Removed /\ Managed

\* Statements that say something of the record, the row or the domain.
Telling == {"list", "upsert", "drop", "insert", "external", "drop_record", "drop_certificate",
            "drop_domain", "commit"}

\* A step of a request, which writes neither the records nor the worker's state, and of which no
\* domain goes.
LEMMA RequestKnows ==
    ASSUME Known, UNCHANGED <<row, ext, residue, w>>,
           \A d \in Domain : dom'[d] = "none" => dom[d] = "none",
           w.pc \in {"list", "upsert", "drop", "insert"} => w.d \in Domain
    PROVE  Known'
BY DEF Known, Carried, Removed, Managed

\* A statement of the worker about other things.
LEMMA WorkKnows ==
    ASSUME Known, UNCHANGED <<row, ext>>, w'.pc \notin Telling,
           \A d \in Domain : dom'[d] = "none" => dom[d] = "none"
    PROVE  Known'
BY DEF Known, Carried, Removed, Managed, Telling

\* A record gets an id that nobody has.
LEMMA FreshId ==
    ASSUME TablesOK, WorkerOK, NEW d \in Domain
    PROVE  Fresh(d) \in Id \ {0} /\ Fresh(d) \notin {ext[d].id, row[d].id, w.rec.id}
<1>1. ASSUME NEW a, NEW b, NEW c PROVE \E i \in Id \ {0} : i \notin {a, b, c}
  <2>1. {1, 2, 3, 4} \subseteq Id \ {0}
    BY DEF Id
  <2> QED  BY <2>1
<1> QED  BY <1>1 DEF Fresh

-----------------------------------------------------------------------------
(* Requests.                                                               *)

LEMMA AskedOK ==
    ASSUME RequestsOK, NEW as, as \subseteq Asks, Asked(as)
    PROVE  ask' \subseteq Asks /\ q' = q
BY DEF RequestsOK, Asked

LEMMA QueueKept ==
    ASSUME QueueOK, WorkerOK, UNCHANGED <<q, w>>
    PROVE  QueueOK' /\ WorkerOK'
BY DEF QueueOK, WorkerOK

LEMMA AskTypes ==
    /\ <<Router, "check", FALSE>> \in Asks
    /\ \A t \in {"dns", "redns", "reacme", "delete"}, d \in Domain, p \in Payload :
          <<K(t, d), p, FALSE>> \in Asks
    /\ \A b \in BOOLEAN, p \in {"force", "plain"} : <<UserJob, p, b>> \in Asks
    /\ "check" \in Payload
BY KeyParts DEF Asks, Payload

\* CreateDomain, ResolveDomainDNS, DeleteDomain and ClientApplied.
LEMMA DomainRequest ==
    ASSUME DomainsInv, NEW d \in Domain,
           \/ CreateDomain(d) \/ DeleteDomain(d) \/ ClientApplied(d)
           \/ \E a \in Action : ResolveDomainDNS(d, a)
    PROVE  DomainsInv'
<1> USE DEF DomainsInv, Typed
<1>1. /\ UNCHANGED <<user, userOp, residue, row, cert, ext, retry, w>>
      /\ op' \in [Domain -> [OpType -> OpStatus]] /\ dom' \in [Domain -> Status]
      /\ \A e \in Domain : dom'[e] = "none" => dom[e] = "none"
      /\ ask' \subseteq Asks /\ q' = q
  <2>1. CASE CreateDomain(d)
    <3>1. dom' \in [Domain -> Status] /\ (\A e \in Domain : dom'[e] = "none" => dom[e] = "none")
      BY <2>1 DEF CreateDomain, TablesOK, Status
    <3>2. op' \in [Domain -> [OpType -> OpStatus]]
      BY <2>1, OpTypes DEF CreateDomain, TablesOK, OpStatus, OpType
    <3>3. ask' \subseteq Asks /\ q' = q
      BY <2>1, AskTypes, AskedOK DEF CreateDomain
    <3> QED  BY <2>1, <3>1, <3>2, <3>3 DEF CreateDomain, account
  <2>2. CASE DeleteDomain(d)
    <3>1. dom' \in [Domain -> Status] /\ (\A e \in Domain : dom'[e] = "none" => dom[e] = "none")
      BY <2>2, SetStatusType DEF DeleteDomain, TablesOK, Status
    <3>2. op' \in [Domain -> [OpType -> OpStatus]]
      BY <2>2, OpTypes DEF DeleteDomain, TablesOK, OpStatus, OpType
    <3>3. ask' \subseteq Asks /\ q' = q
      BY <2>2, AskTypes, AskedOK DEF DeleteDomain
    <3> QED  BY <2>2, <3>1, <3>2, <3>3 DEF DeleteDomain, account
  <2>3. CASE ClientApplied(d)
    <3>1. ask' \subseteq Asks /\ q' = q
      BY <2>3, AskTypes, AskedOK DEF ClientApplied
    <3> QED  BY <2>3, <3>1 DEF ClientApplied, account, tables, TablesOK
  <2>4. ASSUME NEW a \in Action, ResolveDomainDNS(d, a)
        PROVE  /\ UNCHANGED <<user, userOp, residue, row, cert, ext, retry, w>>
               /\ op' \in [Domain -> [OpType -> OpStatus]] /\ dom' \in [Domain -> Status]
               /\ \A e \in Domain : dom'[e] = "none" => dom[e] = "none"
               /\ ask' \subseteq Asks /\ q' = q
    <3>1. dom' \in [Domain -> Status] /\ (\A e \in Domain : dom'[e] = "none" => dom[e] = "none")
      BY <2>4, SetStatusType DEF ResolveDomainDNS, TablesOK, Status
    <3>2. op' \in [Domain -> [OpType -> OpStatus]]
      BY <2>4, OpTypes, MovedType DEF ResolveDomainDNS, TablesOK, OpStatus, OpType
    <3>3. ask' \subseteq Asks /\ q' = q
      BY <2>4, AskTypes, AskedOK DEF ResolveDomainDNS, Payload
    <3> QED  BY <2>4, <3>1, <3>2, <3>3 DEF ResolveDomainDNS, account
  <2> QED  BY <2>1, <2>2, <2>3, <2>4
<1>2. QueueOK' /\ WorkerOK'
  BY <1>1, QueueKept
<1>3. AccountOK' /\ TablesOK' /\ RequestsOK'
  BY <1>1 DEF AccountOK, TablesOK, RequestsOK
<1>4. Known'
  BY <1>1, RequestKnows DEF Known, WorkerOK, DomainPc
<1> QED  BY <1>2, <1>3, <1>4 DEF Known

\* DeleteUser, SetUserStatus and the retry of a user's deletion.
LEMMA UserRequest ==
    ASSUME DomainsInv, ReviveUser \/ RetryUser \/ \E forced \in BOOLEAN : DeleteUser(forced)
    PROVE  DomainsInv'
<1> USE DEF DomainsInv, Typed
<1>1. CASE ReviveUser
  <2>1. UNCHANGED <<userOp, residue, dom, row, cert, op, ext, q, ask, retry, w>> /\ user' = "active"
    BY <1>1 DEF ReviveUser, tables, queue
  <2>2. AccountOK' /\ TablesOK' /\ RequestsOK' /\ QueueOK' /\ WorkerOK'
    BY <2>1 DEF AccountOK, TablesOK, RequestsOK, QueueOK, WorkerOK
  <2> QED  BY <2>1, <2>2 DEF Carried, Removed, Managed
<1>2. CASE RetryUser
  <2>1. UNCHANGED <<user, residue, dom, row, cert, op, ext, retry, w>>
    BY <1>2 DEF RetryUser, tables
  <2>2. ask' \subseteq Asks /\ q' = q
    BY <1>2, AskTypes, AskedOK DEF RetryUser
  <2>3. userOp' \in [status : OpStatus, force : BOOLEAN]
    BY <1>2 DEF RetryUser, AccountOK, OpStatus
  <2>4. AccountOK' /\ TablesOK' /\ RequestsOK' /\ QueueOK' /\ WorkerOK'
    BY <2>1, <2>2, <2>3 DEF AccountOK, TablesOK, RequestsOK, QueueOK, WorkerOK
  <2> QED  BY <2>1, <2>4 DEF Carried, Removed, Managed
<1>3. ASSUME NEW forced \in BOOLEAN, DeleteUser(forced) PROVE DomainsInv'
  <2>1. UNCHANGED <<residue, row, cert, ext, retry, w>> /\ user' = "deleting"
    BY <1>3 DEF DeleteUser
  <2>2. userOp' \in [status : OpStatus, force : BOOLEAN]
    BY <1>3 DEF DeleteUser, AccountOK, OpStatus
  <2>3. ask' \subseteq Asks /\ q' = q
    BY <1>3, AskTypes, AskedOK DEF DeleteUser
  <2>4. dom' \in [Domain -> Status] /\ \A e \in Domain : dom'[e] = "none" => dom[e] = "none"
    BY <1>3 DEF DeleteUser, TablesOK, Status
  <2>5. op' \in [Domain -> [OpType -> OpStatus]]
    <3>1. \A d \in Domain : [op[d] EXCEPT !.delete = "pending"] \in [OpType -> OpStatus]
      BY DEF TablesOK, OpType, OpStatus
    <3> QED  BY <1>3, <3>1 DEF DeleteUser, TablesOK
  <2>6. AccountOK' /\ TablesOK' /\ RequestsOK'
    BY <2>1, <2>2, <2>3, <2>4, <2>5 DEF AccountOK, TablesOK, RequestsOK
  <2>7. Known'
    BY <2>1, <2>4, RequestKnows DEF Known, WorkerOK, DomainPc
  <2> QED  BY <2>1, <2>3, <2>6, <2>7, QueueKept DEF Known
<1> QED  BY <1>1, <1>2, <1>3

\* RetryOperation, statement by statement.
LEMMA RetryRequest ==
    ASSUME DomainsInv,
           \/ \E d \in Domain, t \in OpType : RetryRead(d, t)
           \/ RetryOperation \/ RetryDomain
    PROVE  DomainsInv'
<1> USE DEF DomainsInv, Typed
<1>1. ASSUME NEW d \in Domain, NEW t \in OpType, RetryRead(d, t) PROVE DomainsInv'
  <2>1. UNCHANGED <<user, userOp, residue, dom, row, cert, op, ext, q, ask, w>>
    BY <1>1 DEF RetryRead, account, tables, queue
  <2>2. retry' \in Retry /\ retry'.d = d /\ retry'.job # "dns"
    BY <1>1 DEF RetryRead, Retry, OpType
  <2>3. AccountOK' /\ TablesOK' /\ RequestsOK' /\ QueueOK' /\ WorkerOK'
    BY <2>1, <2>2 DEF AccountOK, TablesOK, RequestsOK, QueueOK, WorkerOK
  <2> QED  BY <2>1, <2>3 DEF Carried, Removed, Managed
<1>2. CASE RetryOperation
  <2>1. UNCHANGED <<user, userOp, residue, dom, row, cert, ext, q, ask, w>>
    BY <1>2 DEF RetryOperation, account, queue
  <2>2. retry' \in Retry /\ retry'.d \in Domain /\ retry'.job # "dns"
    BY <1>2 DEF RetryOperation, RequestsOK, Retry
  <2>3. op' \in [Domain -> [OpType -> OpStatus]]
    BY <1>2, OpTypes DEF RetryOperation, RequestsOK, Retry, TablesOK, OpStatus
  <2>4. AccountOK' /\ TablesOK' /\ RequestsOK' /\ QueueOK' /\ WorkerOK'
    BY <2>1, <2>2, <2>3 DEF AccountOK, TablesOK, RequestsOK, QueueOK, WorkerOK
  <2> QED  BY <2>1, <2>4 DEF Carried, Removed, Managed
<1>3. CASE RetryDomain
  <2>1. UNCHANGED <<user, userOp, residue, row, cert, op, ext, w>> /\ retry' = NoRetry
    BY <1>3 DEF RetryDomain, account
  <2>2. retry.d \in Domain /\ retry.job \in {"delete", "router", "reacme", "redns"}
    BY <1>3 DEF RetryDomain, RequestsOK, Retry
  <2>3. dom' \in [Domain -> Status] /\ \A e \in Domain : dom'[e] = "none" => dom[e] = "none"
    <3>1. \E st \in {"deleting", "pending_router", "pending_certificate", "pending_dns"} :
             SetStatus(retry.d, st)
      BY <1>3, <2>2 DEF RetryDomain
    <3> QED  BY <3>1, SetStatusType DEF TablesOK, Status
  <2>4. ask' \subseteq Asks /\ q' = q
    <3>1. <<IF retry.job = "router" THEN Router ELSE K(retry.job, retry.d), "check", FALSE>> \in Asks
      BY <2>2, AskTypes
    <3> QED  BY <1>3, <3>1, AskedOK DEF RetryDomain
  <2>5. AccountOK' /\ TablesOK' /\ RequestsOK'
    BY <2>1, <2>3, <2>4 DEF AccountOK, TablesOK, RequestsOK, NoRetry, Retry, OpType
  <2>6. Known'
    BY <2>1, <2>3, RequestKnows DEF Known, WorkerOK, DomainPc
  <2> QED  BY <2>1, <2>4, <2>5, <2>6, QueueKept DEF Known
<1> QED  BY <1>1, <1>2, <1>3

-----------------------------------------------------------------------------
(* The queue, the owner's zone and the end of the process.                 *)

\* Enqueue and seedPendingJobs.
LEMMA QueueRequest ==
    ASSUME DomainsInv, (\E a \in ask : Enqueue(a)) \/ \E k \in Key : Seed(k)
    PROVE  DomainsInv'
<1> USE DEF DomainsInv, Typed
<1>1. UNCHANGED <<user, userOp, residue, dom, row, cert, op, ext, retry, w>> /\ ask' \subseteq ask
  BY DEF Enqueue, Seed, account, tables
<1>2. SameLocks(q')
  <2>1. ASSUME NEW a \in ask, Enqueue(a) PROVE SameLocks(q')
    <3>1. a[1] \in Key /\ a[2] \in Payload
      BY DEF RequestsOK, Asks
    <3> QED  BY <2>1, <3>1, PutLocks DEF Enqueue, QueueOK
  <2>2. ASSUME NEW k \in Key, Seed(k) PROVE SameLocks(q')
    <3>1. \E p \in {"check", "force", "plain"} : q' = Put(q, k, p) \/ q' = Renew(q, k, p)
      BY <2>2 DEF Seed
    <3> QED  BY <3>1, PutLocks DEF QueueOK, Payload
  <2> QED  BY <2>1, <2>2
<1>3. AccountOK' /\ TablesOK' /\ RequestsOK' /\ QueueOK' /\ WorkerOK'
  BY <1>1, <1>2, QueuedKeeps DEF AccountOK, TablesOK, RequestsOK
<1> QED  BY <1>1, <1>3 DEF Carried, Removed, Managed

\* What the worker starts with: nothing that tells of a record.
LEMMA ClaimKeeps ==
    ASSUME DomainsInv, NEW k \in Key, Claim(k)
    PROVE  DomainsInv'
<1> USE DEF DomainsInv, Typed
<1> DEFINE pc == CASE k[1] \in {"dns", "redns"} -> "sync" [] k[1] \in {"acme", "reacme"} -> "certify"
            [] k[1] = "delete" -> "remove" [] k[1] = "user" -> "user" [] k[1] = "router" -> "build"
<1>1. /\ UNCHANGED <<user, userOp, residue, dom, row, cert, op, ext, ask, retry>>
      /\ w.pc = "idle" /\ q' = [q EXCEPT ![k].st = "running"]
      /\ w' = [Idle EXCEPT !.key = k, !.d = k[2], !.act = q[k].pay, !.pc = pc]
  BY DEF Claim, account, tables
<1>2. /\ pc \in {"sync", "certify", "remove", "user", "build"}
      /\ pc \in {"sync", "certify", "remove"} => k[2] \in Domain
      /\ k[2] \in Domain \cup {NoDomain}
  BY KeyParts
<1> HIDE DEF pc
<1>3. q[k] \in Job /\ q[k].pay \in Payload /\ q \in [Key -> Job]
  BY DEF QueueOK, Job
<1>4. w' \in Worker /\ w'.pc = pc /\ w'.key = k /\ w'.d = k[2]
  BY <1>1, <1>2, <1>3, IdleOK DEF Worker, BusyPc, DomainPc
<1>5. WorkerOK'
  BY <1>2, <1>4 DEF WorkerOK, DomainPc
<1>6. QueueOK'
  <2>1. [q[k] EXCEPT !.st = "running"] \in Job /\ [q[k] EXCEPT !.st = "running"].st = "running"
    BY <1>3 DEF Job
  <2>2. q' = [q EXCEPT ![k] = [q[k] EXCEPT !.st = "running"]]
    BY <1>1, <1>3 DEF Job
  <2>3. q' \in [Key -> Job] /\ \A l \in Key : q'[l].st = "running" <=> l = k
    BY <1>1, <1>3, <2>1, <2>2 DEF QueueOK
  <2> QED  BY <1>2, <1>4, <2>3 DEF QueueOK
<1>7. Known'
  BY <1>1, <1>2, <1>4, WorkKnows DEF Known, Telling
<1>8. AccountOK' /\ TablesOK' /\ RequestsOK'
  BY <1>1 DEF AccountOK, TablesOK, RequestsOK
<1> QED  BY <1>5, <1>6, <1>7, <1>8 DEF Known

\* A job that is given up, and the end of the process.
LEMMA EndingKeeps ==
    ASSUME DomainsInv, Crash \/ \E k \in Key : GiveUp(k)
    PROVE  DomainsInv'
<1> USE DEF DomainsInv, Typed
<1>1. CASE Crash
  <2>1. /\ UNCHANGED <<user, userOp, residue, dom, row, cert, op, ext>>
        /\ w' = Idle /\ ask' = {} /\ retry' = NoRetry
        /\ q' = IF w = Idle THEN q ELSE [q EXCEPT ![w.key].st = "due"]
    BY <1>1 DEF Crash, account, tables
  <2>2. w.key \in Key /\ q \in [Key -> Job]
    BY DEF WorkerOK, Worker, QueueOK
  <2>3. q' \in [Key -> Job] /\ \A k \in Key : q'[k].st # "running"
    <3>1. CASE w = Idle
      BY <2>1, <2>2, <3>1, IdleOK DEF QueueOK
    <3>2. CASE w # Idle
      <4>1. [q[w.key] EXCEPT !.st = "due"] \in Job /\ [q[w.key] EXCEPT !.st = "due"].st = "due"
        BY <2>2 DEF Job
      <4>2. q' = [q EXCEPT ![w.key] = [q[w.key] EXCEPT !.st = "due"]]
        BY <2>1, <2>2, <3>2 DEF Job
      <4> QED  BY <2>2, <4>1, <4>2 DEF QueueOK
    <3> QED  BY <3>1, <3>2
  <2>4. QueueOK' /\ WorkerOK'
    BY <2>1, <2>3, IdleOK DEF QueueOK, WorkerOK, DomainPc
  <2>5. AccountOK' /\ TablesOK' /\ RequestsOK'
    BY <2>1 DEF AccountOK, TablesOK, RequestsOK, NoRetry, Retry, OpType
  <2>6. Known'
    BY <2>1, IdleOK, WorkKnows DEF Known, Telling
  <2> QED  BY <2>4, <2>5, <2>6 DEF Known
<1>2. ASSUME NEW k \in Key, GiveUp(k) PROVE DomainsInv'
  <2>1. UNCHANGED <<user, userOp, residue, dom, row, cert, op, ext, ask, retry, w>>
        /\ w.pc = "idle" /\ q' = [q EXCEPT ![k] = NoJob]
    BY <1>2 DEF GiveUp, account, tables
  <2>2. q' \in [Key -> Job] /\ \A l \in Key : q'[l].st # "running"
    BY <2>1, NoJobType DEF QueueOK
  <2>3. AccountOK' /\ TablesOK' /\ RequestsOK' /\ QueueOK' /\ WorkerOK'
    BY <2>1, <2>2 DEF AccountOK, TablesOK, RequestsOK, QueueOK, WorkerOK
  <2> QED  BY <2>1, <2>3 DEF Carried, Removed, Managed
<1> QED  BY <1>1, <1>2

\* The owner's record has an id that no row and no job has.
LEMMA OwnerKeeps ==
    ASSUME DomainsInv, NEW d \in Domain, OwnerEdits(d)
    PROVE  DomainsInv'
<1> USE DEF DomainsInv, Typed
<1>1. UNCHANGED <<user, userOp, residue, dom, row, cert, op, q, ask, retry, w>>
  BY DEF OwnerEdits, account, tables, queue
<1>2. PICK r \in Record : /\ ext' = [ext EXCEPT ![d] = r]
                          /\ r.id = 0 \/ r.id \notin {row[d].id, w.rec.id}
  <2>1. NoRecord \in Record /\ NoRecord.id = 0
    BY DEF NoRecord, Record, Id
  <2>2. ASSUME NEW same \in BOOLEAN
        PROVE  /\ [id |-> Fresh(d), by |-> "user", same |-> same] \in Record
               /\ [id |-> Fresh(d), by |-> "user", same |-> same].id \notin {row[d].id, w.rec.id}
    BY FreshId DEF Record
  <2> QED  BY <2>1, <2>2 DEF OwnerEdits
<1>3. ext' \in [Domain -> Record] /\ ext'[d] = r /\ \A e \in Domain : e # d => ext'[e] = ext[e]
  BY <1>2 DEF TablesOK
<1>4. AccountOK' /\ TablesOK' /\ RequestsOK' /\ QueueOK' /\ WorkerOK'
  BY <1>1, <1>3 DEF AccountOK, TablesOK, RequestsOK, QueueOK, WorkerOK
<1>5. w.pc \in {"drop", "insert", "drop_record"} => w.d \in Domain
  BY DEF WorkerOK, DomainPc
<1>6. Managed'
  BY <1>1, <1>2, <1>3 DEF Managed
<1>7. Carried'
  BY <1>1, <1>2, <1>3, <1>5 DEF Carried
<1>8. Removed'
  BY <1>1, <1>2, <1>3, <1>5 DEF Removed, Managed
<1> QED  BY <1>4, <1>6, <1>7, <1>8

-----------------------------------------------------------------------------
(* The worker: what a statement leaves of the types, and what it knows.    *)

WorkInv == TablesOK /\ QueueOK /\ WorkerOK /\ Known

LEMMA Statement ==
    ASSUME DomainsInv, AccountOK', UNCHANGED <<ask, retry>>, WorkInv'
    PROVE  DomainsInv'
BY DEF DomainsInv, Typed, RequestsOK, WorkInv, Known

\* A job ends or is put off, with the rows and records as they were.
LEMMA JobEnds ==
    ASSUME WorkInv, w.pc # "idle", TablesOK',
           Complete \/ Again \/ (\E k \in Key : End(Put(q, k, "check"))), UNCHANGED <<row, ext>>,
           \A d \in Domain : dom'[d] = "none" => dom[d] = "none"
    PROVE  WorkInv'
<1>1. QueueOK' /\ WorkerOK' /\ w' = Idle
  BY CompleteKeeps, AgainKeeps, EndKeeps, PutLocks, AskTypes DEF WorkInv, QueueOK
<1>2. Known'
  BY <1>1, IdleOK, WorkKnows DEF WorkInv, Telling
<1> QED  BY <1>1, <1>2 DEF WorkInv

\* The worker goes on to a statement that tells nothing of a record.
LEMMA JobGoesOn ==
    ASSUME WorkInv, w.pc # "idle", TablesOK', NEW pc \in BusyPc \ Telling, Goto(pc),
           pc \in DomainPc => w.d \in Domain, UNCHANGED <<row, ext>>,
           \A d \in Domain : dom'[d] = "none" => dom[d] = "none"
    PROVE  WorkInv'
<1>1. QueueOK' /\ WorkerOK' /\ w'.pc = pc
  BY GotoKeeps DEF WorkInv
<1>2. Known'
  BY <1>1, WorkKnows DEF WorkInv
<1> QED  BY <1>1, <1>2 DEF WorkInv

LEMMA TablesKept ==
    ASSUME TablesOK, UNCHANGED <<tables, ext>>
    PROVE  TablesOK' /\ UNCHANGED <<dom, row, cert, op, ext>>
BY DEF TablesOK, tables

\* A statement whose only write is the status of its domain.
LEMMA StatusWritten ==
    ASSUME TablesOK, NEW d, NEW st \in Status \ {"none"}, SetStatus(d, st),
           UNCHANGED <<row, cert, op, ext>>
    PROVE  TablesOK' /\ \A e \in Domain : dom'[e] = "none" <=> dom[e] = "none"
BY SetStatusType DEF TablesOK

\* A statement whose only write is the operations of its domain.
LEMMA OperationsWritten ==
    ASSUME TablesOK, NEW d, NEW types, NEW from, NEW st \in OpStatus,
           op' = Moved(d, types, from, st), UNCHANGED <<dom, row, cert, ext>>
    PROVE  TablesOK'
BY MovedType DEF TablesOK

-----------------------------------------------------------------------------
(* syncDomainDNS.                                                          *)

LEMMA SyncStartKeeps == ASSUME WorkInv, SyncStart PROVE WorkInv'
<1>1. w.pc = "sync" /\ w.d \in Domain /\ TablesOK' /\ UNCHANGED <<dom, row, ext>>
  BY TablesKept DEF SyncStart, WorkInv, WorkerOK, DomainPc
<1>2. CASE dom[w.d] \in {"none", "deleting"}
  BY <1>1, <1>2, JobEnds DEF SyncStart
<1>3. CASE dom[w.d] \notin {"none", "deleting"}
  <2>1. Goto("canceled") \/ Goto("failed") \/ Goto("list")
    BY <1>3 DEF SyncStart
  <2>2. CASE Goto("canceled") \/ Goto("failed")
    BY <1>1, <2>2, JobGoesOn DEF BusyPc, DomainPc, Telling
  <2>3. CASE Goto("list")
    <3>1. QueueOK' /\ WorkerOK' /\ w'.pc = "list" /\ w'.d = w.d
      BY <1>1, <2>3, GotoKeeps DEF WorkInv, BusyPc, DomainPc
    <3> QED  BY <1>1, <1>3, <3>1 DEF WorkInv, Known, Carried, Removed, Managed
  <2> QED  BY <2>1, <2>2, <2>3
<1> QED  BY <1>2, <1>3

LEMMA SyncListKeeps == ASSUME WorkInv, SyncList PROVE WorkInv'
<1>1. /\ w.pc = "list" /\ w.d \in Domain /\ TablesOK' /\ UNCHANGED <<dom, row, ext>>
      /\ dom[w.d] # "none" /\ w \in Worker /\ ext[w.d] \in Record
  BY TablesKept DEF SyncList, WorkInv, WorkerOK, TablesOK, DomainPc, Known, Managed
<1>2. CASE Again
  BY <1>1, <1>2, JobEnds
<1>3. CASE Goto("failed")
  BY <1>1, <1>3, JobGoesOn DEF BusyPc, DomainPc, Telling
<1>4. ASSUME ~(w.act = "adopt" /\ ext[w.d].id = 0), UNCHANGED q,
             NEW match \in Matches(w.d, ext[w.d]), SyncDecide(ext[w.d], match)
      PROVE  WorkInv'
  <2> DEFINE rec == [managed |-> w.act = "sync", id |-> ext[w.d].id]
  <2>1. rec \in Row /\ rec.id = ext[w.d].id /\ (rec.managed => w.act = "sync")
    BY <1>1 DEF Row, Record
  <2>2. match => ext[w.d].id # 0
    BY <1>4 DEF Matches
  <2> HIDE DEF rec
  <2>3. CASE w' = [w EXCEPT !.pc = "drop", !.rec = rec] /\ (match \/ w.act = "adopt")
    <3>1. ext[w.d].id # 0
      BY <1>4, <2>2, <2>3
    <3>2. w' \in Worker /\ w'.pc = "drop" /\ w'.rec = rec /\ w'.d = w.d /\ w'.act = w.act /\ w'.key = w.key
      BY <1>1, <2>1, <2>3 DEF Worker, BusyPc, DomainPc
    <3>3. QueueOK' /\ WorkerOK'
      BY <1>1, <1>4, <3>2, WorkingKeeps DEF WorkInv
    <3>4. Carried' /\ Removed' /\ Managed'
      BY <1>1, <2>1, <3>1, <3>2 DEF WorkInv, Known, Carried, Removed, Managed
    <3> QED  BY <1>1, <3>3, <3>4 DEF WorkInv, Known
  <2>4. CASE Goto("upsert")
    <3>1. QueueOK' /\ WorkerOK' /\ w'.pc = "upsert" /\ w'.d = w.d
      BY <1>1, <2>4, GotoKeeps DEF WorkInv, BusyPc, DomainPc
    <3> QED  BY <1>1, <3>1 DEF WorkInv, Known, Carried, Removed, Managed
  <2>5. CASE Goto("failed")
    BY <1>3, <2>5
  <2>6. \/ w' = [w EXCEPT !.pc = "drop", !.rec = rec] /\ (match \/ w.act = "adopt")
        \/ Goto("upsert") \/ Goto("failed")
    BY <1>4 DEF SyncDecide, Goto, rec
  <2> QED  BY <2>3, <2>4, <2>5, <2>6
<1> QED  BY <1>2, <1>3, <1>4 DEF SyncList

LEMMA SyncUpsertKeeps == ASSUME WorkInv, SyncUpsert PROVE WorkInv'
<1>1. /\ w.pc = "upsert" /\ w.d \in Domain /\ UNCHANGED <<dom, row, cert, op>>
      /\ dom[w.d] # "none" /\ w \in Worker /\ ext[w.d] \in Record
  BY DEF SyncUpsert, tables, WorkInv, WorkerOK, TablesOK, DomainPc, Known, Managed
<1>2. CASE (Again \/ Goto("failed")) /\ UNCHANGED ext
  <2>1. TablesOK'
    BY <1>1, <1>2 DEF WorkInv, TablesOK
  <2> QED  BY <1>1, <1>2, <2>1, JobEnds, JobGoesOn DEF BusyPc, DomainPc, Telling
<1>3. ASSUME NEW i, i = IF ext[w.d].id = 0 THEN Fresh(w.d) ELSE ext[w.d].id,
             ext' = [ext EXCEPT ![w.d] = [id |-> i, by |-> "panel", same |-> TRUE]],
             \/ Again
             \/ w' = [w EXCEPT !.pc = "drop", !.rec = [managed |-> TRUE, id |-> i]] /\ q' = q
      PROVE  WorkInv'
  <2>1. i \in Id \ {0}
    BY <1>1, <1>3, FreshId DEF WorkInv, Record
  <2>2. /\ ext' \in [Domain -> Record] /\ ext'[w.d].id = i /\ ext'[w.d].by = "panel"
        /\ \A d \in Domain : d # w.d => ext'[d] = ext[d]
    BY <1>1, <1>3, <2>1 DEF WorkInv, TablesOK, Record
  <2>3. TablesOK'
    BY <1>1, <2>2 DEF WorkInv, TablesOK
  <2>4. CASE Again
    <3>1. QueueOK' /\ WorkerOK' /\ w' = Idle
      BY <1>1, <2>4, AgainKeeps DEF WorkInv
    <3>2. Known'
      BY <1>1, <2>2, <3>1, IdleOK DEF WorkInv, Known, Carried, Removed, Managed
    <3> QED  BY <2>3, <3>1, <3>2 DEF WorkInv
  <2>5. CASE w' = [w EXCEPT !.pc = "drop", !.rec = [managed |-> TRUE, id |-> i]] /\ q' = q
    <3>1. [managed |-> TRUE, id |-> i] \in Row
      BY <2>1 DEF Row
    <3>2. /\ w' \in Worker /\ w'.pc = "drop" /\ w'.rec.id = i /\ w'.d = w.d /\ w'.key = w.key
      BY <1>1, <2>5, <3>1 DEF Worker, BusyPc, DomainPc
    <3>3. QueueOK' /\ WorkerOK'
      BY <1>1, <2>5, <3>2, WorkingKeeps DEF WorkInv
    <3>4. Carried' /\ Removed' /\ Managed'
      BY <1>1, <2>1, <2>2, <3>2 DEF WorkInv, Known, Carried, Removed, Managed
    <3> QED  BY <2>3, <3>3, <3>4 DEF WorkInv, Known
  <2> QED  BY <1>3, <2>4, <2>5
<1> QED  BY <1>2, <1>3 DEF SyncUpsert

LEMMA NoRowType == NoRow \in Row /\ ~NoRow.managed
BY DEF NoRow, Row, Id

LEMMA SyncSaveKeeps == ASSUME WorkInv, SyncDrop \/ SyncInsert PROVE WorkInv'
<1>1. w.d \in Domain /\ w \in Worker /\ w.pc \in {"drop", "insert"} /\ dom[w.d] # "none"
      /\ w.rec \in Row /\ w.rec.id # 0
  BY DEF SyncDrop, SyncInsert, WorkInv, WorkerOK, Worker, DomainPc, Known, Carried, Managed
<1>2. CASE SyncDrop
  <2>1. /\ row' = [row EXCEPT ![w.d] = NoRow] /\ UNCHANGED <<dom, cert, op, ext>> /\ w.pc = "drop"
    BY <1>2 DEF SyncDrop
  <2>2. /\ row' \in [Domain -> Row] /\ row'[w.d] = NoRow
        /\ \A d \in Domain : d # w.d => row'[d] = row[d]
    BY <1>1, <2>1, NoRowType DEF WorkInv, TablesOK
  <2>3. /\ QueueOK' /\ WorkerOK' /\ w'.pc = "insert" /\ w'.d = w.d /\ w'.act = w.act
        /\ w'.rec = w.rec
    BY <1>1, <1>2, GotoKeeps DEF SyncDrop, WorkInv, BusyPc, DomainPc
  <2>4. TablesOK'
    BY <2>1, <2>2 DEF WorkInv, TablesOK
  <2>5. Carried' /\ Removed' /\ Managed'
    BY <1>1, <2>1, <2>2, <2>3, NoRowType DEF WorkInv, Known, Carried, Removed, Managed
  <2> QED  BY <2>3, <2>4, <2>5 DEF WorkInv, Known
<1>3. CASE SyncInsert
  <2> DEFINE by == IF w.act = "sync" /\ ext[w.d].id = w.rec.id THEN "panel" ELSE ext[w.d].by
  <2>1. /\ row' = [row EXCEPT ![w.d] = w.rec] /\ UNCHANGED <<dom, cert, op>> /\ w.pc = "insert"
        /\ ext' = [ext EXCEPT ![w.d].by = IF w.act = "sync" /\ ext[w.d].id = w.rec.id
                                          THEN "panel" ELSE @]
    BY <1>3 DEF SyncInsert
  <2>2. /\ row' \in [Domain -> Row] /\ row'[w.d] = w.rec
        /\ \A d \in Domain : d # w.d => row'[d] = row[d]
    BY <1>1, <2>1 DEF WorkInv, TablesOK
  <2>3. ext' = [ext EXCEPT ![w.d] = [ext[w.d] EXCEPT !.by = by]] /\ ext[w.d] \in Record
    BY <1>1, <2>1 DEF WorkInv, TablesOK
  <2>4. by \in {"user", "panel"}
    BY <2>3 DEF Record
  <2>5. [ext[w.d] EXCEPT !.by = by] \in Record /\ [ext[w.d] EXCEPT !.by = by].id = ext[w.d].id
        /\ [ext[w.d] EXCEPT !.by = by].by = by
    BY <2>3, <2>4 DEF Record
  <2>6. /\ ext' \in [Domain -> Record] /\ ext'[w.d].id = ext[w.d].id /\ ext'[w.d].by = by
        /\ \A d \in Domain : d # w.d => ext'[d] = ext[d]
    BY <1>1, <2>3, <2>5 DEF WorkInv, TablesOK
  <2>7. QueueOK' /\ WorkerOK' /\ w'.pc \in {"certificate", "status"}
    BY <1>1, <1>3, GotoKeeps DEF SyncInsert, WorkInv, BusyPc, DomainPc
  <2>8. TablesOK'
    BY <2>1, <2>2, <2>6 DEF WorkInv, TablesOK
  <2>9. Managed'
    <3>1. w.rec.managed /\ w.rec.id = ext[w.d].id => by = "panel"
      BY <1>1 DEF WorkInv, Known, Carried
    <3> HIDE DEF by
    <3> QED  BY <1>1, <2>1, <2>2, <2>6, <2>7, <3>1 DEF WorkInv, Known, Managed
  <2>10. Carried' /\ Removed'
    BY <2>7 DEF Carried, Removed
  <2> QED  BY <2>7, <2>8, <2>9, <2>10 DEF WorkInv, Known
<1> QED  BY <1>2, <1>3

LEMMA SyncRestKeeps ==
    ASSUME WorkInv, SyncCertificate \/ SyncStatus \/ SyncOperations \/ MarkDomain \/ MarkOperations
    PROVE  WorkInv'
<1>1. w.d \in Domain /\ w.pc # "idle"
  BY DEF SyncCertificate, SyncStatus, SyncOperations, MarkDomain, MarkOperations, WorkInv, WorkerOK,
         DomainPc
<1>2. CASE SyncCertificate
  <2>1. TablesOK' /\ UNCHANGED <<dom, row, ext>>
    BY <1>2 DEF SyncCertificate, WorkInv, TablesOK
  <2> QED  BY <1>1, <1>2, <2>1, JobGoesOn DEF SyncCertificate, BusyPc, DomainPc, Telling
<1>3. CASE SyncStatus
  <2>1. TablesOK' /\ (\A e \in Domain : dom'[e] = "none" <=> dom[e] = "none") /\ UNCHANGED <<row, ext>>
    BY <1>3, StatusWritten DEF SyncStatus, WorkInv, Status
  <2> QED  BY <1>1, <1>3, <2>1, JobGoesOn DEF SyncStatus, BusyPc, DomainPc, Telling
<1>4. CASE SyncOperations
  <2>1. TablesOK' /\ UNCHANGED <<dom, row, ext>>
    BY <1>4, OperationsWritten DEF SyncOperations, WorkInv, OpStatus
  <2>2. Complete \/ \E k \in Key : End(Put(q, k, "check"))
    BY <1>1, <1>4, KeyParts DEF SyncOperations
  <2> QED  BY <1>1, <2>1, <2>2, JobEnds
<1>5. CASE MarkDomain
  <2>1. TablesOK' /\ (\A e \in Domain : dom'[e] = "none" <=> dom[e] = "none") /\ UNCHANGED <<row, ext>>
    BY <1>5, StatusWritten DEF MarkDomain, WorkInv, Status
  <2> QED  BY <1>1, <1>5, <2>1, JobGoesOn DEF MarkDomain, BusyPc, DomainPc, Telling
<1>6. CASE MarkOperations
  <2>1. TablesOK' /\ UNCHANGED <<dom, row, ext>>
    BY <1>6, OperationsWritten DEF MarkOperations, WorkInv, OpStatus
  <2> QED  BY <1>1, <1>6, <2>1, JobEnds DEF MarkOperations
<1> QED  BY <1>2, <1>3, <1>4, <1>5, <1>6

-----------------------------------------------------------------------------
(* deleteDomainExternal and finalizeDeletedDomain.                         *)

LEMMA ErrorKeeps ==
    ASSUME QueueOK, WorkerOK, w.pc # "idle", w.d \in Domain, RemoveError
    PROVE  QueueOK' /\ WorkerOK' /\ w'.pc \in {"idle", "present"}
<1>1. CASE Again
  BY <1>1, AgainKeeps, IdleOK
<1>2. CASE w' = [w EXCEPT !.pc = "present", !.err = TRUE] /\ UNCHANGED q
  <2>1. w' \in Worker /\ w'.pc = "present" /\ w'.key = w.key /\ w'.d = w.d
    BY <1>2 DEF WorkerOK, Worker, BusyPc, DomainPc
  <2> QED  BY <1>2, <2>1, WorkingKeeps
<1> QED  BY <1>1, <1>2 DEF RemoveError

LEMMA RemoveStartKeeps == ASSUME WorkInv, RemoveStart PROVE WorkInv'
<1>1. w.pc = "remove" /\ w.d \in Domain /\ TablesOK' /\ UNCHANGED <<dom, row, ext>>
  BY TablesKept DEF RemoveStart, WorkInv, WorkerOK, DomainPc
<1>2. CASE Goto("refused")
  BY <1>1, <1>2, JobGoesOn DEF BusyPc, DomainPc, Telling
<1>3. ASSUME NEW pc \in {"external", "drop_record"}, Goto(pc), pc = "external" <=> row[w.d].managed
      PROVE  WorkInv'
  <2>1. QueueOK' /\ WorkerOK' /\ w'.pc = pc /\ w'.d = w.d
    BY <1>1, <1>3, GotoKeeps DEF WorkInv, BusyPc, DomainPc
  <2>2. Carried' /\ Removed' /\ Managed'
    BY <1>1, <1>3, <2>1 DEF WorkInv, Known, Carried, Removed, Managed
  <2> QED  BY <1>1, <2>1, <2>2 DEF WorkInv, Known
<1>4. row[w.d].managed => row[w.d].id # 0
  BY <1>1 DEF WorkInv, Known, Managed
<1> QED  BY <1>2, <1>3, <1>4 DEF RemoveStart

LEMMA RemoveExternalKeeps == ASSUME WorkInv, RemoveExternal PROVE WorkInv'
<1>1. /\ w.pc = "external" /\ w.d \in Domain /\ UNCHANGED <<dom, row, cert, op>>
      /\ row[w.d].managed /\ row[w.d].id # 0
  BY DEF RemoveExternal, tables, WorkInv, WorkerOK, DomainPc, Known, Removed, Managed
<1>2. CASE (RemoveError \/ Goto("refused")) /\ UNCHANGED ext
  <2>1. TablesOK'
    BY <1>1, <1>2 DEF WorkInv, TablesOK
  <2>2. CASE RemoveError
    <3>1. QueueOK' /\ WorkerOK' /\ w'.pc \notin Telling
      BY <1>1, <2>2, ErrorKeeps DEF WorkInv, Telling
    <3>2. Known'
      BY <1>1, <1>2, <3>1, WorkKnows DEF WorkInv
    <3> QED  BY <2>1, <3>1, <3>2 DEF WorkInv
  <2>3. CASE Goto("refused")
    BY <1>1, <1>2, <2>1, <2>3, JobGoesOn DEF BusyPc, DomainPc, Telling
  <2> QED  BY <1>2, <2>2, <2>3
<1>3. CASE ext' = [ext EXCEPT ![w.d] = NoRecord] /\ (RemoveError \/ Goto("drop_record"))
  <2>1. NoRecord \in Record /\ NoRecord.id = 0
    BY DEF NoRecord, Record, Id
  <2>2. /\ ext' \in [Domain -> Record] /\ ext'[w.d].id = 0
        /\ \A d \in Domain : d # w.d => ext'[d] = ext[d]
    BY <1>1, <1>3, <2>1 DEF WorkInv, TablesOK
  <2>3. TablesOK'
    BY <1>1, <2>2 DEF WorkInv, TablesOK
  <2>4. /\ QueueOK' /\ WorkerOK' /\ w'.pc \in {"idle", "present", "drop_record"}
        /\ w'.pc = "drop_record" => w'.d = w.d
    BY <1>1, <1>3, ErrorKeeps, GotoKeeps DEF WorkInv, BusyPc, DomainPc
  <2>5. Carried' /\ Removed' /\ Managed'
    BY <1>1, <2>2, <2>4 DEF WorkInv, Known, Carried, Removed, Managed
  <2> QED  BY <2>3, <2>4, <2>5 DEF WorkInv, Known
<1> QED  BY <1>2, <1>3 DEF RemoveExternal

LEMMA RemoveRefusedKeeps == ASSUME WorkInv, RemoveRefused PROVE WorkInv'
<1>1. w.pc = "refused" /\ w.d \in Domain /\ UNCHANGED <<dom, row, ext>>
  BY DEF RemoveRefused, WorkInv, WorkerOK, DomainPc
<1>2. TablesOK'
  BY OperationsWritten DEF RemoveRefused, WorkInv, OpStatus
<1>3. Goto("present") \/ Complete
  BY DEF RemoveRefused
<1> QED  BY <1>1, <1>2, <1>3, JobGoesOn, JobEnds DEF BusyPc, DomainPc, Telling

LEMMA FinalizeKeeps ==
    ASSUME WorkInv,
           FinalizeRecord \/ FinalizeCertificate \/ FinalizeDomain \/ FinalizeOperations
    PROVE  WorkInv'
<1>1. w.d \in Domain /\ w.pc # "idle"
  BY DEF FinalizeRecord, FinalizeCertificate, FinalizeDomain, FinalizeOperations, WorkInv, WorkerOK,
         DomainPc
<1>2. CASE FinalizeRecord
  <2>1. row' = [row EXCEPT ![w.d] = NoRow] /\ UNCHANGED <<dom, cert, op, ext>>
    BY <1>2 DEF FinalizeRecord
  <2>2. /\ row' \in [Domain -> Row] /\ row'[w.d] = NoRow
        /\ \A d \in Domain : d # w.d => row'[d] = row[d]
    BY <1>1, <2>1, NoRowType DEF WorkInv, TablesOK
  <2>3. QueueOK' /\ WorkerOK' /\ w'.pc = "drop_certificate" /\ w'.d = w.d
    BY <1>1, <1>2, GotoKeeps DEF FinalizeRecord, WorkInv, BusyPc, DomainPc
  <2>4. TablesOK'
    BY <2>1, <2>2 DEF WorkInv, TablesOK
  <2>5. Carried' /\ Removed' /\ Managed'
    BY <1>1, <2>1, <2>2, <2>3, NoRowType DEF WorkInv, Known, Carried, Removed, Managed
  <2> QED  BY <2>3, <2>4, <2>5 DEF WorkInv, Known
<1>3. CASE FinalizeCertificate
  <2>1. TablesOK' /\ UNCHANGED <<dom, row, ext>> /\ row[w.d] = NoRow
    BY <1>3 DEF FinalizeCertificate, WorkInv, TablesOK, Known, Removed
  <2>2. QueueOK' /\ WorkerOK' /\ w'.pc = "drop_domain" /\ w'.d = w.d
    BY <1>1, <1>3, GotoKeeps DEF FinalizeCertificate, WorkInv, BusyPc, DomainPc
  <2>3. Carried' /\ Removed' /\ Managed'
    BY <1>1, <2>1, <2>2 DEF WorkInv, Known, Carried, Removed, Managed
  <2> QED  BY <2>1, <2>2, <2>3 DEF WorkInv, Known
<1>4. CASE FinalizeDomain
  <2>1. /\ UNCHANGED <<row, cert, op, ext>> /\ row[w.d] = NoRow
        /\ dom' = [dom EXCEPT ![w.d] = IF @ = "deleting" THEN "none" ELSE @]
    BY <1>4 DEF FinalizeDomain, WorkInv, Known, Removed
  <2>2. dom' \in [Domain -> Status] /\ \A d \in Domain : d # w.d => dom'[d] = dom[d]
    BY <1>1, <2>1 DEF WorkInv, TablesOK, Status
  <2>3. TablesOK'
    BY <2>1, <2>2 DEF WorkInv, TablesOK
  <2>4. QueueOK' /\ WorkerOK' /\ w'.pc = "drop_operation"
    BY <1>1, <1>4, GotoKeeps DEF FinalizeDomain, WorkInv, BusyPc, DomainPc
  <2>5. Carried' /\ Removed' /\ Managed'
    BY <1>1, <2>1, <2>2, <2>4 DEF WorkInv, Known, Carried, Removed, Managed
  <2> QED  BY <2>3, <2>4, <2>5 DEF WorkInv, Known
<1>5. CASE FinalizeOperations
  <2>1. TablesOK' /\ UNCHANGED <<dom, row, ext>>
    BY <1>5, OperationsWritten DEF FinalizeOperations, WorkInv, OpStatus
  <2>2. Complete \/ Goto("present") \/ Goto("next")
    BY <1>5 DEF FinalizeOperations
  <2> QED  BY <1>1, <2>1, <2>2, JobGoesOn, JobEnds DEF BusyPc, DomainPc, Telling
<1> QED  BY <1>2, <1>3, <1>4, <1>5

-----------------------------------------------------------------------------
(* issueCertificate and BuildRouterSnapshot.                               *)

LEMMA CertifyKeeps ==
    ASSUME WorkInv, CertifyStart \/ CertifyIssue \/ CertifyStatus \/ CertifyOperations
    PROVE  WorkInv'
<1>1. w.d \in Domain /\ w.pc # "idle"
  BY DEF CertifyStart, CertifyIssue, CertifyStatus, CertifyOperations, WorkInv, WorkerOK, DomainPc
<1>2. CASE CertifyStart
  <2>1. TablesOK' /\ UNCHANGED <<dom, row, ext>>
    BY <1>2, TablesKept DEF CertifyStart, WorkInv
  <2>2. Complete \/ Again \/ Goto("issue")
    BY <1>2 DEF CertifyStart
  <2> QED  BY <1>1, <2>1, <2>2, JobGoesOn, JobEnds DEF BusyPc, DomainPc, Telling
<1>3. CASE CertifyIssue
  <2>1. TablesOK' /\ UNCHANGED <<dom, row, ext>>
    BY <1>3 DEF CertifyIssue, WorkInv, TablesOK
  <2>2. Again \/ Goto("issued")
    BY <1>3 DEF CertifyIssue
  <2> QED  BY <1>1, <2>1, <2>2, JobGoesOn, JobEnds DEF BusyPc, DomainPc, Telling
<1>4. CASE CertifyStatus
  <2>1. TablesOK' /\ (\A e \in Domain : dom'[e] = "none" <=> dom[e] = "none") /\ UNCHANGED <<row, ext>>
    BY <1>4, StatusWritten DEF CertifyStatus, WorkInv, Status
  <2> QED  BY <1>1, <1>4, <2>1, JobGoesOn DEF CertifyStatus, BusyPc, DomainPc, Telling
<1>5. CASE CertifyOperations
  <2>1. TablesOK' /\ UNCHANGED <<dom, row, ext>>
    BY <1>5, OperationsWritten DEF CertifyOperations, WorkInv, OpStatus
  <2>2. \E k \in Key : End(Put(q, k, "check"))
    BY <1>5, KeyParts DEF CertifyOperations
  <2> QED  BY <1>1, <2>1, <2>2, JobEnds
<1> QED  BY <1>2, <1>3, <1>4, <1>5

\* The worker goes on with other things in mind.
LEMMA WorkerGoesOn ==
    ASSUME WorkInv, w.pc # "idle", TablesOK', w' \in Worker, w'.key = w.key,
           w'.pc \notin Telling \cup {"idle"}, w'.pc \in DomainPc => w'.d \in Domain, q' = q,
           UNCHANGED <<row, ext>>, \A d \in Domain : dom'[d] = "none" => dom[d] = "none"
    PROVE  WorkInv'
<1>1. QueueOK' /\ WorkerOK'
  BY WorkingKeeps DEF WorkInv
<1>2. Known'
  BY WorkKnows DEF WorkInv
<1> QED  BY <1>1, <1>2 DEF WorkInv

LEMMA BuildKeeps ==
    ASSUME WorkInv, BuildRead \/ (\E d \in Domain : BuildDomain(d)) \/ BuildOperations \/ BuildDone
    PROVE  WorkInv'
<1>1. w.pc # "idle" /\ w \in Worker /\ w.src \in [Domain -> Status]
  BY DEF BuildRead, BuildDomain, BuildOperations, BuildDone, WorkInv, WorkerOK, Worker
<1>2. CASE BuildRead
  <2>1. TablesOK' /\ UNCHANGED <<dom, row, ext>>
    BY <1>2, TablesKept DEF BuildRead, WorkInv
  <2> DEFINE src == [d \in Domain |->
                IF dom[d] \in {"deleting", "dns_error", "pending_dns"} THEN "none" ELSE dom[d]]
  <2>2. CASE w' = [w EXCEPT !.pc = "finalize", !.src = src] /\ q' = q
    <3>1. src \in [Domain -> Status]
      BY DEF WorkInv, TablesOK, Status
    <3> HIDE DEF src
    <3>2. w' \in Worker /\ w'.key = w.key /\ w'.pc = "finalize"
      BY <1>1, <2>2, <3>1 DEF Worker, BusyPc
    <3> QED  BY <1>1, <2>1, <2>2, <3>2, WorkerGoesOn DEF Telling, DomainPc
  <2>3. CASE Again
    BY <1>1, <2>1, <2>3, JobEnds
  <2> QED  BY <1>2, <2>2, <2>3 DEF BuildRead
<1>3. ASSUME NEW d \in Domain, BuildDomain(d) PROVE WorkInv'
  <2>1. PICK st \in Status \ {"none"}, s \in Status :
             /\ SetStatus(d, st)
             /\ w' = [w EXCEPT !.pc = "finalize_operations", !.d = d, !.src[d] = s]
    <3>1. \A b \in BOOLEAN : RoutedStatus(d, b) \in Status \ {"none"}
      BY DEF RoutedStatus, Status
    <3>2. "active" \in Status /\ "none" \in Status
      BY DEF Status
    <3> QED  BY <1>3, <3>1, <3>2 DEF BuildDomain
  <2>2. UNCHANGED <<row, cert, op, ext, q>>
    BY <1>3 DEF BuildDomain
  <2>3. TablesOK' /\ \A e \in Domain : dom'[e] = "none" <=> dom[e] = "none"
    BY <2>1, <2>2, StatusWritten DEF WorkInv
  <2>4. [w.src EXCEPT ![d] = s] \in [Domain -> Status]
    BY <1>1, <2>1
  <2>5. w' \in Worker /\ w'.key = w.key /\ w'.pc = "finalize_operations" /\ w'.d = d
    BY <1>1, <1>3, <2>1, <2>4 DEF Worker, BusyPc, DomainPc
  <2> QED  BY <1>1, <1>3, <2>2, <2>3, <2>5, WorkerGoesOn DEF Telling
<1>4. CASE BuildOperations
  <2>1. /\ UNCHANGED <<dom, row, cert, ext, q>>
        /\ w' = [w EXCEPT !.pc = "finalize", !.src[w.d] = "none"]
    BY <1>4 DEF BuildOperations
  <2>2. TablesOK'
    BY <1>4, OperationsWritten DEF BuildOperations, WorkInv, OpStatus
  <2>3. [w.src EXCEPT ![w.d] = "none"] \in [Domain -> Status]
    BY <1>1 DEF Status
  <2>4. w' \in Worker /\ w'.key = w.key /\ w'.pc = "finalize"
    BY <1>1, <2>1, <2>3 DEF Worker, BusyPc
  <2> QED  BY <1>1, <2>1, <2>2, <2>4, WorkerGoesOn DEF Telling, DomainPc
<1>5. CASE BuildDone
  <2>1. TablesOK' /\ UNCHANGED <<dom, row, ext>>
    BY <1>5, TablesKept DEF BuildDone, WorkInv
  <2> QED  BY <1>1, <1>5, <2>1, JobEnds DEF BuildDone
<1> QED  BY <1>2, <1>3, <1>4, <1>5

-----------------------------------------------------------------------------
(* deleteUserExternal.                                                     *)

LEMMA UserStartKeeps ==
    ASSUME WorkInv, AccountOK, UserStart \/ UserNext \/ UserCount
    PROVE  WorkInv'
<1>1. w.pc # "idle" /\ w \in Worker /\ TablesOK' /\ UNCHANGED <<dom, row, ext>>
  BY TablesKept DEF UserStart, UserNext, UserCount, WorkInv, WorkerOK
<1>2. CASE UserStart
  <2> DEFINE todo == {d \in Domain : dom[d] = "deleting"}
  <2>1. CASE w' = [w EXCEPT !.pc = "next", !.err = FALSE, !.todo = todo] /\ q' = q
    <3>1. todo \in SUBSET Domain
      OBVIOUS
    <3> HIDE DEF todo
    <3>2. w' \in Worker /\ w'.key = w.key /\ w'.pc = "next"
      BY <1>1, <2>1, <3>1 DEF Worker, BusyPc
    <3> QED  BY <1>1, <2>1, <3>2, WorkerGoesOn DEF Telling, DomainPc
  <2>2. CASE Complete \/ Again
    BY <1>1, <2>2, JobEnds
  <2>3. Complete \/ Again \/ (w' = [w EXCEPT !.pc = "next", !.err = FALSE, !.todo = todo] /\ q' = q)
    BY <1>2 DEF UserStart, AccountOK
  <2> QED  BY <2>1, <2>2, <2>3
<1>3. CASE UserNext
  <2>1. CASE Goto("count")
    BY <1>1, <2>1, JobGoesOn DEF BusyPc, DomainPc, Telling
  <2>2. ASSUME NEW d \in w.todo, w' = [w EXCEPT !.pc = "remove", !.d = d, !.err = FALSE], q' = q
        PROVE  WorkInv'
    <3>1. d \in Domain
      BY <1>1, <2>2 DEF Worker
    <3>2. w' \in Worker /\ w'.key = w.key /\ w'.pc = "remove" /\ w'.d = d
      BY <1>1, <2>2, <3>1 DEF Worker, BusyPc, DomainPc
    <3> QED  BY <1>1, <2>2, <3>1, <3>2, WorkerGoesOn DEF Telling
  <2> QED  BY <1>3, <2>1, <2>2 DEF UserNext
<1>4. CASE UserCount
  <2>1. CASE Again
    BY <1>1, <2>1, JobEnds
  <2>2. CASE (\A d \in Domain : dom[d] = "none") /\ Goto("commit")
    <3>1. QueueOK' /\ WorkerOK' /\ w'.pc = "commit"
      BY <1>1, <2>2, GotoKeeps DEF WorkInv, BusyPc, DomainPc
    <3>2. Carried' /\ Removed' /\ Managed'
      BY <1>1, <2>2, <3>1 DEF WorkInv, Known, Carried, Removed, Managed
    <3> QED  BY <1>1, <3>1, <3>2 DEF WorkInv, Known
  <2> QED  BY <1>4, <2>1, <2>2 DEF UserCount
<1> QED  BY <1>2, <1>3, <1>4

LEMMA UserPresentKeeps ==
    ASSUME WorkInv, AccountOK, UserPresent
    PROVE  WorkInv' /\ AccountOK'
<1>1. /\ w.pc = "present" /\ w.d \in Domain /\ w \in Worker /\ TablesOK'
      /\ UNCHANGED <<dom, row, ext, user>>
  BY TablesKept DEF UserPresent, WorkInv, WorkerOK, DomainPc
<1>2. w.todo \ {w.d} \in SUBSET Domain
  BY <1>1 DEF Worker
<1>3. CASE w' = [w EXCEPT !.pc = "next", !.todo = @ \ {w.d}] /\ UNCHANGED <<q, residue, userOp>>
  <2>1. w' \in Worker /\ w'.key = w.key /\ w'.pc = "next"
    BY <1>1, <1>2, <1>3 DEF Worker, BusyPc
  <2>2. WorkInv'
    BY <1>1, <1>3, <2>1, WorkerGoesOn DEF Telling, DomainPc
  <2> QED  BY <1>1, <1>3, <2>2 DEF AccountOK
<1>4. CASE /\ residue' = residue \cup {w.d}
           /\ w' = [w EXCEPT !.pc = "drop_record", !.todo = @ \ {w.d}] /\ UNCHANGED <<q, userOp>>
  <2>1. w' \in Worker /\ w'.key = w.key /\ w'.pc = "drop_record" /\ w'.d = w.d
    BY <1>1, <1>2, <1>4 DEF Worker, BusyPc, DomainPc
  <2>2. QueueOK' /\ WorkerOK'
    BY <1>1, <1>4, <2>1, WorkingKeeps DEF WorkInv
  <2>3. Carried' /\ Removed' /\ Managed'
    BY <1>1, <1>4, <2>1 DEF WorkInv, Known, Carried, Removed, Managed
  <2>4. AccountOK'
    BY <1>1, <1>4 DEF AccountOK
  <2> QED  BY <1>1, <2>2, <2>3, <2>4 DEF WorkInv, Known
<1>5. CASE /\ userOp' = [userOp EXCEPT !.status = IF @ \in Open THEN "failed" ELSE @]
           /\ Again /\ UNCHANGED residue
  <2>1. userOp' \in [status : OpStatus, force : BOOLEAN]
    BY <1>5 DEF AccountOK, OpStatus
  <2>2. WorkInv'
    BY <1>1, <1>5, JobEnds
  <2> QED  BY <1>1, <1>5, <2>1, <2>2 DEF AccountOK
<1> QED  BY <1>3, <1>4, <1>5 DEF UserPresent

LEMMA UserCommitKeeps ==
    ASSUME WorkInv, AccountOK, UserCommit
    PROVE  WorkInv' /\ AccountOK'
<1>1. AccountOK'
  BY DEF UserCommit, AccountOK, OpStatus
<1>2. w.pc = "commit" /\ UNCHANGED <<op, ext>> /\ \A d \in Domain : row[d] = NoRow
  BY DEF UserCommit, WorkInv, Known, Removed
<1>3. \/ UNCHANGED <<dom, row, cert>>
      \/ /\ dom' = [d \in Domain |-> "none"] /\ row' = [d \in Domain |-> NoRow]
         /\ cert' = [d \in Domain |-> "none"]
  BY DEF UserCommit
<1>4. TablesOK' /\ \A d \in Domain : row'[d] = NoRow
  BY <1>2, <1>3, NoRowType DEF WorkInv, TablesOK, Status
<1>5. QueueOK' /\ WorkerOK' /\ w' = Idle
  <2>1. SameLocks(Put(q, Router, "check"))
    BY PutLocks, KeyParts, AskTypes DEF WorkInv, QueueOK
  <2> QED  BY <1>2, <2>1, EndKeeps DEF UserCommit, WorkInv
<1>6. Carried' /\ Removed' /\ Managed'
  BY <1>4, <1>5, IdleOK, NoRowType DEF Carried, Removed, Managed
<1> QED  BY <1>1, <1>4, <1>5, <1>6 DEF WorkInv, Known

LEMMA DomainStepKeeps == ASSUME WorkInv, DomainStep PROVE WorkInv'
BY SyncStartKeeps, SyncListKeeps, SyncUpsertKeeps, SyncSaveKeeps, SyncRestKeeps, RemoveStartKeeps,
   RemoveExternalKeeps, RemoveRefusedKeeps, FinalizeKeeps, CertifyKeeps, BuildKeeps DEF DomainStep

LEMMA WorkKeeps ==
    ASSUME DomainsInv, Work
    PROVE  DomainsInv'
<1>1. WorkInv /\ AccountOK /\ UNCHANGED <<ask, retry>>
  BY DEF DomainsInv, Typed, WorkInv, Known, Work
<1>2. WorkInv' /\ AccountOK'
  <2>1. CASE DomainStep
    <3>1. AccountOK'
      BY <1>1, <2>1 DEF DomainStep, account, AccountOK
    <3> QED  BY <1>1, <2>1, <3>1, DomainStepKeeps
  <2>2. CASE UserStart \/ UserNext \/ UserCount
    <3>1. AccountOK'
      BY <1>1, <2>2 DEF UserStart, UserNext, UserCount, account, AccountOK
    <3> QED  BY <1>1, <2>2, <3>1, UserStartKeeps
  <2>3. CASE UserPresent \/ UserCommit
    BY <1>1, <2>3, UserPresentKeeps, UserCommitKeeps
  <2> QED  BY <2>1, <2>2, <2>3 DEF Work, UserStep
<1> QED  BY <1>1, <1>2, Statement

-----------------------------------------------------------------------------
(* The theorems.                                                           *)

LEMMA DomainsInit == Init => DomainsInv
<1> SUFFICES ASSUME Init PROVE DomainsInv
  OBVIOUS
<1>1. AccountOK
  BY DEF Init, AccountOK, OpStatus
<1>2. TablesOK
  <2>1. NoRecord \in Record /\ 1 \in Id
    BY DEF NoRecord, Record, Id
  <2>2. \A r \in [id : {1}, by : {"user"}, same : BOOLEAN] : r \in Record
    BY <2>1 DEF Record
  <2> QED  BY <2>1, <2>2, NoRowType DEF Init, TablesOK, Status, OpStatus
<1>3. RequestsOK
  BY DEF Init, RequestsOK, NoRetry, Retry, OpType
<1>4. w = Idle /\ w.pc = "idle"
  BY IdleOK DEF Init
<1>5. QueueOK /\ WorkerOK
  BY <1>4, IdleOK, NoJobType DEF Init, QueueOK, WorkerOK, DomainPc
<1>6. Carried /\ Removed /\ Managed
  BY <1>4, NoRowType DEF Init, Carried, Removed, Managed
<1> QED  BY <1>1, <1>2, <1>3, <1>5, <1>6 DEF DomainsInv, Typed

LEMMA DomainsNext == ASSUME DomainsInv, Next PROVE DomainsInv'
<1>1. CASE Request
  BY <1>1, DomainRequest, UserRequest, RetryRequest DEF Request
<1>2. CASE Disturbance
  BY <1>2, OwnerKeeps, EndingKeeps, QueueRequest DEF Disturbance
<1>3. CASE Progress
  BY <1>3, DomainRequest, RetryRequest, QueueRequest, ClaimKeeps, WorkKeeps DEF Progress
<1> QED  BY <1>1, <1>2, <1>3 DEF Next

LEMMA DomainsStutter == ASSUME DomainsInv, UNCHANGED vars PROVE DomainsInv'
<1>1. UNCHANGED <<user, userOp, residue, dom, row, cert, op, ext, q, ask, retry, w>>
  BY DEF vars, account, tables, queue
<1>2. AccountOK' /\ TablesOK' /\ RequestsOK' /\ QueueOK' /\ WorkerOK'
  BY <1>1 DEF DomainsInv, Typed, AccountOK, TablesOK, RequestsOK, QueueOK, WorkerOK
<1>3. Carried' /\ Removed' /\ Managed'
  BY <1>1 DEF DomainsInv, Carried, Removed, Managed
<1> QED  BY <1>2, <1>3 DEF DomainsInv, Typed

LEMMA DomainsInvariant == Spec => []DomainsInv
<1>1. DomainsInv /\ [Next]_vars => DomainsInv'
  BY DomainsNext, DomainsStutter
<1> QED  BY <1>1, DomainsInit, PTL DEF Spec

\* Every variable of Domains keeps its type, and exactly the job that the worker carries out
\* is locked by it (jobs.go, Claim): for any domains, requests, crashes and edits of the zone.
THEOREM DomainsTyped == Spec => []DomainsTypeOK
<1>1. DomainsInv => DomainsTypeOK
  BY DEF DomainsInv, Typed, AccountOK, TablesOK, QueueOK, DomainsTypeOK, Row, Record, Job
<1> QED  BY <1>1, DomainsInvariant, PTL

\* The steps that write the zone: those of the worker, and the owner's own.
LEMMA ZoneWriters ==
    ASSUME Next
    PROVE  UNCHANGED ext \/ UNCHANGED w \/ SyncUpsert \/ SyncInsert \/ RemoveExternal
<1>1. CASE Request
  BY <1>1 DEF Request, CreateDomain, DeleteDomain, ResolveDomainDNS, RetryRead, RetryUser, DeleteUser,
              ReviveUser
<1>2. CASE Disturbance
  BY <1>2 DEF Disturbance, OwnerEdits, Seed, GiveUp, Crash
<1>3. CASE Work
  <2>1. CASE DomainStep
    BY <2>1 DEF DomainStep, SyncStart, SyncList, SyncDrop, SyncCertificate, SyncStatus, SyncOperations,
                MarkDomain, MarkOperations, RemoveStart, RemoveRefused, FinalizeRecord,
                FinalizeCertificate, FinalizeDomain, FinalizeOperations, CertifyStart, CertifyIssue,
                CertifyStatus, CertifyOperations, BuildRead, BuildDomain, BuildOperations, BuildDone
  <2>2. CASE UserStep
    BY <2>2 DEF UserStep, UserStart, UserNext, UserPresent, UserCount, UserCommit
  <2> QED  BY <1>3, <2>1, <2>2 DEF Work
<1>4. CASE Progress /\ ~Work
  BY <1>4 DEF Progress, ClientApplied, RetryOperation, RetryDomain, Enqueue, Claim
<1> QED  BY <1>1, <1>2, <1>3, <1>4 DEF Next

\* deleteDomainExternal: whatever is retried, forced, interrupted or edited in between, the panel
\* removes no record of the owner's that it has adopted and never overwritten or synchronised.
THEOREM AdoptedNeverRemoved == Spec => AdoptedKept
<1>1. ASSUME DomainsInv, Next, NEW d \in Domain, w' # w, ext[d].id # 0, ext'[d].id = 0
      PROVE  ext[d].by = "panel"
  <2>1. ext \in [Domain -> Record] /\ TablesOK /\ WorkerOK
    BY <1>1 DEF DomainsInv, Typed, TablesOK
  <2>2. ext' # ext /\ (SyncUpsert \/ SyncInsert \/ RemoveExternal)
    BY <1>1, ZoneWriters
  <2>3. w.d \in Domain
    BY <2>1, <2>2 DEF WorkerOK, DomainPc, SyncUpsert, SyncInsert, RemoveExternal
  <2>4. CASE SyncUpsert
    <3>1. PICK i \in Id \ {0} : ext' = [ext EXCEPT ![w.d] = [id |-> i, by |-> "panel", same |-> TRUE]]
      <4>1. (IF ext[w.d].id = 0 THEN Fresh(w.d) ELSE ext[w.d].id) \in Id \ {0}
        BY <2>1, <2>3, FreshId DEF Record
      <4> QED  BY <2>2, <2>4, <4>1 DEF SyncUpsert
    <3>2. ext'[d].id # 0
      BY <1>1, <2>1, <2>3, <3>1
    <3> QED  BY <1>1, <3>2
  <2>5. CASE SyncInsert
    <3>1. ext'[d].id = ext[d].id
      BY <2>1, <2>3, <2>5 DEF SyncInsert, Record
    <3> QED  BY <1>1, <3>1
  <2>6. CASE RemoveExternal
    <3>1. w.pc = "external" /\ ext[w.d].id = row[w.d].id /\ ext' = [ext EXCEPT ![w.d] = NoRecord]
      BY <2>2, <2>6 DEF RemoveExternal
    <3>2. d = w.d
      BY <1>1, <2>1, <2>3, <3>1
    <3>3. row[w.d].managed
      BY <1>1, <3>1 DEF DomainsInv, Removed
    <3> QED  BY <1>1, <3>1, <3>2, <3>3 DEF DomainsInv, Managed
  <2> QED  BY <2>2, <2>4, <2>5, <2>6
<1>2. DomainsInv /\ [Next]_vars =>
         [\A d \in Domain : w' # w /\ ext[d].id # 0 /\ ext'[d].id = 0 => ext[d].by = "panel"]_vars
  BY <1>1
<1> QED  BY <1>2, DomainsInvariant, PTL DEF Spec, AdoptedKept

\* The steps that write dns_records.
LEMMA RowWriters ==
    ASSUME Next
    PROVE  UNCHANGED row \/ SyncDrop \/ SyncInsert \/ FinalizeRecord \/ UserCommit
<1>1. CASE Request
  BY <1>1 DEF Request, CreateDomain, DeleteDomain, ResolveDomainDNS, RetryRead, RetryUser, DeleteUser,
              ReviveUser, tables
<1>2. CASE Disturbance
  BY <1>2 DEF Disturbance, OwnerEdits, Seed, GiveUp, Crash, tables
<1>3. CASE Work
  <2>1. CASE DomainStep
    BY <2>1 DEF DomainStep, SyncStart, SyncList, SyncUpsert, SyncCertificate, SyncStatus,
                SyncOperations, MarkDomain, MarkOperations, RemoveStart, RemoveExternal, RemoveRefused,
                FinalizeCertificate, FinalizeDomain, FinalizeOperations, CertifyStart, CertifyIssue,
                CertifyStatus, CertifyOperations, BuildRead, BuildDomain, BuildOperations, BuildDone,
                tables
  <2>2. CASE UserStep
    BY <2>2 DEF UserStep, UserStart, UserNext, UserPresent, UserCount, tables
  <2> QED  BY <1>3, <2>1, <2>2 DEF Work
<1>4. CASE Progress /\ ~Work
  BY <1>4 DEF Progress, ClientApplied, RetryOperation, RetryDomain, Enqueue, Claim, tables
<1> QED  BY <1>1, <1>2, <1>3, <1>4 DEF Next

\* finalizeDeletedDomain and deleteUserExternal: the panel forgets a record that it manages only
\* when the record is not in the zone any more, or is listed as residue for the administrator.
THEOREM ResidueListed == Spec => NoSilentResidue
<1>1. ASSUME DomainsInv, Next, NEW d \in Domain, w.pc # "drop", row[d].managed, row'[d] = NoRow
      PROVE  ext[d].id # row[d].id \/ d \in residue
  <2>1. row \in [Domain -> Row] /\ row[d] # NoRow
    BY <1>1, NoRowType DEF DomainsInv, Typed, TablesOK
  <2>2. SyncInsert \/ FinalizeRecord \/ UserCommit
    BY <1>1, <2>1, RowWriters DEF SyncDrop
  <2>3. CASE SyncInsert
    <3>1. w.pc = "insert" /\ w.d \in Domain /\ row[w.d] = NoRow /\ row' = [row EXCEPT ![w.d] = w.rec]
      BY <1>1, <2>3 DEF SyncInsert, DomainsInv, Typed, WorkerOK, DomainPc, Removed
    <3> QED  BY <1>1, <2>1, <3>1
  <2>4. CASE FinalizeRecord
    <3>1. /\ w.pc = "drop_record" /\ w.d \in Domain /\ row' = [row EXCEPT ![w.d] = NoRow]
      BY <1>1, <2>4 DEF FinalizeRecord, DomainsInv, Typed, WorkerOK, DomainPc
    <3>2. d = w.d
      BY <1>1, <2>1, <3>1
    <3> QED  BY <1>1, <3>1, <3>2 DEF DomainsInv, Removed
  <2>5. CASE UserCommit
    BY <1>1, <2>1, <2>5 DEF UserCommit, DomainsInv, Removed
  <2> QED  BY <2>2, <2>3, <2>4, <2>5
<1>2. DomainsInv /\ [Next]_vars =>
         [\A d \in Domain : w.pc # "drop" /\ row[d].managed /\ row'[d] = NoRow =>
             ext[d].id # row[d].id \/ d \in residue]_vars
  BY <1>1
<1> QED  BY <1>2, DomainsInvariant, PTL DEF Spec, NoSilentResidue

\* A row that says managed_by_panel is about a record the panel has written or was told to keep
\* in sync, as long as the zone has the record under that id.
ManagedIsPanels ==
    \A d \in Domain : row[d].managed /\ row[d].id = ext[d].id => ext[d].by = "panel"

\* syncDomainDNS: no lost answer, retry or edit of the zone makes the panel count a record of the
\* owner's as its own. (It may miss one of its own: PanelRecordManaged does not hold.)
THEOREM ManagedRecordsArePanels == Spec => []ManagedIsPanels
<1>1. DomainsInv => ManagedIsPanels
  BY DEF DomainsInv, Managed, ManagedIsPanels
<1> QED  BY <1>1, DomainsInvariant, PTL

\* dns_records has no row of a domain that is gone.
RowOfDomain == \A d \in Domain : dom[d] = "none" => row[d] = NoRow

\* saveDNSRecord and finalizeDeletedDomain: a DNS job that was started before a deletion does not
\* save a record after it, and neither deletion leaves a row behind, wherever it is cut off.
THEOREM NoOrphanedRow == Spec => []RowOfDomain
<1>1. DomainsInv => RowOfDomain
  BY DEF DomainsInv, Managed, RowOfDomain
<1> QED  BY <1>1, DomainsInvariant, PTL

=============================================================================
