-------------------------------- MODULE Jobs --------------------------------
(***************************************************************************)
(* The durable jobs of the Server and the worker that runs them            *)
(* (server/internal/jobs/worker.go, RunJobs in cloudflare_jobs.go).        *)
(*                                                                         *)
(* A key stands for a job type with a deduplication key.  The unique index *)
(* one_active_deduplicated_job allows one active row for a key, and rows   *)
(* that have ended are never read again, so the table is a function: the   *)
(* last row of every key.  One worker runs the jobs, one at a time; the    *)
(* lock of a row is what a restarted process waits for.  A goroutine       *)
(* renews it while a handler runs, and ignores errors.  Time is not        *)
(* counted: a run_after or a lock_expires_at may pass at any moment, also  *)
(* while the handler runs.  lock_owner is set and cleared together with    *)
(* the status 'running'.                                                   *)
(***************************************************************************)
EXTENDS Integers

CONSTANTS
    Key,           \* job types with their deduplication keys
    StartKey,      \* the keys that every start of the Server enqueues
    SeedKey,       \* the keys that seedPendingJobs may enqueue
    AcmeKey,       \* the keys that seedPendingJobs makes due at once
    WakeKey,       \* the keys whose rows a new request makes due at once
    BlockKey,      \* the keys whose handler may find a prerequisite missing
    MaxAttempts,   \* jobs.max_attempts
    DatabaseErrors,\* do the worker's own statements fail?
    MaxCrash,      \* bound: crashes of the Server
    MaxBlock       \* bound: times a handler finds its prerequisite missing

ASSUME KeyAssumption == /\ StartKey \subseteq Key /\ SeedKey \subseteq Key
                        /\ AcmeKey \subseteq SeedKey
                        /\ WakeKey \subseteq Key /\ BlockKey \subseteq Key
ASSUME AttemptsAssumption == MaxAttempts \in Nat \ {0}
ASSUME LimitAssumption == MaxCrash \in Nat /\ MaxBlock \in Nat /\ DatabaseErrors \in BOOLEAN

VARIABLES
    job,       \* job[k]: the last row of key k
    run,       \* the worker: its step and the key whose handler it runs
    asking,    \* the keys for which a request has committed a change and not yet called Enqueue
    failures,  \* history: how often the handler of the row of k returned an error
    crashes,   \* number of crashes so far
    blocks     \* number of blocked handlers so far

jobVars == <<job, run, asking, failures, crashes, blocks>>

Status == {"none", "pending", "running", "retry_wait", "succeeded", "failed"}
Row == [status : Status, attempts : Nat, locked : BOOLEAN, due : BOOLEAN]
NoRow == [status |-> "none", attempts |-> 0, locked |-> FALSE, due |-> FALSE]
NewRow == [status |-> "pending", attempts |-> 0, locked |-> FALSE, due |-> TRUE]

Active(row) == row.status \in {"pending", "running", "retry_wait"}

\* INSERT OR IGNORE against one_active_deduplicated_job.
Inserted(row) == IF Active(row) THEN row ELSE NewRow

\* Mutant: the CASE on retry_wait is dropped.
WokenAny(row) == [row EXCEPT !.due = TRUE, !.status = "pending"]

\* enqueueUserDeleteJob: the UPDATE that follows its Enqueue.
Woken(row) ==
    [row EXCEPT !.due = TRUE, !.status = IF @ = "retry_wait" THEN "pending" ELSE @]

Requested(k) == IF k \in WakeKey THEN Woken(Inserted(job[k])) ELSE Inserted(job[k])

JobsInit ==
    /\ job = [k \in Key |-> NoRow]
    /\ run \in [pc : {"down"}, key : Key]
    /\ asking = {}
    /\ failures = [k \in Key |-> 0]
    /\ crashes = 0 /\ blocks = 0

-----------------------------------------------------------------------------
(* Requests: the transaction commits first, Enqueue is a statement of its  *)
(* own after it.                                                           *)

Ask(k) ==
    /\ run.pc # "down"
    /\ asking' = asking \cup {k}
    /\ UNCHANGED <<job, run, failures, crashes, blocks>>

Enqueue(k) ==
    /\ run.pc # "down" /\ k \in asking
    /\ job' = [job EXCEPT ![k] = Requested(k)]
    /\ failures' = [failures EXCEPT ![k] = IF Active(job[k]) THEN @ ELSE 0]
    /\ asking' = asking \ {k}
    /\ UNCHANGED <<run, crashes, blocks>>

\* seedPendingJobs, which asks for the resources that wait for something.
Seeded(S) ==
    /\ job' = [k \in Key |->
          LET row == IF k \in S THEN Requested(k) ELSE job[k] IN
          IF k \in AcmeKey /\ row.status = "retry_wait" THEN [row EXCEPT !.due = TRUE]
          ELSE row]
    /\ failures' = [k \in Key |-> IF k \in S /\ ~Active(job[k]) THEN 0 ELSE failures[k]]

\* The start of the Server: main enqueues the router snapshot, RunJobs seeds.
Start ==
    /\ run.pc = "down"
    /\ \E S \in SUBSET SeedKey : Seeded(StartKey \cup S)
    /\ run' = [run EXCEPT !.pc = "idle"]
    /\ UNCHANGED <<asking, crashes, blocks>>

\* The daily pass of the seeding goroutine, which ends with the worker.
Reseed ==
    /\ run.pc \in {"idle", "busy"}
    /\ \E S \in SUBSET SeedKey : Seeded(S)
    /\ UNCHANGED <<run, asking, crashes, blocks>>

-----------------------------------------------------------------------------
(* The worker.                                                             *)

\* Mutant: a row another process left running is not claimed.
ClaimableWaiting(k) == job[k].status \in {"pending", "retry_wait"} /\ job[k].due /\ ~job[k].locked

Claimable(k) == Active(job[k]) /\ job[k].due /\ ~job[k].locked

Claim(k) ==
    /\ run.pc = "idle"
    /\ Claimable(k)
    /\ job' = [job EXCEPT ![k].status = "running", ![k].attempts = @ + 1, ![k].locked = TRUE]
    /\ run' = [pc |-> "busy", key |-> k]
    /\ UNCHANGED <<asking, failures, crashes, blocks>>

\* WHERE id=? AND status='running' AND lock_owner=?
Held == job[run.key].status = "running"

\* Heartbeat moves lock_expires_at on, also when it has passed. It may fail or come late.
Heartbeat ==
    /\ run.pc = "busy" /\ Held
    /\ job' = [job EXCEPT ![run.key].locked = TRUE]
    /\ UNCHANGED <<run, asking, failures, crashes, blocks>>

\* 'job lease lost' ends the worker.
Complete ==
    /\ run.pc = "busy"
    /\ job' = IF Held THEN [job EXCEPT ![run.key].status = "succeeded", ![run.key].locked = FALSE]
              ELSE job
    /\ run' = [run EXCEPT !.pc = IF Held THEN "idle" ELSE "stopped"]
    /\ UNCHANGED <<asking, failures, crashes, blocks>>

\* Mutant: a failed row is not given up.
FailedForever(row) == [row EXCEPT !.status = "retry_wait", !.locked = FALSE, !.due = FALSE]

\* Mutant: a status the table does not know.
FailedError(row) ==
    IF row.attempts >= MaxAttempts
    THEN [row EXCEPT !.status = "error", !.locked = FALSE]
    ELSE [row EXCEPT !.status = "retry_wait", !.locked = FALSE, !.due = FALSE]

\* Mutant: the lock is kept while the row waits for its retry.
FailedLocked(row) ==
    IF row.attempts >= MaxAttempts
    THEN [row EXCEPT !.status = "failed", !.locked = FALSE]
    ELSE [row EXCEPT !.status = "retry_wait", !.due = FALSE]

\* The row after its handler has failed: given up, or retried later.
Failed(row) ==
    IF row.attempts >= MaxAttempts
    THEN [row EXCEPT !.status = "failed", !.locked = FALSE]
    ELSE [row EXCEPT !.status = "retry_wait", !.locked = FALSE, !.due = FALSE]

\* Its SELECT finds no row when the lease is lost, which ends the worker too.
Fail ==
    /\ run.pc = "busy"
    /\ job' = IF Held THEN [job EXCEPT ![run.key] = Failed(@)] ELSE job
    /\ failures' = [failures EXCEPT ![run.key] = @ + 1]
    /\ run' = [run EXCEPT !.pc = IF Held THEN "idle" ELSE "stopped"]
    /\ UNCHANGED <<asking, crashes, blocks>>

Block ==
    /\ run.pc = "busy" /\ run.key \in BlockKey
    /\ blocks < MaxBlock /\ blocks' = blocks + 1
    /\ job' = IF Held THEN [job EXCEPT ![run.key].status = "retry_wait",
                                      ![run.key].locked = FALSE, ![run.key].due = FALSE]
              ELSE job
    /\ run' = [run EXCEPT !.pc = "idle"]
    /\ UNCHANGED <<asking, failures, crashes>>

-----------------------------------------------------------------------------
(* Time and crashes.                                                       *)

\* run_after passes.
ComeDue(k) ==
    /\ job[k].status = "retry_wait" /\ ~job[k].due
    /\ job' = [job EXCEPT ![k].due = TRUE]
    /\ UNCHANGED <<run, asking, failures, crashes, blocks>>

\* lock_expires_at passes, whether the handler has ended, hangs, or its heartbeat fails.
Expire(k) ==
    /\ job[k].locked
    /\ job' = [job EXCEPT ![k].locked = FALSE]
    /\ UNCHANGED <<run, asking, failures, crashes, blocks>>

\* The process ends.  Requests that have not called Enqueue never will.
Crash ==
    /\ run.pc # "down"
    /\ crashes < MaxCrash /\ crashes' = crashes + 1
    /\ run' = [run EXCEPT !.pc = "down"]
    /\ asking' = {}
    /\ UNCHANGED <<job, failures, blocks>>

\* The worker ends and the process goes on: Run returns the first error that Claim,
\* Complete, Fail or Block gets from the database, and RunJobs is not called again.
StopWorker ==
    /\ DatabaseErrors
    /\ run.pc \in {"idle", "busy"}
    /\ run' = [run EXCEPT !.pc = "stopped"]
    /\ UNCHANGED <<job, asking, failures, crashes, blocks>>

-----------------------------------------------------------------------------
JobsNext ==
    \/ \E k \in Key : Ask(k) \/ Enqueue(k) \/ Claim(k) \/ ComeDue(k) \/ Expire(k)
    \/ Heartbeat \/ Complete \/ Fail \/ Block
    \/ Start \/ Reseed \/ Crash \/ StopWorker

JobsSpec == JobsInit /\ [][JobsNext]_jobVars

\* The worker polls every 500 ms and claims by run_after, so a row that is due again and
\* again is claimed; a stopped Server is started again.  Nothing makes a handler end.
JobsFairness ==
    /\ WF_jobVars(Start)
    /\ \A k \in Key : /\ WF_jobVars(Enqueue(k)) /\ WF_jobVars(ComeDue(k))
                      /\ WF_jobVars(Expire(k)) /\ SF_jobVars(Claim(k))

FairJobs == JobsSpec /\ JobsFairness

-----------------------------------------------------------------------------
(* Properties.                                                             *)

JobsTypeOK ==
    /\ job \in [Key -> Row]
    /\ run \in [pc : {"down", "idle", "busy", "stopped"}, key : Key]
    /\ asking \subseteq Key
    /\ failures \in [Key -> Nat] /\ crashes \in Nat /\ blocks \in Nat

\* While a handler runs its row is running, whatever requests, seeding passes, crashes, late
\* or failing heartbeats and an expired lock do: Complete and Fail ("WHERE ... status='running'
\* AND lock_owner=?") never find that the lease was lost, which would end the only worker.
LeaseHeld == run.pc = "busy" => Held

\* A row is locked only while it runs: a crash is the only way to leave a row that
\* nobody works on locked, and a new or a waiting row is never behind an old lock.
LockedIsRunning == \A k \in Key : job[k].locked => job[k].status = "running"

\* A job whose handler keeps failing is given up after max_attempts failures at the
\* latest; crashes and blocked attempts never give it more.
BudgetKept ==
    \A k \in Key : /\ failures[k] <= MaxAttempts
                   /\ Active(job[k]) => failures[k] < MaxAttempts

\* Every active job ends, though the Server crashes while its handler runs, its lease has
\* to expire first, and it may be blocked for a while; only a worker that a database error
\* has stopped leaves it.  This takes that no handler keeps the worker for ever: runOnce gives
\* its handler no deadline.
JobsEnd ==
    []<>(run.pc # "busy") =>
        \A k \in Key : Active(job[k]) ~> (~Active(job[k]) \/ run.pc = "stopped")

=============================================================================
