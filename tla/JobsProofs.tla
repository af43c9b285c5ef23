----------------------------- MODULE JobsProofs -----------------------------
(***************************************************************************)
(* Proofs about Jobs, for any set of job keys, any retry budget and any    *)
(* number of crashes and blocked attempts.                                 *)
(***************************************************************************)
EXTENDS Jobs, TLAPS

\* The worker's counter bounds the failures: attempts counts every claim, and a claimed
\* row has one claim more than failures.
FailuresCounted ==
    \A k \in Key : /\ failures[k] <= job[k].attempts
                   /\ job[k].status = "running" => failures[k] < job[k].attempts

\* The inductive invariant.
JobsInv == JobsTypeOK /\ LeaseHeld /\ LockedIsRunning /\ BudgetKept /\ FailuresCounted

-----------------------------------------------------------------------------
(* The operators on rows.                                                  *)

\* A request leaves an active row its attempts and its lock, and otherwise makes a new row.
LEMMA RequestedRow ==
  ASSUME NEW k \in Key, job[k] \in Row
  PROVE  /\ Requested(k) \in Row
         /\ Active(Requested(k))
         /\ Active(job[k]) =>
               /\ Requested(k).attempts = job[k].attempts
               /\ Requested(k).locked = job[k].locked
               /\ Requested(k).status = "running" <=> job[k].status = "running"
         /\ ~Active(job[k]) => Requested(k) = NewRow
BY DEF Requested, Woken, Inserted, Active, NewRow, Row, Status

\* A failed row is unlocked and is retried only below the budget.
LEMMA FailedRow ==
  ASSUME NEW row \in Row
  PROVE  /\ Failed(row) \in Row
         /\ Failed(row).attempts = row.attempts
         /\ Failed(row).locked = FALSE
         /\ Failed(row).status # "running"
         /\ Active(Failed(row)) => row.attempts < MaxAttempts
<1>1. row.attempts \in Nat
  BY DEF Row
<1>2. CASE row.attempts >= MaxAttempts
  BY <1>2 DEF Failed, Active, Row, Status
<1>3. CASE ~(row.attempts >= MaxAttempts)
  <2>1. row.attempts < MaxAttempts
    BY <1>1, <1>3, AttemptsAssumption
  <2>2. Failed(row) = [row EXCEPT !.status = "retry_wait", !.locked = FALSE, !.due = FALSE]
    BY <1>3 DEF Failed
  <2> QED BY <2>1, <2>2 DEF Row, Status
<1> QED BY <1>2, <1>3

\* What a pass of seedPendingJobs does to the rows.
LEMMA SeededRows ==
  ASSUME JobsInv, NEW S \in SUBSET Key, Seeded(S)
  PROVE  /\ job' \in [Key -> Row] /\ failures' \in [Key -> Nat]
         /\ \A k \in Key :
               \/ /\ Active(job[k]) /\ Active(job'[k]) /\ failures'[k] = failures[k]
                  /\ job'[k].attempts = job[k].attempts /\ job'[k].locked = job[k].locked
                  /\ job'[k].status = "running" <=> job[k].status = "running"
               \/ /\ ~Active(job[k]) /\ job'[k] = NewRow /\ failures'[k] = 0
               \/ /\ ~Active(job[k]) /\ job'[k] = job[k] /\ failures'[k] = failures[k]
<1> DEFINE asked(k) == IF k \in S THEN Requested(k) ELSE job[k]
           woken(k) == IF k \in AcmeKey /\ asked(k).status = "retry_wait"
                       THEN [asked(k) EXCEPT !.due = TRUE] ELSE asked(k)
<1>1. /\ job' = [k \in Key |-> woken(k)]
      /\ failures' = [k \in Key |-> IF k \in S /\ ~Active(job[k]) THEN 0 ELSE failures[k]]
  BY DEF Seeded
<1>2. ASSUME NEW k \in Key
      PROVE  /\ asked(k) \in Row
             /\ woken(k) \in Row
             /\ woken(k).attempts = asked(k).attempts /\ woken(k).locked = asked(k).locked
             /\ woken(k).status = asked(k).status
             /\ asked(k).status # "retry_wait" => woken(k) = asked(k)
  <2>1. asked(k) \in Row
    BY <1>2, RequestedRow DEF JobsInv, JobsTypeOK
  <2> HIDE DEF asked
  <2> QED BY <2>1 DEF Row
<1>3. ASSUME NEW k \in Key
      PROVE  \/ /\ Active(job[k]) /\ Active(woken(k)) /\ failures'[k] = failures[k]
                /\ woken(k).attempts = job[k].attempts /\ woken(k).locked = job[k].locked
                /\ woken(k).status = "running" <=> job[k].status = "running"
             \/ /\ ~Active(job[k]) /\ woken(k) = NewRow /\ failures'[k] = 0
             \/ /\ ~Active(job[k]) /\ woken(k) = job[k] /\ failures'[k] = failures[k]
  <2>1. job[k] \in Row
    BY <1>3 DEF JobsInv, JobsTypeOK
  <2>2. NewRow.status # "retry_wait"
    BY DEF NewRow
  <2>3. CASE k \in S /\ Active(job[k])
    <3>1. failures'[k] = failures[k]
      BY <1>1, <2>3
    <3>2. asked(k) = Requested(k)
      BY <2>3
    <3> QED BY <3>1, <3>2, <1>2, <2>1, <2>3, RequestedRow DEF Active
  <2>4. CASE k \in S /\ ~Active(job[k])
    <3>1. failures'[k] = 0
      BY <1>1, <2>4
    <3>2. asked(k) = NewRow
      BY <2>4, <2>1, RequestedRow
    <3> QED BY <3>1, <3>2, <1>2, <2>2, <2>4
  <2>5. CASE k \notin S
    <3>1. failures'[k] = failures[k] /\ asked(k) = job[k]
      BY <1>1, <2>5
    <3> QED BY <3>1, <1>2, <2>5 DEF Active
  <2> QED BY <2>3, <2>4, <2>5
<1>4. job' \in [Key -> Row] /\ failures' \in [Key -> Nat]
  <2> HIDE DEF woken
  <2> QED BY <1>1, <1>2 DEF JobsInv, JobsTypeOK
<1>5. \A k \in Key : job'[k] = woken(k)
  BY <1>1
<1> HIDE DEF woken
<1> QED BY <1>3, <1>4, <1>5

-----------------------------------------------------------------------------
(* The inductive step.                                                     *)

\* Requests and seeding passes leave active rows their lock, attempts and failures.
LEMMA RowsRequested ==
  ASSUME JobsInv, run' = run \/ (run.pc = "down" /\ run' = [run EXCEPT !.pc = "idle"]),
         job' \in [Key -> Row], failures' \in [Key -> Nat],
         asking' \subseteq Key, crashes' = crashes, blocks' = blocks,
         \A k \in Key :
            \/ /\ Active(job[k]) /\ Active(job'[k]) /\ failures'[k] = failures[k]
               /\ job'[k].attempts = job[k].attempts /\ job'[k].locked = job[k].locked
               /\ job'[k].status = "running" <=> job[k].status = "running"
            \/ /\ ~Active(job[k]) /\ job'[k] = NewRow /\ failures'[k] = 0
            \/ /\ ~Active(job[k]) /\ job'[k] = job[k] /\ failures'[k] = failures[k]
  PROVE  JobsInv'
<1>1. JobsTypeOK'
  BY DEF JobsInv, JobsTypeOK
<1>2. LeaseHeld'
  <2> SUFFICES ASSUME run'.pc = "busy" PROVE job'[run'.key].status = "running"
    BY DEF LeaseHeld, Held
  <2>1. run' = run /\ run.key \in Key
    BY DEF JobsInv, JobsTypeOK
  <2>2. job[run.key].status = "running"
    BY <2>1 DEF JobsInv, LeaseHeld, Held
  <2> QED BY <2>1, <2>2 DEF Active
<1>3. LockedIsRunning'
  BY DEF JobsInv, LockedIsRunning, NewRow
<1>4. BudgetKept'
  BY AttemptsAssumption DEF JobsInv, BudgetKept
<1>5. FailuresCounted'
  BY DEF JobsInv, JobsTypeOK, FailuresCounted, NewRow, Row
<1> QED BY <1>1, <1>2, <1>3, <1>4, <1>5 DEF JobsInv

\* The steps of the worker change one row, the one it has claimed or claims.
LEMMA RowFinished ==
  ASSUME JobsInv, run.pc = "busy", run' = [run EXCEPT !.pc = "idle"],
         NEW row \in Row, job' = [job EXCEPT ![run.key] = row],
         row.attempts = job[run.key].attempts, row.locked = FALSE, row.status # "running",
         NEW more \in {0, 1}, failures' = [failures EXCEPT ![run.key] = @ + more],
         Active(row) => failures[run.key] + more < MaxAttempts,
         asking' = asking, crashes' = crashes, blocks' \in Nat
  PROVE  JobsInv'
<1>1. /\ run.key \in Key /\ job[run.key].status = "running" /\ Active(job[run.key])
      /\ failures[run.key] \in Nat /\ failures[run.key] < MaxAttempts
      /\ job[run.key].attempts \in Nat /\ failures[run.key] < job[run.key].attempts
  BY DEF JobsInv, JobsTypeOK, LeaseHeld, Held, BudgetKept, FailuresCounted, Active, Row
<1>2. JobsTypeOK'
  BY <1>1 DEF JobsInv, JobsTypeOK
<1>3. LeaseHeld'
  BY DEF JobsInv, JobsTypeOK, LeaseHeld, Held
<1>4. LockedIsRunning'
  BY <1>1 DEF JobsInv, JobsTypeOK, LockedIsRunning
<1>5. BudgetKept'
  BY <1>1, AttemptsAssumption DEF JobsInv, JobsTypeOK, BudgetKept
<1>6. FailuresCounted'
  BY <1>1 DEF JobsInv, JobsTypeOK, FailuresCounted
<1> QED BY <1>2, <1>3, <1>4, <1>5, <1>6 DEF JobsInv

\* Every step keeps the inductive invariant.
LEMMA JobsStep == JobsInv /\ [JobsNext]_jobVars => JobsInv'
<1> SUFFICES ASSUME JobsInv, [JobsNext]_jobVars PROVE JobsInv'
  OBVIOUS
<1>ty. JobsTypeOK
  BY DEF JobsInv
<1>1. ASSUME NEW k \in Key, Ask(k) PROVE JobsInv'
  BY <1>1 DEF Ask, JobsInv, JobsTypeOK, LeaseHeld, Held, LockedIsRunning, BudgetKept, FailuresCounted
<1>2. ASSUME NEW k \in Key, Enqueue(k) PROVE JobsInv'
  <2>1. job[k] \in Row
    BY DEF JobsInv, JobsTypeOK
  <2>2. /\ job' \in [Key -> Row] /\ failures' \in [Key -> Nat] /\ asking' \subseteq Key
        /\ run' = run /\ crashes' = crashes /\ blocks' = blocks
    BY <1>2, <2>1, <1>ty, RequestedRow DEF Enqueue, JobsTypeOK
  <2>3. /\ job'[k] = Requested(k)
        /\ failures'[k] = IF Active(job[k]) THEN failures[k] ELSE 0
        /\ \A l \in Key \ {k} : job'[l] = job[l] /\ failures'[l] = failures[l]
    BY <1>2, <1>ty DEF Enqueue, JobsTypeOK
  <2>4. \A l \in Key :
            \/ /\ Active(job[l]) /\ Active(job'[l]) /\ failures'[l] = failures[l]
               /\ job'[l].attempts = job[l].attempts /\ job'[l].locked = job[l].locked
               /\ job'[l].status = "running" <=> job[l].status = "running"
            \/ /\ ~Active(job[l]) /\ job'[l] = NewRow /\ failures'[l] = 0
            \/ /\ ~Active(job[l]) /\ job'[l] = job[l] /\ failures'[l] = failures[l]
    BY <2>1, <2>3, RequestedRow DEF Active
  <2> QED BY <2>2, <2>4, RowsRequested
<1>3. ASSUME NEW k \in Key, Claim(k) PROVE JobsInv'
  <2>1. /\ job' = [job EXCEPT ![k] = [job[k] EXCEPT !.status = "running",
                                    !.attempts = job[k].attempts + 1, !.locked = TRUE]]
        /\ run' = [pc |-> "busy", key |-> k] /\ Active(job[k])
        /\ UNCHANGED <<asking, failures, crashes, blocks>>
    BY <1>3, <1>ty DEF Claim, Claimable, JobsTypeOK
  <2>2. JobsTypeOK'
    <3>1. [job[k] EXCEPT !.status = "running", !.attempts = job[k].attempts + 1,
                         !.locked = TRUE] \in Row
      <4>1. job[k] \in Row
        BY <1>ty DEF JobsTypeOK
      <4>2. job[k].attempts + 1 \in Nat
        BY <4>1 DEF Row
      <4> QED BY <4>1, <4>2, Zenon DEF Row, Status
    <3>2. job' \in [Key -> Row]
      BY <2>1, <3>1, <1>ty DEF JobsTypeOK
    <3> QED BY <2>1, <3>2, <1>ty DEF JobsTypeOK
  <2>3. LeaseHeld' /\ LockedIsRunning'
    BY <2>1, <1>ty DEF JobsInv, JobsTypeOK, LeaseHeld, Held, LockedIsRunning, Row
  <2>4. BudgetKept'
    BY <2>1, <1>ty DEF JobsInv, JobsTypeOK, BudgetKept
  <2>5. FailuresCounted'
    BY <2>1, <1>ty DEF JobsInv, JobsTypeOK, FailuresCounted, Row
  <2> QED BY <2>2, <2>3, <2>4, <2>5 DEF JobsInv
<1>4. CASE Complete
  <2> DEFINE row == [job[run.key] EXCEPT !.status = "succeeded", !.locked = FALSE]
  <2>1. run.key \in Key /\ job[run.key] \in Row
    BY <1>ty DEF JobsTypeOK
  <2>2. /\ row \in Row /\ row.attempts = job[run.key].attempts /\ row.locked = FALSE
        /\ row.status # "running" /\ ~Active(row)
    BY <2>1 DEF Row, Status, Active
  <2>3. job' = [job EXCEPT ![run.key] = row]
    BY <1>4, <1>ty DEF Complete, JobsTypeOK, JobsInv, LeaseHeld
  <2>4. failures' = [failures EXCEPT ![run.key] = @ + 0]
    BY <1>4, <1>ty, <2>1 DEF Complete, JobsTypeOK
  <2>5. /\ run.pc = "busy" /\ run' = [run EXCEPT !.pc = "idle"]
        /\ asking' = asking /\ crashes' = crashes /\ blocks' \in Nat
    BY <1>4, <1>ty DEF Complete, JobsTypeOK, JobsInv, LeaseHeld
  <2> HIDE DEF row
  <2> QED BY <2>2, <2>3, <2>4, <2>5, RowFinished
<1>5. CASE Fail
  <2> DEFINE row == Failed(job[run.key])
  <2>1. /\ run.key \in Key /\ job[run.key] \in Row /\ job[run.key].attempts \in Nat
        /\ failures[run.key] \in Nat
    BY <1>ty DEF JobsTypeOK, Row
  <2>2. /\ row \in Row /\ row.attempts = job[run.key].attempts /\ row.locked = FALSE
        /\ row.status # "running"
        /\ Active(row) => job[run.key].attempts < MaxAttempts
    BY <2>1, FailedRow
  <2>3. failures[run.key] < job[run.key].attempts
    BY <1>5, <2>1 DEF Fail, JobsInv, LeaseHeld, Held, FailuresCounted
  <2>4. /\ job' = [job EXCEPT ![run.key] = row]
        /\ failures' = [failures EXCEPT ![run.key] = @ + 1]
        /\ run.pc = "busy" /\ run' = [run EXCEPT !.pc = "idle"]
        /\ asking' = asking /\ crashes' = crashes /\ blocks' \in Nat
    BY <1>5, <1>ty DEF Fail, JobsTypeOK, JobsInv, LeaseHeld
  <2>5. Active(row) => failures[run.key] + 1 < MaxAttempts
    <3> HIDE DEF row
    <3> QED BY <2>1, <2>2, <2>3, AttemptsAssumption
  <2> HIDE DEF row
  <2> QED BY <2>2, <2>4, <2>5, RowFinished
<1>6. CASE Block
  <2> DEFINE row == [job[run.key] EXCEPT !.status = "retry_wait", !.locked = FALSE, !.due = FALSE]
  <2>1. run.key \in Key /\ job[run.key] \in Row /\ failures[run.key] \in Nat
    BY <1>ty DEF JobsTypeOK
  <2>2. /\ row \in Row /\ row.attempts = job[run.key].attempts /\ row.locked = FALSE
        /\ row.status # "running"
    BY <2>1 DEF Row, Status
  <2>3. job' = [job EXCEPT ![run.key] = row]
    BY <1>6, <1>ty DEF Block, JobsTypeOK, JobsInv, LeaseHeld
  <2>4. failures' = [failures EXCEPT ![run.key] = @ + 0]
    BY <1>6, <1>ty, <2>1 DEF Block, JobsTypeOK
  <2>5. /\ run.pc = "busy" /\ run' = [run EXCEPT !.pc = "idle"]
        /\ asking' = asking /\ crashes' = crashes /\ blocks' \in Nat
    BY <1>6, <1>ty DEF Block, JobsTypeOK
  <2>6. failures[run.key] + 0 < MaxAttempts
    BY <2>1, <2>5, AttemptsAssumption DEF JobsInv, LeaseHeld, Held, BudgetKept, Active
  <2> HIDE DEF row
  <2> QED BY <2>2, <2>3, <2>4, <2>5, <2>6, RowFinished
<1>7. ASSUME NEW k \in Key, ComeDue(k) PROVE JobsInv'
  <2>1. /\ job' = [job EXCEPT ![k] = [job[k] EXCEPT !.due = TRUE]]
        /\ UNCHANGED <<run, asking, failures, crashes, blocks>>
    BY <1>7, <1>ty DEF ComeDue, JobsTypeOK
  <2>2. \A l \in Key : /\ job'[l] \in Row /\ job'[l].status = job[l].status
                       /\ job'[l].attempts = job[l].attempts /\ job'[l].locked = job[l].locked
    BY <2>1, <1>ty DEF JobsTypeOK, Row
  <2>3. JobsTypeOK' /\ LeaseHeld'
    BY <2>1, <2>2 DEF JobsInv, JobsTypeOK, LeaseHeld, Held
  <2>4. LockedIsRunning' /\ BudgetKept' /\ FailuresCounted'
    BY <2>1, <2>2 DEF JobsInv, LockedIsRunning, BudgetKept, FailuresCounted, Active
  <2> QED BY <2>3, <2>4 DEF JobsInv
<1>8. ASSUME NEW k \in Key, Expire(k) PROVE JobsInv'
  <2>1. /\ job' = [job EXCEPT ![k] = [job[k] EXCEPT !.locked = FALSE]]
        /\ UNCHANGED <<run, asking, failures, crashes, blocks>>
    BY <1>8, <1>ty DEF Expire, JobsTypeOK
  <2>2. \A l \in Key : /\ job'[l] \in Row /\ job'[l].status = job[l].status
                       /\ job'[l].attempts = job[l].attempts
                       /\ job'[l].locked = (job[l].locked /\ l # k)
    BY <2>1, <1>ty DEF JobsTypeOK, Row
  <2>3. JobsTypeOK'
    BY <2>1, <2>2 DEF JobsInv, JobsTypeOK
  <2>4. LeaseHeld' /\ LockedIsRunning'
    BY <2>1, <2>2, <1>ty DEF JobsInv, JobsTypeOK, LeaseHeld, Held, LockedIsRunning
  <2>5. BudgetKept' /\ FailuresCounted'
    BY <2>1, <2>2 DEF JobsInv, BudgetKept, FailuresCounted, Active
  <2> QED BY <2>3, <2>4, <2>5 DEF JobsInv
<1>9. CASE Start \/ Reseed
  <2>1. PICK S \in SUBSET Key : Seeded(S)
    BY <1>9, KeyAssumption DEF Start, Reseed
  <2>2. /\ run' = run \/ (run.pc = "down" /\ run' = [run EXCEPT !.pc = "idle"])
        /\ asking' \subseteq Key /\ crashes' = crashes /\ blocks' = blocks
    BY <1>9, <1>ty DEF Start, Reseed, JobsTypeOK
  <2> QED BY <2>1, <2>2, SeededRows, RowsRequested
<1>10. CASE Crash
  BY <1>10 DEF Crash, JobsInv, JobsTypeOK, LeaseHeld, Held, LockedIsRunning, BudgetKept, FailuresCounted
<1>11. CASE StopWorker
  BY <1>11 DEF StopWorker, JobsInv, JobsTypeOK, LeaseHeld, Held, LockedIsRunning, BudgetKept, FailuresCounted
<1>12. CASE Heartbeat
  <2>1. /\ job' = [job EXCEPT ![run.key] = [job[run.key] EXCEPT !.locked = TRUE]]
        /\ job[run.key].status = "running" /\ run.key \in Key
        /\ UNCHANGED <<run, asking, failures, crashes, blocks>>
    BY <1>12, <1>ty DEF Heartbeat, Held, JobsTypeOK
  <2>2. \A l \in Key : /\ job'[l] \in Row /\ job'[l].status = job[l].status
                       /\ job'[l].attempts = job[l].attempts
                       /\ job'[l].locked = (job[l].locked \/ l = run.key)
    BY <2>1, <1>ty DEF JobsTypeOK, Row
  <2>3. JobsTypeOK'
    BY <2>1, <2>2 DEF JobsInv, JobsTypeOK
  <2>4. LeaseHeld' /\ LockedIsRunning'
    BY <2>1, <2>2, <1>ty DEF JobsInv, JobsTypeOK, LeaseHeld, Held, LockedIsRunning
  <2>5. BudgetKept' /\ FailuresCounted'
    BY <2>1, <2>2 DEF JobsInv, BudgetKept, FailuresCounted, Active
  <2> QED BY <2>3, <2>4, <2>5 DEF JobsInv
<1>13. CASE UNCHANGED jobVars
  BY <1>13 DEF jobVars, JobsInv, JobsTypeOK, LeaseHeld, Held, LockedIsRunning, BudgetKept,
               FailuresCounted, Active
<1> QED BY <1>1, <1>2, <1>3, <1>4, <1>5, <1>6, <1>7, <1>8, <1>9, <1>10, <1>11, <1>12, <1>13
       DEF JobsNext

-----------------------------------------------------------------------------
(* The theorems.                                                           *)

\* The jobs table and the worker always satisfy the inductive invariant.
THEOREM JobsInvariant == JobsSpec => []JobsInv
<1>1. JobsInit => JobsInv
  BY AttemptsAssumption DEF JobsInit, JobsInv, JobsTypeOK, LeaseHeld, Held, LockedIsRunning, BudgetKept,
                         FailuresCounted, NoRow, Row, Status, Active
<1> QED BY <1>1, JobsStep, PTL DEF JobsSpec

\* Type correctness, for any job keys and limits.
THEOREM JobsTypeCorrect == JobsSpec => []JobsTypeOK
BY JobsInvariant, PTL DEF JobsInv

\* Complete and Fail never find that the running handler has lost its lease, however late its
\* heartbeats are and whatever requests and seeding passes do to the row.
THEOREM LeaseNeverLost == JobsSpec => []LeaseHeld
BY JobsInvariant, PTL DEF JobsInv

\* No waiting, new or finished row is behind a lock.
THEOREM LocksOfRunningJobs == JobsSpec => []LockedIsRunning
BY JobsInvariant, PTL DEF JobsInv

\* A failing handler is run max_attempts times at most, however often the Server crashes,
\* the job is blocked, or a request or a seeding pass asks for it again.
THEOREM RetryBudget == JobsSpec => []BudgetKept
BY JobsInvariant, PTL DEF JobsInv

=============================================================================
