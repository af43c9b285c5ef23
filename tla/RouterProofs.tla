---------------------------- MODULE RouterProofs ----------------------------
(***************************************************************************)
(* Proofs about RouterSnapshots, for any domains, job keys, retry budget   *)
(* and number of versions and crashes.                                     *)
(***************************************************************************)
EXTENDS RouterSnapshots, JobsProofs

-----------------------------------------------------------------------------
(* The snapshot job is a job.                                              *)

\* A step of the Router's pipeline is a step of the jobs table or leaves it alone.
LEMMA RouterStepIsJobsStep == [RouterNext]_routerVars => [JobsNext]_jobVars
<1> SUFFICES ASSUME [RouterNext]_routerVars PROVE [JobsNext]_jobVars
  OBVIOUS
<1> USE RouterAssumption
<1>1. ASSUME NEW h \in Host, SetOnline(h) \/ DeleteDomain(h) \/ FinalizeDeletedDomain(h)
      PROVE  [JobsNext]_jobVars
  BY <1>1 DEF SetOnline, DeleteDomain, FinalizeDeletedDomain, JobsNext
<1>2. CASE Rebuild
  BY <1>2 DEF Rebuild, JobsNext
<1>3. CASE JobStep
  BY <1>3 DEF JobStep, JobsNext
<1>4. CASE BuildStep
  BY <1>4 DEF BuildStep, ReadSources, NumberSnapshot, WriteLastGood, SupersedeRows, InsertRow,
              SaveState, FinalizeDomainState, BuildDone, BuildFails, JobsNext
<1>5. CASE Reload
  BY <1>5 DEF Reload
<1>6. CASE CrashAll
  BY <1>6 DEF CrashAll, JobsNext
<1>7. CASE UNCHANGED routerVars
  BY <1>7 DEF routerVars
<1> QED BY <1>1, <1>2, <1>3, <1>4, <1>5, <1>6, <1>7 DEF RouterNext

\* The pipeline implements the jobs table, so the worker's guarantees hold in it.
THEOREM RouterImplementsJobs == RouterSpec => JobsSpec
<1>1. RouterInit => JobsInit
  BY DEF RouterInit
<1> QED BY <1>1, RouterStepIsJobsStep, PTL DEF RouterSpec, JobsSpec

-----------------------------------------------------------------------------
(* Versions.                                                               *)

\* What a build has numbered and written by the time it has reached a step.
BuildProgress ==
    /\ build.step \in {"numbered", "written", "superseded", "inserted"} =>
          build.version = rver + 1 /\ build.version \in Version
    /\ Publishing => file.version = rver + 1
    /\ build.step = "inserted" => rows[build.version] # "none"

\* The inductive invariant.
RouterInv == JobsInv /\ RouterTypeOK /\ AtMostOneAhead /\ BuildProgress

\* What no step of the pipeline but the build's changes.
LEMMA BuildUntouched ==
  ASSUME RouterInv, JobsInv', UNCHANGED <<stateVars, file>>,
         build' = build \/ build' = Idle,
         dom' \in [Host -> {"bound", "deleting", "gone"}], up' \subseteq Host,
         current' \in Snapshot, changed' \in BOOLEAN, torn' \in BOOLEAN
  PROVE  RouterInv'
<1>1. build' \in Build
  BY DEF RouterInv, RouterTypeOK, Build, Idle
<1>2. RouterTypeOK'
  BY <1>1 DEF RouterInv, RouterTypeOK, JobsInv, stateVars
<1>3. AtMostOneAhead'
  BY DEF RouterInv, AtMostOneAhead, stateVars
<1>4. BuildProgress'
  BY DEF RouterInv, RouterTypeOK, BuildProgress, Publishing, Idle, Build, stateVars
<1> QED BY <1>2, <1>3, <1>4 DEF RouterInv

\* The steps of BuildRouterSnapshot keep the invariant.
LEMMA BuildStepKeeps ==
  ASSUME RouterInv, JobsInv', BuildStep
  PROVE  RouterInv'
<1>ty. /\ RouterTypeOK /\ rver \in Int /\ file.version \in Int /\ Version \subseteq Nat
       /\ build.version \in Int
  BY RouterAssumption DEF RouterInv, RouterTypeOK, Version, Snapshot, Build
<1>jt. JobsTypeOK'
  BY DEF JobsInv
<1>1. CASE ReadSources
  <2>1. /\ build' = [build EXCEPT !.step = "read", !.routes = Sources]
        /\ UNCHANGED <<dom, up, rows, rver, file, changed, current, torn>>
    BY <1>1 DEF ReadSources, tableVars, stateVars, servedVars
  <2>2. Sources \in Routes
    BY <1>ty DEF Sources, Routes, RouterTypeOK
  <2>3. build' \in Build /\ build'.step = "read"
    BY <2>1, <2>2, <1>ty DEF RouterTypeOK, Build
  <2> QED BY <2>1, <2>3, <1>ty, <1>jt DEF RouterInv, RouterTypeOK, AtMostOneAhead, BuildProgress, Publishing
<1>2. CASE NumberSnapshot
  <2>1. /\ build' = [build EXCEPT !.step = "numbered", !.version = rver + 1]
        /\ rver + 1 \in Version
        /\ UNCHANGED <<dom, up, rows, rver, file, changed, current, torn>>
    BY <1>2 DEF NumberSnapshot, NextVersion, tableVars, stateVars, servedVars
  <2>2. build' \in Build /\ build'.step = "numbered" /\ build'.version = rver + 1
    BY <2>1, <1>ty DEF RouterTypeOK, Build
  <2> QED BY <2>1, <2>2, <1>ty, <1>jt DEF RouterInv, RouterTypeOK, AtMostOneAhead, BuildProgress, Publishing
<1>3. CASE WriteLastGood
  <2>1. /\ build.step = "numbered" /\ build' = [build EXCEPT !.step = "written"]
        /\ file' = [version |-> build.version, routes |-> build.routes] /\ changed' = TRUE
        /\ UNCHANGED <<dom, up, rows, rver, current, torn>>
    BY <1>3 DEF WriteLastGood, At, tableVars, stateVars
  <2>2. /\ build' \in Build /\ build'.step = "written" /\ build'.version = build.version
        /\ build.version = rver + 1 /\ build.version \in Version
    BY <2>1, <1>ty DEF RouterInv, RouterTypeOK, BuildProgress, Build
  <2>3. file' \in Snapshot /\ file'.version = rver + 1
    BY <2>1, <2>2, <1>ty DEF RouterTypeOK, Build, Snapshot
  <2>4. RouterTypeOK'
    BY <2>1, <2>2, <2>3, <1>ty, <1>jt DEF RouterTypeOK
  <2>5. AtMostOneAhead' /\ BuildProgress'
    BY <2>1, <2>2, <2>3, <1>ty DEF RouterInv, AtMostOneAhead, BuildProgress, Publishing
  <2> QED BY <2>4, <2>5 DEF RouterInv
<1>4. CASE SupersedeRows
  <2>1. /\ build.step = "written" /\ build' = [build EXCEPT !.step = "superseded"]
        /\ rows' = [v \in Version |-> IF rows[v] = "active" THEN "superseded" ELSE rows[v]]
        /\ UNCHANGED <<dom, up, rver, file, changed, current, torn>>
    BY <1>4 DEF SupersedeRows, At, tableVars, servedVars
  <2>2. build' \in Build /\ build'.step = "superseded" /\ build'.version = build.version
    BY <2>1, <1>ty DEF RouterTypeOK, Build
  <2>3. \A v \in Version : rows'[v] = "none" <=> rows[v] = "none"
    BY <2>1
  <2>4. RouterTypeOK'
    BY <2>1, <2>2, <1>ty, <1>jt DEF RouterTypeOK
  <2>5. AtMostOneAhead' /\ BuildProgress'
    BY <2>1, <2>2, <2>3, <1>ty DEF RouterInv, AtMostOneAhead, BuildProgress, Publishing
  <2> QED BY <2>4, <2>5 DEF RouterInv
<1>5. CASE InsertRow
  <2>1. /\ build.step = "superseded" /\ build' = [build EXCEPT !.step = "inserted"]
        /\ rows' = [rows EXCEPT ![build.version] = "active"]
        /\ UNCHANGED <<dom, up, rver, file, changed, current, torn>>
    BY <1>5 DEF InsertRow, At, tableVars, servedVars
  <2>2. /\ build' \in Build /\ build'.step = "inserted" /\ build'.version = build.version
        /\ build.version = rver + 1 /\ build.version \in Version
    BY <2>1, <1>ty DEF RouterInv, RouterTypeOK, BuildProgress, Build
  <2>3. RouterTypeOK'
    BY <2>1, <2>2, <1>ty, <1>jt DEF RouterTypeOK
  <2>4. AtMostOneAhead' /\ BuildProgress'
    BY <2>1, <2>2, <1>ty DEF RouterInv, RouterTypeOK, AtMostOneAhead, BuildProgress, Publishing
  <2> QED BY <2>3, <2>4 DEF RouterInv
<1>6. CASE SaveState
  <2>1. /\ build.step = "inserted" /\ rver' = build.version
        /\ build' = [build EXCEPT !.step = "saved", !.todo = build.routes.hosts]
        /\ UNCHANGED <<dom, up, rows, file, changed, current, torn>>
    BY <1>6 DEF SaveState, At, tableVars, servedVars
  <2>2. /\ build' \in Build /\ build'.step = "saved"
    BY <2>1, <1>ty DEF RouterTypeOK, Build, Routes
  <2>3. /\ rver' = rver + 1 /\ rver' \in Version /\ file.version = rver + 1
        /\ rows[rver'] # "none"
    BY <2>1, <1>ty DEF RouterInv, BuildProgress, Publishing
  <2>4. RouterTypeOK'
    BY <2>1, <2>2, <2>3, <1>ty, <1>jt DEF RouterTypeOK
  <2>5. AtMostOneAhead' /\ BuildProgress'
    BY <2>1, <2>2, <2>3, <1>ty DEF RouterInv, AtMostOneAhead, BuildProgress, Publishing
  <2> QED BY <2>4, <2>5 DEF RouterInv
<1>7. ASSUME NEW h \in Host, FinalizeDomainState(h) PROVE RouterInv'
  <2>1. /\ build.step = "saved" /\ build' = [build EXCEPT !.todo = build.todo \ {h}]
        /\ dom' = [dom EXCEPT ![h] = IF dom[h] = "gone" THEN "gone" ELSE "bound"]
        /\ UNCHANGED <<up, rows, rver, file, changed, current, torn>>
    BY <1>7, <1>ty DEF FinalizeDomainState, At, stateVars, servedVars, RouterTypeOK
  <2>2. build' \in Build /\ build'.step = "saved"
    BY <2>1, <1>ty DEF RouterTypeOK, Build
  <2> QED BY <2>1, <2>2, <1>ty, <1>jt DEF RouterInv, RouterTypeOK, AtMostOneAhead, BuildProgress, Publishing
<1>8. CASE BuildDone \/ BuildFails
  BY <1>8, <1>ty, BuildUntouched
     DEF BuildDone, BuildFails, RouterTypeOK, tableVars, stateVars, servedVars
<1> QED BY <1>1, <1>2, <1>3, <1>4, <1>5, <1>6, <1>7, <1>8 DEF BuildStep

\* Every step keeps the inductive invariant.
LEMMA RouterStep == RouterInv /\ [RouterNext]_routerVars => RouterInv'
<1> SUFFICES ASSUME RouterInv, [RouterNext]_routerVars PROVE RouterInv'
  OBVIOUS
<1>j. JobsInv'
  BY JobsStep, RouterStepIsJobsStep DEF RouterInv
<1>ty. RouterTypeOK
  BY DEF RouterInv
<1>1. ASSUME NEW h \in Host, SetOnline(h) \/ DeleteDomain(h) \/ FinalizeDeletedDomain(h)
      PROVE  RouterInv'
  <2>1. /\ build' = build /\ UNCHANGED <<stateVars, servedVars>>
        /\ dom' \in [Host -> {"bound", "deleting", "gone"}] /\ up' \subseteq Host
    BY <1>1, <1>ty DEF SetOnline, DeleteDomain, FinalizeDeletedDomain, RouterTypeOK
  <2> QED BY <2>1, <1>j, <1>ty, BuildUntouched DEF servedVars, RouterTypeOK
<1>2. CASE Rebuild \/ JobStep
  BY <1>2, <1>j, <1>ty, BuildUntouched DEF Rebuild, JobStep, RouterTypeOK, tableVars, servedVars
<1>3. CASE BuildStep
  BY <1>3, <1>j, BuildStepKeeps
<1>4. CASE Reload
  BY <1>4, <1>j, <1>ty, BuildUntouched DEF Reload, Load, RouterTypeOK, tableVars
<1>5. CASE CrashAll
  <2>1. NoSnapshot \in Snapshot
    BY DEF NoSnapshot, Snapshot, NoRoutes, Routes
  <2> QED BY <2>1, <1>5, <1>j, <1>ty, BuildUntouched DEF CrashAll, RouterTypeOK, tableVars
<1>6. CASE UNCHANGED routerVars
  BY <1>6, <1>j, <1>ty, BuildUntouched DEF routerVars, RouterTypeOK, stateVars
<1> QED BY <1>1, <1>2, <1>3, <1>4, <1>5, <1>6 DEF RouterNext

\* The pipeline always satisfies the inductive invariant.
THEOREM RouterInvariant == RouterSpec => []RouterInv
<1>1. RouterInit => RouterInv
  <2> SUFFICES ASSUME RouterInit PROVE RouterInv
    OBVIOUS
  <2>1. JobsInv
    BY AttemptsAssumption
       DEF RouterInit, JobsInit, JobsInv, JobsTypeOK, LeaseHeld, Held, LockedIsRunning, BudgetKept,
           FailuresCounted, NoRow, Row, Status, Active
  <2>2. RouterTypeOK
    BY <2>1 DEF RouterInit, RouterTypeOK, JobsInv, Build, Snapshot, NoSnapshot, NoRoutes, Routes
  <2>3. AtMostOneAhead /\ BuildProgress
    BY RouterAssumption
       DEF RouterInit, AtMostOneAhead, BuildProgress, Publishing, NoSnapshot, Version
  <2> QED BY <2>1, <2>2, <2>3 DEF RouterInv
<1> QED BY <1>1, RouterStep, PTL DEF RouterSpec

\* Type correctness of the pipeline, for any domains and versions.
THEOREM RouterTypeCorrect == RouterSpec => []RouterTypeOK
BY RouterInvariant, PTL DEF RouterInv

\* However a build ends, last-good.json and router_snapshots are at most one version ahead
\* of router_state.
THEOREM OneVersionAhead == RouterSpec => []AtMostOneAhead
BY RouterInvariant, PTL DEF RouterInv

-----------------------------------------------------------------------------
(* What is served, until a build has ended while it published.             *)

\* The file is the table of its version, and the Router's table is never another table of
\* that version.  The last conjunct ties the file to what the last build has read.
Served ==
    /\ ~Publishing => /\ file.version = rver
                      /\ \A v \in Version : v > rver => rows[v] = "none"
    /\ build.step \in {"written", "superseded"} => rows[build.version] = "none"
    /\ current.version <= file.version
    /\ current.version = file.version => current = file
    /\ file.version = 0 => file = NoSnapshot
    /\ ~changed => current = file
    /\ Publishing \/ build.step = "saved" \/ job[router].status = "succeeded" =>
          file.routes = build.routes

\* Where the snapshot job stands: its handler runs only while its row is running.
LEMMA BuildRuns ==
  ASSUME RouterInv, NEW step, At(step)
  PROVE  job[router].status = "running" /\ build.step = step
BY DEF RouterInv, JobsInv, LeaseHeld, Held, At

\* A build is under way only while the worker runs its handler.
BuildBusy == build.step # "none" => run.pc = "busy" /\ run.key = router

\* No step leaves a build without its handler.
LEMMA BuildBusyStep ==
  ASSUME RouterInv, BuildBusy, [RouterNext]_routerVars
  PROVE  BuildBusy'
<1>ty. build \in Build
  BY DEF RouterInv, RouterTypeOK
<1>1. CASE \/ ReadSources \/ NumberSnapshot \/ WriteLastGood \/ SupersedeRows
           \/ InsertRow \/ SaveState \/ \E h \in Host : FinalizeDomainState(h)
  BY <1>1 DEF ReadSources, NumberSnapshot, WriteLastGood, SupersedeRows, InsertRow, SaveState,
              FinalizeDomainState, At, BuildBusy, jobVars
<1>2. CASE BuildDone \/ BuildFails \/ CrashAll
  BY <1>2, <1>ty DEF BuildDone, BuildFails, CrashAll, Idle, BuildBusy, Build
<1>3. CASE JobStep
  BY <1>3 DEF JobStep, Start, Enqueue, Claim, ComeDue, Expire, Heartbeat, BuildBusy
<1>4. CASE \/ \E h \in Host : SetOnline(h) \/ DeleteDomain(h) \/ FinalizeDeletedDomain(h)
           \/ Rebuild \/ Reload \/ UNCHANGED routerVars
  BY <1>4 DEF SetOnline, DeleteDomain, FinalizeDeletedDomain, Rebuild, Reload, Ask, BuildBusy,
              routerVars, jobVars
<1> QED BY <1>1, <1>2, <1>3, <1>4 DEF RouterNext, BuildStep

\* Only BuildDone makes the snapshot job succeed.
LEMMA JobNotDone ==
  ASSUME RouterInv, [RouterNext]_routerVars, ~BuildDone, job'[router].status = "succeeded"
  PROVE  job[router].status = "succeeded"
<1> USE RouterAssumption
<1>ty. job \in [Key -> Row] /\ job[router] \in Row /\ run.key \in Key
  BY DEF RouterInv, RouterTypeOK, JobsTypeOK
<1>1. CASE UNCHANGED job
  BY <1>1
<1>2. CASE Start
  <2>1. PICK S \in SUBSET Key : Seeded(S)
    BY <1>2, KeyAssumption DEF Start
  <2>2. job'[router] = job[router] \/ job'[router] = NewRow \/ Active(job'[router])
    BY <2>1, SeededRows DEF RouterInv
  <2> QED BY <2>2 DEF NewRow, Active
<1>3. CASE Enqueue(router)
  <2>1. job'[router] = Requested(router)
    BY <1>3, <1>ty DEF Enqueue
  <2> QED BY <2>1, <1>ty, RequestedRow DEF Active
<1>4. CASE Claim(router)
  BY <1>4, <1>ty DEF Claim, Row
<1>5. CASE ComeDue(router) \/ Expire(router) \/ Heartbeat
  BY <1>5, <1>ty DEF ComeDue, Expire, Heartbeat, Held, Row
<1>6. CASE BuildFails
  <2>1. job'[router] = Failed(job[router])
    BY <1>6, <1>ty DEF BuildFails, Fail, RouterInv, JobsInv, LeaseHeld
  <2>2. Failed(job[router]).status # "succeeded"
    BY <1>ty DEF Failed, Row
  <2> QED BY <2>1, <2>2
<1> QED
  BY <1>1, <1>2, <1>3, <1>4, <1>5, <1>6
     DEF RouterNext, SetOnline, DeleteDomain, FinalizeDeletedDomain, Rebuild, Ask, JobStep,
         BuildStep, ReadSources, NumberSnapshot, WriteLastGood, SupersedeRows, InsertRow,
         SaveState, FinalizeDomainState, Reload, CrashAll, Crash, routerVars, jobVars

\* Every step keeps the tie between the tables, unless a build ends while it publishes.
LEMMA ServedStep ==
  ASSUME ~torn', RouterInv, RouterInv', Served, [RouterNext]_routerVars
  PROVE  Served'
<1>ty. /\ rver \in Int /\ file \in Snapshot /\ current \in Snapshot /\ build \in Build
       /\ file.version \in Int /\ current.version \in Int /\ Version \subseteq Nat
       /\ rows \in [Version -> {"none", "active", "superseded"}]
  BY RouterAssumption DEF RouterInv, RouterTypeOK, Version, Snapshot
<1>1. ASSUME UNCHANGED <<build, rows, rver, file, changed, current>>, ~BuildDone PROVE Served'
  BY <1>1, JobNotDone DEF Served, Publishing
<1>2. CASE ReadSources
  <2>1. /\ build' = [build EXCEPT !.step = "read", !.routes = Sources]
        /\ UNCHANGED <<job, rows, rver, file, changed, current>>
        /\ build.step = "none" /\ job[router].status = "running"
    BY <1>2, BuildRuns DEF ReadSources, jobVars, stateVars, servedVars
  <2>2. build'.step = "read"
    BY <2>1, <1>ty DEF Build
  <2> QED BY <2>1, <2>2 DEF Served, Publishing
<1>3. CASE NumberSnapshot
  <2>1. /\ build' = [build EXCEPT !.step = "numbered", !.version = NextVersion]
        /\ UNCHANGED <<job, rows, rver, file, changed, current>>
        /\ build.step = "read" /\ job[router].status = "running"
    BY <1>3, BuildRuns DEF NumberSnapshot, jobVars, stateVars, servedVars
  <2>2. build'.step = "numbered"
    BY <2>1, <1>ty DEF Build
  <2> QED BY <2>1, <2>2 DEF Served, Publishing
<1>4. CASE WriteLastGood
  <2>1. /\ build.step = "numbered" /\ build' = [build EXCEPT !.step = "written"]
        /\ file' = [version |-> build.version, routes |-> build.routes] /\ changed' = TRUE
        /\ UNCHANGED <<rows, rver, current>>
    BY <1>4 DEF WriteLastGood, At, stateVars
  <2>2. /\ build.version = rver + 1 /\ build.version \in Version
        /\ file.version = rver /\ \A v \in Version : v > rver => rows[v] = "none"
    BY <2>1 DEF RouterInv, BuildProgress, Served, Publishing
  <2>3. /\ build'.step = "written" /\ build'.version = build.version
        /\ build'.routes = build.routes
    BY <2>1, <1>ty DEF Build
  <2>4. /\ file'.version = rver + 1 /\ file'.routes = build'.routes /\ file'.version # 0
        /\ rows'[build'.version] = "none" /\ current'.version < file'.version
    BY <2>1, <2>2, <2>3, <1>ty, RouterAssumption DEF Served, Version
  <2> QED BY <2>1, <2>3, <2>4, <1>ty DEF Served, Publishing
<1>5. CASE SupersedeRows
  <2>1. /\ build.step = "written" /\ build' = [build EXCEPT !.step = "superseded"]
        /\ rows' = [v \in Version |-> IF rows[v] = "active" THEN "superseded" ELSE rows[v]]
        /\ UNCHANGED <<rver, file, changed, current>>
    BY <1>5 DEF SupersedeRows, At, servedVars
  <2>2. /\ build'.step = "superseded" /\ build'.version = build.version
        /\ build'.routes = build.routes
    BY <2>1, <1>ty DEF Build
  <2>3. build.version \in Version
    BY <2>1 DEF RouterInv, BuildProgress
  <2> QED BY <2>1, <2>2, <2>3 DEF Served, Publishing
<1>6. CASE InsertRow
  <2>1. /\ build.step = "superseded" /\ build' = [build EXCEPT !.step = "inserted"]
        /\ UNCHANGED <<rver, file, changed, current>>
    BY <1>6 DEF InsertRow, At, servedVars
  <2>2. build'.step = "inserted" /\ build'.routes = build.routes
    BY <2>1, <1>ty DEF Build
  <2> QED BY <2>1, <2>2 DEF Served, Publishing
<1>7. CASE SaveState
  <2>1. /\ build.step = "inserted" /\ rver' = build.version
        /\ build' = [build EXCEPT !.step = "saved", !.todo = build.routes.hosts]
        /\ UNCHANGED <<rows, file, changed, current>>
    BY <1>7 DEF SaveState, At, servedVars
  <2>2. build'.step = "saved" /\ build'.routes = build.routes
    BY <2>1, <1>ty DEF Build
  <2>3. /\ rver' = rver + 1 /\ file.version = rver'
        /\ \A v \in Version : v > rver' => rows[v] = "none"
    BY <2>1, <1>ty DEF RouterInv, BuildProgress, AtMostOneAhead, Publishing
  <2> QED BY <2>1, <2>2, <2>3 DEF Served, Publishing
<1>8. ASSUME NEW h \in Host, FinalizeDomainState(h) PROVE Served'
  <2>1. /\ build.step = "saved" /\ build' = [build EXCEPT !.todo = build.todo \ {h}]
        /\ UNCHANGED <<rows, rver, file, changed, current>>
    BY <1>8, <1>ty DEF FinalizeDomainState, At, stateVars, servedVars
  <2>2. build'.step = "saved" /\ build'.routes = build.routes
    BY <2>1, <1>ty DEF Build
  <2> QED BY <2>1, <2>2 DEF Served, Publishing
<1>9. CASE BuildDone \/ BuildFails \/ CrashAll
  <2>1. /\ build' = Idle /\ UNCHANGED <<rows, rver, file>>
        /\ BuildDone => build.step = "saved"
    BY <1>9 DEF BuildDone, BuildFails, CrashAll, At, stateVars, servedVars
  <2>2. build'.step = "none" /\ build'.routes = build.routes
    BY <2>1, <1>ty DEF Idle, Build
  <2>3. ~Publishing
    BY <1>9 DEF BuildDone, At, BuildFails, CrashAll, Publishing, Served
  <2>4. job'[router].status = "succeeded" =>
           job[router].status = "succeeded" \/ build.step = "saved"
    BY <2>1, JobNotDone
  <2>5. CASE CrashAll
    <3>1. current' = NoSnapshot /\ changed' = (file # NoSnapshot)
      BY <2>5 DEF CrashAll
    <3>2. current'.version = 0 /\ file.version >= 0 /\ current' \in Snapshot
      BY <3>1, <1>ty DEF NoSnapshot, Snapshot, Version, RouterInv, RouterTypeOK
    <3> QED BY <3>1, <3>2, <2>1, <2>2, <2>3, <2>4, <1>ty DEF Served, Publishing
  <2>6. CASE ~CrashAll
    <3>1. UNCHANGED <<changed, current>>
      BY <1>9, <2>6 DEF BuildDone, BuildFails, servedVars
    <3> QED BY <3>1, <2>1, <2>2, <2>3, <2>4 DEF Served, Publishing
  <2> QED BY <2>5, <2>6
<1>10. CASE Reload
  <2>1. /\ current' = Load(file) /\ changed' = FALSE
        /\ UNCHANGED <<build, rows, rver, file, job>>
    BY <1>10 DEF Reload, jobVars, stateVars
  <2>2. current' = file
    BY <2>1, <1>ty DEF Load, Served
  <2> QED BY <2>1, <2>2, <1>ty DEF Served, Publishing
<1>11. \/ \E h \in Host : SetOnline(h) \/ DeleteDomain(h) \/ FinalizeDeletedDomain(h)
       \/ Rebuild \/ JobStep \/ UNCHANGED routerVars
       => UNCHANGED <<build, rows, rver, file, changed, current>>
  BY DEF SetOnline, DeleteDomain, FinalizeDeletedDomain, Rebuild, JobStep, routerVars,
         stateVars, servedVars
<1> QED BY <1>1, <1>2, <1>3, <1>4, <1>5, <1>6, <1>7, <1>8, <1>9, <1>10, <1>11
           DEF RouterNext, BuildStep

\* A build that has ended while it published is not forgotten.
LEMMA TornStays ==
  ASSUME RouterTypeOK, [RouterNext]_routerVars, ~torn'
  PROVE  ~torn
BY DEF RouterTypeOK, RouterNext, SetOnline, DeleteDomain, FinalizeDeletedDomain, Rebuild, JobStep,
       BuildStep, ReadSources, NumberSnapshot, WriteLastGood, SupersedeRows, InsertRow, SaveState,
       FinalizeDomainState, BuildDone, BuildFails, Reload, CrashAll, servedVars, routerVars

\* Until a build has ended while it published, the Router serves what the last successful
\* build has read.
THEOREM TableServed == RouterSpec => []ReadIsServed
<1> DEFINE Tied == BuildBusy /\ (~torn => Served)
<1>1. RouterInit => Tied
  <2> SUFFICES ASSUME RouterInit PROVE Served /\ BuildBusy
    OBVIOUS
  <2>1. job[router].status = "none"
    BY RouterAssumption DEF RouterInit, JobsInit, NoRow
  <2> QED BY <2>1 DEF RouterInit, Served, Publishing, NoSnapshot, BuildBusy
<1>2. RouterInv /\ RouterInv' /\ Tied /\ [RouterNext]_routerVars => Tied'
  <2> SUFFICES ASSUME RouterInv, RouterInv', Tied, [RouterNext]_routerVars PROVE Tied'
    OBVIOUS
  <2>1. BuildBusy'
    BY BuildBusyStep
  <2>2. ASSUME ~torn' PROVE Served'
    BY <2>2, TornStays, ServedStep DEF RouterInv
  <2> QED BY <2>1, <2>2
<1>3. RouterInv /\ Tied => ReadIsServed
  <2> SUFFICES ASSUME RouterInv, Served, BuildBusy, job[router].status = "succeeded",
                      run.pc = "idle", ~changed, ~torn
               PROVE  current = [version |-> rver, routes |-> build.routes]
    BY DEF ReadIsServed
  <2>1. current = file /\ file.routes = build.routes
    BY DEF Served
  <2>2. file \in Snapshot
    BY DEF RouterInv, RouterTypeOK
  <2>3. file.version = rver
    BY DEF Served, BuildBusy, Publishing
  <2> QED BY <2>1, <2>2, <2>3 DEF Snapshot
<1> QED BY <1>1, <1>2, <1>3, RouterInvariant, PTL DEF RouterSpec

=============================================================================
