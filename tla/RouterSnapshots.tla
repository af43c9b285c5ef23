-------------------------- MODULE RouterSnapshots ---------------------------
(***************************************************************************)
(* How a change of the domains or of the mappings behind them reaches the  *)
(* Router: the job router_snapshot_apply (BuildRouterSnapshot in           *)
(* router_service.go), the file last-good.json, the Watcher and the        *)
(* Runtime that serves from it (server/internal/router).                   *)
(*                                                                         *)
(* BuildRouterSnapshot runs no transaction: each of its statements and     *)
(* file writes is a step, requests commit between any two of them, and it  *)
(* may fail, or the process may end, after any of them.  The Router runs   *)
(* in the Server's process and starts with an empty table.                 *)
(***************************************************************************)
EXTENDS Jobs

CONSTANTS
    router,      \* the key of the snapshot job
    Host,        \* the domains
    MaxSnapshot  \* bound: snapshot versions

ASSUME RouterAssumption == /\ router \in Key
                           /\ MaxSnapshot \in Nat

VARIABLES
    dom,       \* dom[h]: domain_bindings.status, as far as the snapshot tells it apart
    up,        \* the domains whose mapping is 'running'
    build,     \* the build under way, and what the last one read
    rows,      \* rows[v]: the status of router_snapshots row v
    rver,      \* router_state.router_config_version and router_applied_version
    file,      \* last-good.json
    changed,   \* the Watcher has not looked at the last write of the file
    current,   \* Runtime.current
    torn       \* history: a build ended between last-good.json and router_state

routerVars == <<jobVars, dom, up, build, rows, rver, file, changed, current, torn>>
tableVars == <<dom, up>>
stateVars == <<rows, rver>>
servedVars == <<file, changed, current, torn>>

Version == 1..MaxSnapshot
Routes == [hosts : SUBSET Host, online : SUBSET Host]
NoRoutes == [hosts |-> {}, online |-> {}]
Snapshot == [version : Version \cup {0}, routes : Routes]
NoSnapshot == [version |-> 0, routes |-> NoRoutes]
Build == [step : {"none", "read", "numbered", "written", "superseded", "inserted", "saved"},
          version : Version \cup {0}, routes : Routes, todo : SUBSET Host]

\* The rows BuildRouterSnapshot selects; a route is active when its mapping is running.
Sources == LET bound == {h \in Host : dom[h] = "bound"} IN
           [hosts |-> bound, online |-> bound \cap up]

RouterInit ==
    /\ JobsInit
    /\ dom = [h \in Host |-> "bound"] /\ up = {}
    /\ build = [step |-> "none", version |-> 0, routes |-> NoRoutes, todo |-> {}]
    /\ rows = [v \in Version |-> "none"] /\ rver = 0
    /\ file = NoSnapshot /\ changed = FALSE /\ current = NoSnapshot
    /\ torn = FALSE

-----------------------------------------------------------------------------
(* Requests.                                                               *)

\* ApplyResult and ToggleMapping change a mapping's state, then enqueue a snapshot.
SetOnline(h) ==
    /\ Ask(router)
    /\ dom[h] # "gone"
    /\ up' = IF h \in up THEN up \ {h} ELSE up \cup {h}
    /\ UNCHANGED <<dom, build, stateVars, servedVars>>

DeleteDomain(h) ==
    /\ Ask(router)
    /\ dom[h] # "gone"
    /\ dom' = [dom EXCEPT ![h] = "deleting"]
    /\ UNCHANGED <<up, build, stateVars, servedVars>>

\* The administrator asks for a snapshot.
Rebuild == Ask(router) /\ UNCHANGED <<tableVars, build, stateVars, servedVars>>

\* Another job of the same worker: finalizeDeletedDomain.
FinalizeDeletedDomain(h) ==
    /\ run.pc = "idle" /\ dom[h] = "deleting"
    /\ dom' = [dom EXCEPT ![h] = "gone"]
    /\ UNCHANGED <<jobVars, up, build, stateVars, servedVars>>

-----------------------------------------------------------------------------
(* BuildRouterSnapshot.                                                    *)

At(step) == run.pc = "busy" /\ run.key = router /\ build.step = step

ReadSources ==
    /\ At("none")
    /\ build' = [build EXCEPT !.step = "read", !.routes = Sources]
    /\ UNCHANGED <<jobVars, tableVars, stateVars, servedVars>>

\* Mutant: the last inserted row is skipped over.
NextVersionSkip == IF rver = 0 THEN 1 ELSE rver + 2

NextVersion == rver + 1

NumberSnapshot ==
    /\ At("read")
    /\ NextVersion \in Version
    /\ build' = [build EXCEPT !.step = "numbered", !.version = NextVersion]
    /\ UNCHANGED <<jobVars, tableVars, stateVars, servedVars>>

\* Two atomic writes: the versioned file, which nobody reads, and last-good.json.
WriteLastGood ==
    /\ At("numbered")
    /\ file' = [version |-> build.version, routes |-> build.routes]
    /\ changed' = TRUE
    /\ build' = [build EXCEPT !.step = "written"]
    /\ UNCHANGED <<jobVars, tableVars, stateVars, current, torn>>

SupersedeRows ==
    /\ At("written")
    /\ rows' = [v \in Version |-> IF rows[v] = "active" THEN "superseded" ELSE rows[v]]
    /\ build' = [build EXCEPT !.step = "superseded"]
    /\ UNCHANGED <<jobVars, tableVars, rver, servedVars>>

\* The version is the primary key: the INSERT fails when the row exists.
InsertRow ==
    /\ At("superseded")
    /\ rows[build.version] = "none"
    /\ rows' = [rows EXCEPT ![build.version] = "active"]
    /\ build' = [build EXCEPT !.step = "inserted"]
    /\ UNCHANGED <<jobVars, tableVars, rver, servedVars>>

SaveState ==
    /\ At("inserted")
    /\ rver' = build.version
    /\ build' = [build EXCEPT !.step = "saved", !.todo = build.routes.hosts]
    /\ UNCHANGED <<jobVars, tableVars, rows, servedVars>>

\* finalizeDomainRouterStates: UPDATE domain_bindings SET status=? WHERE id=?, for the
\* domains that were read, whatever their status is now.
FinalizeDomainState(h) ==
    /\ At("saved") /\ h \in build.todo
    /\ dom' = [dom EXCEPT ![h] = IF @ = "gone" THEN "gone" ELSE "bound"]
    /\ build' = [build EXCEPT !.todo = @ \ {h}]
    /\ UNCHANGED <<jobVars, up, stateVars, servedVars>>

Idle == [build EXCEPT !.step = "none", !.todo = {}]

BuildDone ==
    /\ At("saved") /\ build.todo = {}
    /\ Complete
    /\ build' = Idle
    /\ UNCHANGED <<tableVars, stateVars, servedVars>>

\* Between the write of last-good.json and the router_state row.
Publishing == build.step \in {"written", "superseded", "inserted"}

\* A statement or a write fails; the INSERT always does when the row exists.
BuildFails ==
    /\ run.key = router
    /\ Fail
    /\ build' = Idle /\ torn' = (torn \/ Publishing)
    /\ UNCHANGED <<tableVars, stateVars, file, changed, current>>

-----------------------------------------------------------------------------
(* The Router.                                                             *)

\* Mutant: the next version is taken for the current one.
LoadLater(snapshot) == IF current.version + 1 >= snapshot.version THEN current ELSE snapshot

\* Runtime.Load: only a newer version replaces the table.
Load(snapshot) == IF current.version >= snapshot.version THEN current ELSE snapshot

\* Watcher.reloadIfChanged; a refused file is not tried again until it changes.
Reload ==
    /\ run.pc # "down" /\ changed
    /\ current' = Load(file)
    /\ changed' = FALSE
    /\ UNCHANGED <<jobVars, tableVars, build, stateVars, file, torn>>

\* The process ends, and with it the Router's table.
CrashAll ==
    /\ Crash
    /\ build' = Idle /\ torn' = (torn \/ Publishing)
    /\ current' = NoSnapshot /\ changed' = (file # NoSnapshot)
    /\ UNCHANGED <<tableVars, stateVars, file>>

-----------------------------------------------------------------------------
JobStep ==
    /\ \/ Start \/ Enqueue(router) \/ Claim(router) \/ ComeDue(router) \/ Expire(router)
       \/ Heartbeat
    /\ UNCHANGED <<tableVars, build, stateVars, servedVars>>

BuildStep ==
    \/ ReadSources \/ NumberSnapshot \/ WriteLastGood \/ SupersedeRows \/ InsertRow
    \/ SaveState \/ BuildDone \/ BuildFails
    \/ \E h \in Host : FinalizeDomainState(h)

RouterNext ==
    \/ \E h \in Host : SetOnline(h) \/ DeleteDomain(h) \/ FinalizeDeletedDomain(h)
    \/ Rebuild \/ JobStep \/ BuildStep \/ Reload \/ CrashAll

RouterSpec == RouterInit /\ [][RouterNext]_routerVars

-----------------------------------------------------------------------------
(* Properties.                                                             *)

RouterTypeOK ==
    /\ JobsTypeOK
    /\ dom \in [Host -> {"bound", "deleting", "gone"}] /\ up \subseteq Host
    /\ build \in Build
    /\ rows \in [Version -> {"none", "active", "superseded"}] /\ rver \in Version \cup {0}
    /\ file \in Snapshot /\ current \in Snapshot /\ changed \in BOOLEAN
    /\ torn \in BOOLEAN

\* A build that ends anywhere leaves last-good.json and router_snapshots at most one
\* version ahead of router_state, and never behind it.
AtMostOneAhead ==
    /\ file.version \in {rver, rver + 1}
    /\ \A v \in Version : /\ v <= rver => rows[v] # "none"
                          /\ v > rver + 1 => rows[v] = "none"

\* Until a build has ended while it published, every version number stands for one table:
\* the Router serves what the last successful build has read, and not a table of the same
\* version.  Runtime.Load refuses a version it already has.
ReadIsServed ==
    ~torn /\ job[router].status = "succeeded" /\ run.pc = "idle" /\ ~changed =>
       current = [version |-> rver, routes |-> build.routes]

=============================================================================
