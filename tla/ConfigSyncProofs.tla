-------------------------- MODULE ConfigSyncProofs --------------------------
(***************************************************************************)
(* Proofs about ConfigSync, for every value of its constants: it           *)
(* implements Mappings, and what a report may change is bounded by the     *)
(* configuration it is about.                                              *)
(***************************************************************************)
EXTENDS ConfigSync, MappingsProofs

-----------------------------------------------------------------------------
(* Every step of ConfigSync is a step of Mappings or leaves its tables     *)
(* alone.  One fact is needed of the state: the report being served is an  *)
(* account's.                                                              *)

LEMMA ClientStepStutters ==
    ASSUME NEW u \in User, NEW f \in Fetcher, ClientStep(u, f) PROVE UNCHANGED vars
BY DEF ClientStep, ReadVersion, ReadMappings, StoreSnapshot, AbandonFetch, CheckReport

LEMMA ReportStepRefines ==
    ASSUME SyncTypeOK, ReportStep PROVE [Next]_vars
<1>1. apply.user \in User
  BY DEF SyncTypeOK, Apply
<1>2. CASE ApplySucceeded
  BY <1>1, <1>2 DEF ApplySucceeded, Next
<1>3. CASE ApplyFailed
  BY <1>1, <1>3 DEF ApplyFailed, Next
<1>4. CASE SelectDeleted \/ FinishReport \/ InterruptReport
  BY <1>4 DEF SelectDeleted, FinishReport, InterruptReport
<1>5. ASSUME NEW m \in Mapping, FinalizeDeletedMapping(m) PROVE [Next]_vars
  BY <1>5 DEF FinalizeDeletedMapping, DeleteRow, Next
<1> QED  BY <1>2, <1>3, <1>4, <1>5 DEF ReportStep

LEMMA SyncStepRefines == SyncTypeOK /\ [SyncNext]_syncVars => [Next]_vars
<1> SUFFICES ASSUME SyncTypeOK, [SyncNext]_syncVars PROVE [Next]_vars
  OBVIOUS
<1>1. CASE UNCHANGED syncVars
  BY <1>1 DEF syncVars
<1>2. ASSUME NEW m \in Mapping, MappingRequest(m) PROVE [Next]_vars
  BY <1>2 DEF MappingRequest, Next
<1>3. ASSUME NEW u \in User, NEW f \in Fetcher, ClientStep(u, f) PROVE [Next]_vars
  BY <1>3, ClientStepStutters
<1>4. CASE ReportStep
  BY <1>4, ReportStepRefines
<1> QED  BY <1>1, <1>2, <1>3, <1>4 DEF SyncNext

-----------------------------------------------------------------------------
(* The inductive invariant.                                                *)

\* items is what the Client of u needs at the current version: it has every pending
\* revision of a mapping that is to run, and no mapping that is being deleted.
Faithful(u, items) ==
    /\ \A m \in MappingsOf(u) :
          pending[m] # NoRev /\ life[m] # "deleting" /\ want[m] # "disabled" =>
             <<m, pending[m]>> \in items
    /\ \A x \in items : Owner[x[1]] = u /\ life[x[1]] # "deleting"

\* A configuration that has been listed and whose version is still the desired one.
FetchesFaithful ==
    \A u \in User, f \in Fetcher :
       fetch[u][f].pc \in {"listed", "fetched"} /\ fetch[u][f].version = desired[u] =>
          Faithful(u, fetch[u][f].items)

ReportFaithful ==
    apply.pc # "idle" /\ apply.version = desired[apply.user] =>
       Faithful(apply.user, apply.items)

\* A report that has passed the checks is not older than what is recorded.
ReportNotOlder == apply.pc = "checked" => applied[apply.user] <= apply.version

SyncInv == /\ TypeOK /\ SyncTypeOK /\ VersionBounded
           /\ FetchesFaithful /\ ReportFaithful /\ ReportNotOlder

LEMMA NoFetchType == NoFetch \in Fetch
BY DEF NoFetch, Fetch, Items

LEMMA ConfigItemsType == ASSUME TypeOK, NEW u \in User PROVE ConfigItems(u) \in Items
<1>1. \A m \in Mapping : CurrentRev(m) \in RevNo \cup {NoRev}
  BY DEF TypeOK, CurrentRev
<1> QED  BY <1>1 DEF ConfigItems, MappingsOf, Items

LEMMA ServedType == ASSUME apply \in Apply PROVE Served \in Apply
BY DEF Served, NoReport, Apply, Items

LEMMA InitSync == SyncInit => SyncInv
<1> SUFFICES ASSUME SyncInit PROVE SyncInv
  OBVIOUS
<1>1. TypeOK
  BY InitType DEF SyncInit
<1>2. apply \in Apply /\ apply.pc = "idle" /\ apply.version = 0 /\ apply.user \in User
  BY DEF SyncInit, NoReport, Apply, Items
<1>3. SyncTypeOK
  BY <1>2, NoFetchType DEF SyncInit, SyncTypeOK
<1>4. \A u \in User, f \in Fetcher : fetch[u][f].pc = "idle" /\ fetch[u][f].version = 0
  BY DEF SyncInit, NoFetch
<1>5. \A u \in User : applied[u] = 0 /\ desired[u] = 0
  BY DEF SyncInit, Init
<1>6. VersionBounded
  BY <1>2, <1>4, <1>5 DEF VersionBounded
<1> QED  BY <1>1, <1>2, <1>3, <1>4, <1>6
            DEF SyncInv, FetchesFaithful, ReportFaithful, ReportNotOlder

-----------------------------------------------------------------------------
(* Types.                                                                  *)

LEMMA FetchType ==
    ASSUME SyncInv, NEW u \in User, NEW f \in Fetcher
    PROVE  /\ fetch[u][f] \in Fetch /\ fetch[u][f].version \in Nat
           /\ fetch[u][f].items \in Items
BY DEF SyncInv, SyncTypeOK, Fetch

LEMMA ApplyType ==
    ASSUME SyncInv
    PROVE  /\ apply \in Apply /\ apply.user \in User /\ apply.version \in Nat
           /\ apply.items \in Items
BY DEF SyncInv, SyncTypeOK, Apply

LEMMA ClientStepType ==
    ASSUME SyncInv, NEW u \in User, NEW f \in Fetcher, ClientStep(u, f)
    PROVE  SyncTypeOK'
<1>1. desired[u] \in Nat /\ ConfigItems(u) \in Items
  BY ConfigItemsType DEF SyncInv, TypeOK
<1>2. fetch \in [User -> [Fetcher -> Fetch]] /\ apply \in Apply /\ applied \in [User -> Nat]
  BY DEF SyncInv, SyncTypeOK
<1>3. CASE ReadVersion(u, f)
  <2>1. [fetch[u][f] EXCEPT !.pc = "reading", !.version = desired[u]] \in Fetch
    BY <1>1, FetchType DEF Fetch
  <2>2. fetch' = [fetch EXCEPT ![u] = [fetch[u] EXCEPT ![f] =
                     [fetch[u][f] EXCEPT !.pc = "reading", !.version = desired[u]]]]
    BY <1>2, <1>3 DEF ReadVersion, Fetch
  <2> QED  BY <1>2, <1>3, <2>1, <2>2 DEF ReadVersion, SyncTypeOK
<1>4. CASE ReadMappings(u, f)
  <2>1. [fetch[u][f] EXCEPT !.pc = "listed", !.items = ConfigItems(u)] \in Fetch
    BY <1>1, FetchType DEF Fetch
  <2>2. fetch' = [fetch EXCEPT ![u] = [fetch[u] EXCEPT ![f] =
                     [fetch[u][f] EXCEPT !.pc = "listed", !.items = ConfigItems(u)]]]
    BY <1>2, <1>4 DEF ReadMappings, Fetch
  <2>3. UNCHANGED <<applied, apply>>
    BY <1>4 DEF ReadMappings
  <2> QED  BY <1>2, <2>1, <2>2, <2>3 DEF SyncTypeOK
<1>5. CASE StoreSnapshot(u, f)
  <2>1. [g \in Fetcher |->
          IF g = f THEN [fetch[u][g] EXCEPT !.pc = "fetched", !.current = TRUE]
          ELSE [fetch[u][g] EXCEPT
                   !.current = @ /\ fetch[u][g].version # fetch[u][f].version]]
        \in [Fetcher -> Fetch]
    <3> SUFFICES ASSUME NEW g \in Fetcher
                 PROVE  /\ [fetch[u][g] EXCEPT !.pc = "fetched", !.current = TRUE] \in Fetch
                        /\ [fetch[u][g] EXCEPT !.current =
                               @ /\ fetch[u][g].version # fetch[u][f].version] \in Fetch
      OBVIOUS
    <3> QED  BY FetchType DEF Fetch
  <2> QED  BY <1>2, <1>5, <2>1 DEF StoreSnapshot, SyncTypeOK
<1>6. CASE AbandonFetch(u, f)
  BY <1>2, <1>6, NoFetchType DEF AbandonFetch, SyncTypeOK
<1>7. ASSUME NEW ok \in BOOLEAN, CheckReport(u, f, ok) PROVE SyncTypeOK'
  <2>1. [pc |-> "checked", user |-> u, version |-> fetch[u][f].version,
         ok |-> ok, items |-> fetch[u][f].items, doomed |-> {}] \in Apply
    BY FetchType DEF Apply
  <2> QED  BY <1>2, <1>7, <2>1, NoFetchType DEF CheckReport, SyncTypeOK
<1> QED  BY <1>3, <1>4, <1>5, <1>6, <1>7 DEF ClientStep

LEMMA ReportStepType == ASSUME SyncInv, ReportStep PROVE SyncTypeOK'
<1>1. fetch \in [User -> [Fetcher -> Fetch]] /\ apply \in Apply /\ applied \in [User -> Nat]
  BY DEF SyncInv, SyncTypeOK
<1>2. Served \in Apply
  BY <1>1, ServedType
<1>3. CASE ApplySucceeded
  <2>1. [apply EXCEPT !.pc = "committed"] \in Apply
    BY <1>1 DEF Apply
  <2> QED  BY <1>1, <1>3, <2>1, ApplyType DEF ApplySucceeded, SyncTypeOK
<1>4. CASE ApplyFailed \/ FinishReport \/ InterruptReport
  BY <1>1, <1>2, <1>4 DEF ApplyFailed, FinishReport, InterruptReport, SyncTypeOK
<1>5. CASE SelectDeleted
  <2>1. [apply EXCEPT !.pc = "deleting",
            !.doomed = {m \in MappingsOf(apply.user) : life[m] = "deleting"}] \in Apply
    BY <1>1 DEF Apply, MappingsOf
  <2> QED  BY <1>1, <1>5, <2>1 DEF SelectDeleted, SyncTypeOK
<1>6. ASSUME NEW m \in Mapping, FinalizeDeletedMapping(m) PROVE SyncTypeOK'
  <2>1. [apply EXCEPT !.doomed = @ \ {m}] \in Apply
    BY <1>1 DEF Apply
  <2> QED  BY <1>1, <1>6, <2>1 DEF FinalizeDeletedMapping, SyncTypeOK
<1> QED  BY <1>3, <1>4, <1>5, <1>6 DEF ReportStep

LEMMA SyncNextType == ASSUME SyncInv, [SyncNext]_syncVars PROVE TypeOK' /\ SyncTypeOK'
<1>1. TypeOK'
  BY SyncStepRefines, NextType DEF SyncInv
<1>2. CASE UNCHANGED syncVars
  <2>1. UNCHANGED <<applied, fetch, apply>>
    BY <1>2 DEF syncVars
  <2> QED  BY <1>1, <2>1 DEF SyncInv, SyncTypeOK
<1>3. ASSUME NEW m \in Mapping, MappingRequest(m) PROVE SyncTypeOK'
  BY <1>3 DEF MappingRequest, SyncInv, SyncTypeOK
<1> QED  BY <1>1, <1>2, <1>3, ClientStepType, ReportStepType DEF SyncNext

-----------------------------------------------------------------------------
(* What a step leaves of the tables, the fetches and the report.           *)

\* For the mappings of u: none is added, none starts or stops being deleted, and a
\* pending revision stays or is cleared.
TablesKept(u) ==
    \A n \in Mapping : Owner[n] = u =>
       /\ Exists(n)' => Exists(n) /\ (life'[n] = "deleting" <=> life[n] = "deleting")
       /\ want'[n] = want[n]
       /\ pending'[n] \in {pending[n], NoRev}

LEMMA RequestTables ==
    ASSUME TypeOK, NEW m \in Mapping, UserRequest(m), NEW u \in User
    PROVE  /\ desired'[u] >= desired[u]
           /\ desired'[u] = desired[u] => TablesKept(u)
<1>1. desired' = [desired EXCEPT ![Owner[m]] = @ + 1]
  BY DEF UserRequest, CreateMapping, UpdateMapping, DeleteMapping, ToggleMapping,
         BumpVersion
<1>2. \A n \in Mapping : n # m =>
         life'[n] = life[n] /\ want'[n] = want[n] /\ pending'[n] = pending[n]
  BY DEF UserRequest, CreateMapping, UpdateMapping, DeleteMapping, ToggleMapping, TypeOK
<1>3. desired[u] \in Nat /\ Owner[m] \in User
  BY UserAssumption DEF TypeOK
<1>4. desired'[u] = IF u = Owner[m] THEN desired[u] + 1 ELSE desired[u]
  BY <1>1, <1>3 DEF TypeOK
<1> QED  BY <1>2, <1>3, <1>4 DEF TablesKept, Exists

LEMMA OutcomeTables ==
    ASSUME TypeOK, NEW w \in User, ActivatePending(w) \/ FailPending(w), NEW u \in User
    PROVE  desired' = desired /\ TablesKept(u)
<1>1. desired' = desired /\ want' = want
  BY DEF ActivatePending, FailPending
<1>2. ASSUME NEW n \in Mapping
      PROVE  /\ Exists(n)' => Exists(n) /\ (life'[n] = "deleting" <=> life[n] = "deleting")
             /\ pending'[n] \in {pending[n], NoRev}
  <2>1. CASE ActivatePending(w)
    BY <2>1 DEF ActivatePending, ActivatedLife, MappingsOf, Exists
  <2>2. CASE FailPending(w)
    BY <2>2 DEF FailPending, MappingsOf, Exists
  <2> QED  BY <2>1, <2>2
<1> QED  BY <1>1, <1>2 DEF TablesKept

LEMMA PurgeTables ==
    ASSUME TypeOK, NEW m \in Mapping, PurgeMapping(m), NEW u \in User
    PROVE  desired' = desired /\ TablesKept(u)
BY DEF PurgeMapping, TablesKept, Exists, TypeOK

LEMMA StepTables ==
    ASSUME SyncInv, [SyncNext]_syncVars, NEW u \in User
    PROVE  /\ desired'[u] \in Nat /\ desired'[u] >= desired[u]
           /\ desired'[u] = desired[u] => TablesKept(u)
<1>1. TypeOK /\ desired[u] \in Nat /\ desired'[u] \in Nat
  BY SyncNextType DEF SyncInv, TypeOK
<1>2. [Next]_vars
  BY SyncStepRefines DEF SyncInv
<1>3. CASE UNCHANGED vars
  BY <1>1, <1>3 DEF vars, TablesKept, Exists
<1>4. CASE Next
  BY <1>1, <1>4, RequestTables, OutcomeTables, PurgeTables DEF Next
<1> QED  BY <1>1, <1>2, <1>3, <1>4

LEMMA KeptFaithful ==
    ASSUME NEW u \in User, TablesKept(u), NEW items \in Items, Faithful(u, items)
    PROVE  Faithful(u, items)'
<1>1. \A x \in items : x[1] \in Mapping
  BY DEF Items
<1>2. \A x \in items : Owner[x[1]] = u /\ life'[x[1]] # "deleting"
  BY <1>1 DEF Faithful, TablesKept, Exists
<1>3. \A n \in Mapping : Owner[n] = u /\ Exists(n)' /\ pending'[n] # NoRev
                          /\ life'[n] # "deleting" /\ want'[n] # "disabled" =>
                             <<n, pending'[n]>> \in items
  BY DEF Faithful, TablesKept, MappingsOf
<1> QED  BY <1>2, <1>3 DEF Faithful, MappingsOf

\* Where the items of a configuration come from: they were there before, or are being
\* listed.
LEMMA FetchSteps ==
    ASSUME SyncInv, [SyncNext]_syncVars, NEW u \in User, NEW f \in Fetcher
    PROVE  /\ \/ fetch'[u][f].version = fetch[u][f].version
              \/ fetch'[u][f].version \in {0, desired[u]}
           /\ fetch'[u][f].pc \in {"listed", "fetched"} =>
                 /\ fetch'[u][f].version = fetch[u][f].version
                 /\ \/ /\ fetch[u][f].pc \in {"listed", "fetched"}
                       /\ fetch'[u][f].items = fetch[u][f].items
                    \/ fetch'[u][f].items = ConfigItems(u) /\ UNCHANGED vars
<1>1. fetch \in [User -> [Fetcher -> Fetch]]
  BY DEF SyncInv, SyncTypeOK
<1>2. CASE fetch' = fetch
  BY <1>2
<1>3. ASSUME NEW v \in User, NEW g \in Fetcher, ClientStep(v, g)
      PROVE  /\ \/ fetch'[u][f].version = fetch[u][f].version
                \/ fetch'[u][f].version \in {0, desired[u]}
             /\ fetch'[u][f].pc \in {"listed", "fetched"} =>
                   /\ fetch'[u][f].version = fetch[u][f].version
                   /\ \/ /\ fetch[u][f].pc \in {"listed", "fetched"}
                         /\ fetch'[u][f].items = fetch[u][f].items
                      \/ fetch'[u][f].items = ConfigItems(u) /\ UNCHANGED vars
  <2>1. UNCHANGED vars
    BY <1>3, ClientStepStutters
  <2>2. CASE ReadVersion(v, g)
    BY <1>1, <2>2 DEF ReadVersion, Fetch
  <2>3. CASE ReadMappings(v, g)
    BY <1>1, <2>1, <2>3 DEF ReadMappings, Fetch
  <2>4. CASE StoreSnapshot(v, g)
    <3>1. CASE u # v
      BY <1>1, <2>4, <3>1 DEF StoreSnapshot
    <3>2. CASE u = v
      <4>1. fetch'[u][f] =
               IF f = g THEN [fetch[u][f] EXCEPT !.pc = "fetched", !.current = TRUE]
               ELSE [fetch[u][f] EXCEPT
                        !.current = @ /\ fetch[u][f].version # fetch[u][g].version]
        BY <1>1, <2>4, <3>2 DEF StoreSnapshot
      <4>2. fetch[u][f] \in Fetch /\ fetch[u][g].pc = "listed"
        BY <1>1, <2>4, <3>2 DEF StoreSnapshot
      <4>3. /\ fetch'[u][f].version = fetch[u][f].version
            /\ fetch'[u][f].items = fetch[u][f].items
            /\ f # g => fetch'[u][f].pc = fetch[u][f].pc
        BY <4>1, <4>2 DEF Fetch
      <4> QED  BY <4>2, <4>3
    <3> QED  BY <3>1, <3>2
  <2>5. CASE AbandonFetch(v, g) \/ \E ok \in BOOLEAN : CheckReport(v, g, ok)
    <3>1. fetch' = [fetch EXCEPT ![v][g] = NoFetch]
      BY <2>5 DEF AbandonFetch, CheckReport
    <3>2. CASE u = v /\ f = g
      <4>1. fetch'[u][f] = NoFetch
        BY <1>1, <3>1, <3>2
      <4> QED  BY <4>1 DEF NoFetch
    <3>3. CASE ~(u = v /\ f = g)
      BY <1>1, <3>1, <3>3
    <3> QED  BY <3>2, <3>3
  <2> QED  BY <1>3, <2>2, <2>3, <2>4, <2>5 DEF ClientStep
<1>4. [SyncNext]_syncVars =>
         \/ \E v \in User, g \in Fetcher : ClientStep(v, g)
         \/ fetch' = fetch
  BY DEF SyncNext, MappingRequest, ReportStep, ApplySucceeded, ApplyFailed, SelectDeleted,
         FinalizeDeletedMapping, FinishReport, InterruptReport, syncVars
<1> QED  BY <1>2, <1>3, <1>4

\* A report being served stays the one it is, or is one just checked, or ends.
LEMMA ReportSteps ==
    ASSUME SyncInv, [SyncNext]_syncVars
    PROVE  \/ /\ apply'.user = apply.user /\ apply'.version = apply.version
              /\ apply'.items = apply.items
              /\ (apply'.pc = apply.pc /\ applied' = applied) \/ apply'.pc # "checked"
              /\ apply'.pc # "idle" => apply.pc # "idle"
           \/ \E u \in User, f \in Fetcher :
                 /\ fetch[u][f].pc = "fetched" /\ fetch[u][f].version = desired[u]
                 /\ apply'.user = u /\ apply'.version = desired[u]
                 /\ apply'.items = fetch[u][f].items
                 /\ UNCHANGED vars /\ applied' = applied
           \/ apply'.pc = "idle" /\ apply'.user = apply.user /\ apply'.version = 0
<1>1. apply \in Apply
  BY DEF SyncInv, SyncTypeOK
<1>2. CASE apply' = apply /\ applied' = applied
  BY <1>2
<1>3. ASSUME NEW u \in User, NEW f \in Fetcher, NEW ok \in BOOLEAN, CheckReport(u, f, ok)
      PROVE  /\ fetch[u][f].pc = "fetched" /\ fetch[u][f].version = desired[u]
             /\ apply'.user = u /\ apply'.version = desired[u]
             /\ apply'.items = fetch[u][f].items
             /\ UNCHANGED vars /\ applied' = applied
  BY <1>3 DEF CheckReport, ReportAccepted
<1>4. CASE ApplySucceeded
  BY <1>1, <1>4 DEF ApplySucceeded, Apply
<1>5. CASE SelectDeleted
  BY <1>1, <1>5 DEF SelectDeleted, Apply
<1>6. ASSUME NEW m \in Mapping, FinalizeDeletedMapping(m)
      PROVE  /\ apply'.user = apply.user /\ apply'.version = apply.version
             /\ apply'.items = apply.items /\ apply'.pc = apply.pc /\ applied' = applied
  BY <1>1, <1>6 DEF FinalizeDeletedMapping, Apply
<1>7. CASE ApplyFailed \/ FinishReport \/ InterruptReport
  <2>1. apply' = Served
    BY <1>7 DEF ApplyFailed, FinishReport, InterruptReport
  <2> QED  BY <2>1 DEF Served, NoReport
<1>8. [SyncNext]_syncVars =>
         \/ apply' = apply /\ applied' = applied
         \/ \E u \in User, f \in Fetcher, ok \in BOOLEAN : CheckReport(u, f, ok)
         \/ ReportStep
  BY DEF SyncNext, MappingRequest, ClientStep, ReadVersion, ReadMappings, StoreSnapshot,
         AbandonFetch, syncVars
<1> QED  BY <1>2, <1>3, <1>4, <1>5, <1>6, <1>7, <1>8 DEF ReportStep

LEMMA AppliedSteps ==
    ASSUME SyncInv, [SyncNext]_syncVars, NEW u \in User
    PROVE  \/ applied'[u] = applied[u]
           \/ apply.pc = "checked" /\ apply.user = u /\ applied'[u] = apply.version
<1>1. applied \in [User -> Nat]
  BY DEF SyncInv, SyncTypeOK
<1>2. [SyncNext]_syncVars => applied' = applied \/ ApplySucceeded
  BY DEF SyncNext, MappingRequest, ClientStep, ReadVersion, ReadMappings, StoreSnapshot,
         AbandonFetch, CheckReport, ReportStep, ApplyFailed, SelectDeleted,
         FinalizeDeletedMapping, FinishReport, InterruptReport, syncVars
<1> QED  BY <1>1, <1>2 DEF ApplySucceeded

-----------------------------------------------------------------------------
(* The invariant is inductive.                                             *)

LEMMA NextVersionBounded ==
    ASSUME SyncInv, [SyncNext]_syncVars PROVE VersionBounded' /\ ReportNotOlder'
<1>1. SyncTypeOK' /\ TypeOK'
  BY SyncNextType
<1>2. \A u \in User : /\ desired[u] \in Nat /\ desired'[u] \in Nat
                      /\ desired'[u] >= desired[u]
                      /\ applied[u] \in Nat /\ applied'[u] \in Nat
                      /\ applied[u] <= desired[u]
  BY <1>1, StepTables DEF SyncInv, TypeOK, SyncTypeOK, VersionBounded
<1>3. apply.user \in User /\ apply.version \in Nat /\ apply.version <= desired[apply.user]
  BY ApplyType DEF SyncInv, VersionBounded
<1>4. \A u \in User : applied'[u] <= desired'[u]
  BY <1>2, <1>3, AppliedSteps
<1>5. ASSUME NEW u \in User, NEW f \in Fetcher PROVE fetch'[u][f].version <= desired'[u]
  <2>1. fetch[u][f].version \in Nat /\ fetch[u][f].version <= desired[u]
    BY FetchType DEF SyncInv, VersionBounded
  <2>2. fetch'[u][f].version \in {fetch[u][f].version, 0, desired[u]}
    BY FetchSteps
  <2> QED  BY <2>1, <2>2, <1>2
<1>6. apply'.version <= desired'[apply'.user]
  BY <1>2, <1>3, ReportSteps
<1>7. ReportNotOlder'
  <2> SUFFICES ASSUME apply'.pc = "checked" PROVE applied'[apply'.user] <= apply'.version
    BY DEF ReportNotOlder
  <2> QED  BY <1>2, <1>3, ReportSteps DEF SyncInv, ReportNotOlder
<1> QED  BY <1>4, <1>5, <1>6, <1>7 DEF VersionBounded

LEMMA ListedFaithful == ASSUME TypeOK, NEW u \in User PROVE Faithful(u, ConfigItems(u))
BY DEF Faithful, ConfigItems, CurrentRev, MappingsOf

LEMMA NextFetchesFaithful ==
    ASSUME SyncInv, [SyncNext]_syncVars PROVE FetchesFaithful'
<1> SUFFICES ASSUME NEW u \in User, NEW f \in Fetcher,
                    fetch'[u][f].pc \in {"listed", "fetched"},
                    fetch'[u][f].version = desired'[u]
             PROVE  Faithful(u, fetch[u][f].items)'
  BY DEF FetchesFaithful
<1>1. /\ fetch[u][f].version = fetch'[u][f].version
      /\ fetch[u][f].version \in Nat /\ fetch[u][f].version <= desired[u]
      /\ desired[u] \in Nat /\ desired'[u] \in Nat /\ desired'[u] >= desired[u]
  BY FetchSteps, FetchType, StepTables DEF SyncInv, VersionBounded, TypeOK
<1>2. desired'[u] = desired[u] /\ TablesKept(u)
  BY <1>1, StepTables
<1>3. CASE /\ fetch[u][f].pc \in {"listed", "fetched"}
           /\ fetch'[u][f].items = fetch[u][f].items
  <2>1. Faithful(u, fetch[u][f].items) /\ fetch[u][f].items \in Items
    BY <1>1, <1>2, <1>3, FetchType DEF SyncInv, FetchesFaithful
  <2>2. PICK items \in Items : items = fetch[u][f].items
    BY <2>1
  <2>3. Faithful(u, items)'
    BY <1>2, <2>1, <2>2, KeptFaithful
  <2> QED  BY <1>3, <2>2, <2>3 DEF Faithful
<1>4. CASE fetch'[u][f].items = ConfigItems(u) /\ UNCHANGED vars
  <2>1. Faithful(u, ConfigItems(u))
    BY ListedFaithful DEF SyncInv
  <2>2. UNCHANGED <<life, want, pending>>
    BY <1>4 DEF vars
  <2> QED  BY <1>4, <2>1, <2>2 DEF Faithful, MappingsOf, Exists
<1> QED  BY <1>3, <1>4, FetchSteps

LEMMA NextReportFaithful ==
    ASSUME SyncInv, [SyncNext]_syncVars PROVE ReportFaithful'
<1> SUFFICES ASSUME apply'.pc # "idle", apply'.version = desired'[apply'.user]
             PROVE  Faithful(apply.user, apply.items)'
  BY DEF ReportFaithful
<1>1. CASE /\ apply'.user = apply.user /\ apply'.version = apply.version
           /\ apply'.items = apply.items /\ apply.pc # "idle"
  <2>1. apply.user \in User /\ apply.version \in Nat /\ apply.items \in Items
    BY ApplyType
  <2>2. /\ apply.version <= desired[apply.user] /\ desired[apply.user] \in Nat
        /\ desired'[apply.user] \in Nat /\ desired'[apply.user] >= desired[apply.user]
    BY <2>1, StepTables DEF SyncInv, VersionBounded, TypeOK
  <2>3. apply.version = desired[apply.user] /\ TablesKept(apply.user)
    BY <1>1, <2>1, <2>2, StepTables
  <2>4. Faithful(apply.user, apply.items)
    BY <1>1, <2>3 DEF SyncInv, ReportFaithful
  <2>5. PICK u \in User, items \in Items : u = apply.user /\ items = apply.items
    BY <2>1
  <2>6. Faithful(u, items)'
    BY <2>3, <2>4, <2>5, KeptFaithful
  <2> QED  BY <1>1, <2>5, <2>6 DEF Faithful
<1>2. ASSUME NEW u \in User, NEW f \in Fetcher,
             fetch[u][f].pc = "fetched", fetch[u][f].version = desired[u],
             apply'.user = u, apply'.items = fetch[u][f].items, UNCHANGED vars
      PROVE  Faithful(apply.user, apply.items)'
  <2>1. Faithful(u, fetch[u][f].items)
    BY <1>2 DEF SyncInv, FetchesFaithful
  <2>2. UNCHANGED <<life, want, pending>>
    BY <1>2 DEF vars
  <2> QED  BY <1>2, <2>1, <2>2 DEF Faithful, MappingsOf, Exists
<1> QED  BY <1>1, <1>2, ReportSteps

LEMMA NextSync == SyncInv /\ [SyncNext]_syncVars => SyncInv'
BY SyncNextType, NextVersionBounded, NextFetchesFaithful, NextReportFaithful DEF SyncInv

-----------------------------------------------------------------------------
(* What a report may change.                                               *)

\* A mapping changes to another active revision only when a success is recorded.
LEMMA ActivatingStep ==
    ASSUME SyncInv, [SyncNext]_syncVars, NEW m \in Mapping,
           active'[m] # active[m], life'[m] = "running"
    PROVE  ApplySucceeded
<1>1. CASE UNCHANGED vars
  BY <1>1 DEF vars
<1>2. ASSUME NEW n \in Mapping, UserRequest(n) PROVE active' = active
  BY <1>2 DEF UserRequest, CreateMapping, UpdateMapping, DeleteMapping, ToggleMapping
<1>3. ASSUME NEW n \in Mapping, PurgeMapping(n) PROVE FALSE
  BY <1>3 DEF PurgeMapping, SyncInv, TypeOK
<1>4. CASE ApplyFailed
  BY <1>4 DEF ApplyFailed, FailPending
<1>5. CASE SelectDeleted \/ FinishReport \/ InterruptReport
  BY <1>1, <1>5 DEF SelectDeleted, FinishReport, InterruptReport
<1>6. ASSUME NEW n \in Mapping, FinalizeDeletedMapping(n) PROVE FALSE
  BY <1>1, <1>3, <1>6 DEF FinalizeDeletedMapping, DeleteRow, vars
<1>7. CASE UNCHANGED syncVars
  BY <1>1, <1>7 DEF syncVars
<1>8. ASSUME NEW n \in Mapping, MappingRequest(n) PROVE FALSE
  BY <1>2, <1>8 DEF MappingRequest
<1>9. ASSUME NEW u \in User, NEW f \in Fetcher, ClientStep(u, f) PROVE ApplySucceeded
  BY <1>1, <1>9, ClientStepStutters
<1> QED  BY <1>4, <1>5, <1>6, <1>7, <1>8, <1>9 DEF SyncNext, ReportStep

LEMMA ActivatedStep ==
    ASSUME SyncInv, [SyncNext]_syncVars, NEW m \in Mapping, Undisturbed(Owner[m]),
           active'[m] # active[m], life'[m] = "running"
    PROVE  <<m, active'[m]>> \in apply.items
<1>1. ApplySucceeded
  BY ActivatingStep
<1>2. /\ apply.pc = "checked" /\ apply.user = Owner[m]
      /\ active'[m] = Activated(Owner[m], m) /\ life'[m] = ActivatedLife(Owner[m], m)
  BY <1>1 DEF ApplySucceeded, ActivatePending, Undisturbed
<1>3. m \in MappingsOf(Owner[m]) /\ pending[m] # NoRev /\ active'[m] = pending[m]
  BY <1>2 DEF Activated, CurrentRev
<1>4. life[m] # "deleting" /\ want[m] # "disabled"
  BY <1>2, <1>3 DEF ActivatedLife
<1>5. Faithful(Owner[m], apply.items)
  BY <1>2 DEF SyncInv, ReportFaithful, Undisturbed
<1> QED  BY <1>3, <1>4, <1>5 DEF Faithful

LEMMA PurgedStep ==
    ASSUME SyncInv, [SyncNext]_syncVars, NEW m \in Mapping, Undisturbed(Owner[m]),
           life[m] = "deleting", life'[m] = "purged", NEW x \in apply.items
    PROVE  x[1] # m
<1>1. apply.pc # "idle"
  <2>1. ASSUME UNCHANGED vars PROVE FALSE
    BY <2>1 DEF vars
  <2>2. ASSUME NEW n \in Mapping, MappingRequest(n) PROVE FALSE
    BY <2>2 DEF MappingRequest, UserRequest, CreateMapping, UpdateMapping, DeleteMapping,
                ToggleMapping, SyncInv, TypeOK
  <2>3. ASSUME NEW u \in User, NEW f \in Fetcher, ClientStep(u, f) PROVE FALSE
    BY <2>1, <2>3, ClientStepStutters
  <2>4. CASE ReportStep
    BY <2>4 DEF ReportStep, ApplySucceeded, ApplyFailed, SelectDeleted,
                FinalizeDeletedMapping, FinishReport, InterruptReport
  <2> QED  BY <2>1, <2>2, <2>3, <2>4 DEF SyncNext, syncVars
<1>2. Faithful(Owner[m], apply.items)
  BY <1>1 DEF SyncInv, ReportFaithful, Undisturbed
<1> QED  BY <1>2 DEF Faithful

-----------------------------------------------------------------------------
(* Theorems.                                                               *)

LEMMA SyncInvariant == SyncSpec => []SyncInv
BY InitSync, NextSync, PTL DEF SyncSpec

\* Whatever a fetch has read and a report claims, it is about mappings that have ids,
\* revisions in range and an account that exists: no interleaving leaves the server with a
\* half-filled fetch or report.
THEOREM SyncTyped == SyncSpec => []SyncTypeOK
<1>1. SyncInv => SyncTypeOK
  BY DEF SyncInv
<1> QED  BY <1>1, SyncInvariant, PTL

\* However fetches, reports, crashes and requests interleave, the tables go through the
\* transactions of Mappings: what is proved of Mappings holds of the whole protocol.
THEOREM SyncImplementsMappings == SyncSpec => Spec
<1>1. SyncInit => Init
  BY DEF SyncInit
<1>2. SyncInv => SyncTypeOK
  BY DEF SyncInv
<1> QED  BY <1>1, <1>2, SyncInvariant, SyncStepRefines, PTL DEF SyncSpec, Spec

\* However fetches, reports and requests interleave, no two mappings have one remote port, as long
\* as no edit submits again the port that is already pending. That condition is an assumption about
\* requests: UpdateMapping (service.go 780-804) does not refuse such an edit, and MappingsReedit.cfg
\* shows how exclusivity is lost then.
THEOREM SyncPortsExclusive == ASSUME ~ReeditPendingPort PROVE SyncSpec => []PortExclusive
BY SyncImplementsMappings, PortsExclusive, PTL

\* No fetch, report or record is ahead of desired_config_version.
THEOREM VersionsBounded == SyncSpec => []VersionBounded
<1>1. SyncInv => VersionBounded
  BY DEF SyncInv
<1> QED  BY <1>1, SyncInvariant, PTL

\* A late report never moves applied_config_version back.
THEOREM AppliedOnlyAdvances == SyncSpec => AppliedAdvances
<1>1. SyncInv /\ [SyncNext]_syncVars => [\A u \in User : applied'[u] >= applied[u]]_syncVars
  <2> SUFFICES ASSUME SyncInv, [SyncNext]_syncVars, NEW u \in User
               PROVE  applied'[u] >= applied[u]
    OBVIOUS
  <2>1. applied[u] \in Nat
    BY DEF SyncInv, SyncTypeOK
  <2> QED  BY <2>1, AppliedSteps, ApplyType DEF SyncInv, ReportNotOlder
<1> QED  BY <1>1, SyncInvariant, PTL DEF SyncSpec, AppliedAdvances

\* An undisturbed success activates only revisions of the configuration it reports.
THEOREM ActivationServed == SyncSpec => ActivatedWasServed
<1>1. SyncInv /\ [SyncNext]_syncVars =>
         [\A m \in Mapping :
             Undisturbed(Owner[m]) /\ active'[m] # active[m] /\ life'[m] = "running" =>
                <<m, active'[m]>> \in apply.items]_syncVars
  BY ActivatedStep
<1> QED  BY <1>1, SyncInvariant, PTL DEF SyncSpec, ActivatedWasServed

\* An undisturbed report deletes only mappings its configuration does not have.
THEOREM DeletionServed == SyncSpec => PurgedWasDropped
<1>1. SyncInv /\ [SyncNext]_syncVars =>
         [\A m \in Mapping :
             Undisturbed(Owner[m]) /\ life[m] = "deleting" /\ life'[m] = "purged" =>
                \A x \in apply.items : x[1] # m]_syncVars
  BY PurgedStep
<1> QED  BY <1>1, SyncInvariant, PTL DEF SyncSpec, PurgedWasDropped

=============================================================================
