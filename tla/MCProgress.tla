---------------------------- MODULE MCProgress -----------------------------
(***************************************************************************)
(* The components that must get somewhere - the job runner, the device's      *)
(* token, the catalogue and the manifest -, which share no state, side by      *)
(* side for TLC: in a behaviour one of them runs, and the others stay as they  *)
(* begin.                                                                   *)
(***************************************************************************)
EXTENDS JobRunner, DeviceToken, CatalogSync, ManifestFlow

VARIABLE part   \* the component that runs

parts == <<jobVars, tokenVars, catalogVars, manifestVars, part>>

ProgressInit ==
  /\ part \in {"jobs", "token", "catalog", "manifest"}
  /\ JobInit
  /\ TokenInit
  /\ CatalogInit
  /\ ManifestInit

ProgressNext ==
  /\ UNCHANGED part
  /\ \/ /\ part = "jobs" /\ JobNext
        /\ UNCHANGED <<tokenVars, catalogVars, manifestVars>>
     \/ /\ part = "token" /\ TokenNext
        /\ UNCHANGED <<jobVars, catalogVars, manifestVars>>
     \/ /\ part = "catalog" /\ CatalogNext
        /\ UNCHANGED <<jobVars, tokenVars, manifestVars>>
     \/ /\ part = "manifest" /\ ManifestNext
        /\ UNCHANGED <<jobVars, tokenVars, catalogVars>>

\* The fairness of the components, each while it is the one that runs.
ProgressFairness ==
  /\ \A n \in Runs : WF_jobVars(part = "jobs" /\ RunStep(n))
  /\ \A r \in Requests : WF_tokenVars(part = "token" /\ RequestStep(r))
  /\ WF_catalogVars(part = "catalog" /\ CatalogStep)
  /\ SF_catalogVars(part = "catalog" /\ SyncBegins("incremental"))
  /\ WF_manifestVars(part = "manifest" /\ ExportIndex)
  /\ WF_manifestVars(part = "manifest" /\ ImportStep)

ProgressSpec == ProgressInit /\ [][ProgressNext]_parts /\ ProgressFairness

\* Every variable of every component has its type.
ProgressTypeOK == JobTypeOK /\ TokenTypeOK /\ CatalogTypeOK /\ ManifestTypeOK
=============================================================================
