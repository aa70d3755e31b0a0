------------------------------ MODULE ServerMC ------------------------------
(***************************************************************************)
(* Components of the agent's server and of the Editor plugin that share no *)
(* state, on small instances and side by side: every behaviour exercises   *)
(* one of them, `part`, and leaves the others as they start.               *)
(***************************************************************************)
EXTENDS OperationLifecycle, BatchScan, SourceControl, Snapshots, PatchCommits,
        GraphPatch, GraphIdempotency, LayoutBroker, ProjectMemory

VARIABLE part

graphSide == <<graphVars, idempotencyVars, brokerVars, memoryVars>>

ServerInit ==
  /\ part \in {"lifecycle", "scan", "source control", "snapshots", "patch",
               "graph", "idempotency", "broker", "memory"}
  /\ LifecycleInit
  /\ ScanInit /\ worldId = NoTask.worldId  \* identifiers are interchangeable
  /\ part # "scan" => \A l \in Levels : slots[l] = <<>>
  /\ ScInit /\ (part # "source control" => client.edited = {})
  /\ SnapshotInit
  /\ PatchInit
  /\ GraphInit
  /\ IdempotencyInit
  /\ BrokerInit
  /\ MemoryInit

ServerNext ==
  /\ UNCHANGED part
  /\ \/ part = "lifecycle" /\ LifecycleNext
        /\ UNCHANGED <<vars, scvars, snapshotVars, patchVars, graphSide>>
     \/ part = "scan" /\ ScanNext
        /\ UNCHANGED <<history, scvars, snapshotVars, patchVars, graphSide>>
     \/ part = "source control" /\ ScNext
        /\ UNCHANGED <<history, vars, snapshotVars, patchVars, graphSide>>
     \/ part = "snapshots" /\ SnapshotNext
        /\ UNCHANGED <<history, vars, scvars, patchVars, graphSide>>
     \/ part = "patch" /\ PatchNext
        /\ UNCHANGED <<history, vars, scvars, snapshotVars, graphSide>>
     \/ part = "graph" /\ GraphNext
        /\ UNCHANGED <<history, vars, scvars, snapshotVars, patchVars, idempotencyVars, brokerVars, memoryVars>>
     \/ part = "idempotency" /\ IdempotencyNext
        /\ UNCHANGED <<history, vars, scvars, snapshotVars, patchVars, graphVars, brokerVars, memoryVars>>
     \/ part = "broker" /\ BrokerNext
        /\ UNCHANGED <<history, vars, scvars, snapshotVars, patchVars, graphVars, idempotencyVars, memoryVars>>
     \/ part = "memory" /\ MemoryNext
        /\ UNCHANGED <<history, vars, scvars, snapshotVars, patchVars, graphVars, idempotencyVars, brokerVars>>

ServerSpec ==
  /\ ServerInit
  /\ [][ServerNext]_<<part, history, vars, scvars, snapshotVars, patchVars, graphSide>>
  /\ WF_vars(part = "scan" /\ Tick)

\* Every variable of the component at work stays in its type.
ServerTypeOK ==
  /\ part = "lifecycle" => LifecycleTypeOK
  /\ part = "scan" => ScanTypeOK
  /\ part = "source control" => ScTypeOK
  /\ part = "snapshots" => SnapshotTypeOK
  /\ part = "patch" => PatchTypeOK
  /\ part = "graph" => GraphTypeOK
  /\ part = "idempotency" => IdempotencyTypeOK
  /\ part = "broker" => BrokerTypeOK
  /\ part = "memory" => MemoryTypeOK
=============================================================================
