----------------------------- MODULE Operations -----------------------------
(***************************************************************************)
(* Six components that share nothing, side by side: the goal runner and    *)
(* the file worker on the operators' machines, and in the application the  *)
(* queue worker, the strategy desk, the account connections and one call   *)
(* of a publisher adapter.                                                 *)
(***************************************************************************)
EXTENDS GoalRunner, FileWorker, QueueWorker, StrategyDesk, Connections, PublisherAdapters

OperationsSpec ==
  /\ RunnerSpec /\ FileWorkerSpec /\ QueueSpec
  /\ DeskSpec /\ ConnectionsSpec /\ AdapterSpec

\* The files, rows and requests of the six components are what their modules say.
OperationsTypeOK ==
  /\ RunnerTypeOK /\ FileWorkerTypeOK /\ QueueTypeOK
  /\ DeskTypeOK /\ ConnectionsTypeOK /\ AdapterTypeOK
=============================================================================
