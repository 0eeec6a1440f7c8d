-------------------------- MODULE MCSupervisedRun --------------------------
(* SupervisedRun as its backends configure it.                             *)
EXTENDS SupervisedRun
============================================================================
