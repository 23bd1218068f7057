----------------------------- MODULE MCThreadPool ------------------------------
(***************************************************************************)
(* Instances of ThreadPool for TLC: the constants are model values, see    *)
(* the .cfg files.  Tasks bounds how many tasks are ever enqueued.         *)
(***************************************************************************)
EXTENDS ThreadPool
================================================================================
