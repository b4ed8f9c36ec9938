----------------------------- MODULE MCStartup ------------------------------
(***************************************************************************)
(* Model-checking instance of Startup: nothing of another user, the queue  *)
(* of src/RESULTS/connmgr.txt, or the semaphore the engine waits for.      *)
(***************************************************************************)
EXTENDS Startup

MCForeignSets == {{}, {"METOCM"}, {"SEMKEY3"}}
=============================================================================
