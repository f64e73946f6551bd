------------------------------- MODULE MCJobs -------------------------------
(* An instance of ScanJobs for TLC in which every write may fail. *)
EXTENDS ScanJobs

VARIABLE lossy   \* a poll or the sweep failed to write what it had found

mcVars == <<jobsVars, lossy>>

Loses == (\E t \in Threads : Doing(t, "reaped") /\ HandlerFails(t)) \/ SweepFails

MCInit == JobsInit /\ lossy = FALSE
MCNext == JobsNext /\ lossy' = (lossy \/ Loses)
MCSpec == MCInit /\ [][MCNext]_mcVars /\ JobsFairness

(* `otherwise leaves the UI polling running forever. This reconciles such
   rows live, on the next status poll': no row stays running for good, whatever
   dies, restarts or fails on the way, unless the very write that would settle
   a row fails (_reconcile_if_dead, _recover_stale_jobs). *)
JobIsSettled == \A j \in Jobs : status[j] = "running" ~> (status[j] # "running" \/ lossy)
=============================================================================
