----------------------------- MODULE MCScheduler -----------------------------
(* Two schedules that share a firing; the first fires again; the
   file of --scan-config may be absent, harmless with a list of its own, edited
   to authenticated mode with OT probes and no list, or broken.  The server's
   list, when it is in force, has only the first target. *)
EXTENDS Scheduler

TwoCrons == <<{2, 4}, {2}>>
Harmless == [NoConfig EXCEPT !.given = TRUE, !.trusts = {1}]
Edited == [Harmless EXCEPT !.auth = TRUE, !.otics = TRUE, !.optIn = TRUE,
                            !.trusts = {1, 2}]
Broken == [Harmless EXCEPT !.readable = FALSE]
Configs == {NoConfig, Harmless, Edited, Broken}
=============================================================================
