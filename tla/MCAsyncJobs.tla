----------------------------- MODULE MCAsyncJobs -----------------------------
(* Instances of AsyncJobs for TLC.  Two jobs on two ids (or on one, when an *)
(* id has to be used twice), one call of the job tool and one of the       *)
(* subagent tool.                                                          *)
EXTENDS AsyncJobs

(* The races under which the user's next prompt injects what is left, and  *)
(* that under which nothing else does.                                     *)
AttendedRaces == {"lateCompletion", "abort", "abortedFlush"}
StrandingRaces == {"lateCompletion"}
=============================================================================
