---------------------------- MODULE ResumeQueue ---------------------------
(***************************************************************************)
(* The resume job of one thread in the BullMQ queue that                   *)
(* ThreadResumeQueueService drives. Every job of a thread has the same id, *)
(* so the queue holds at most one of them, in one of these states:         *)
(*   delayed    scheduled for later, also between two attempts (backoff)   *)
(*   wait       due, to be taken by a worker                               *)
(*   active     locked by the worker that runs processJob                  *)
(*   completed  retained by removeOnComplete: 100                          *)
(*   failed     retained by removeOnFail: 50                               *)
(* `att` counts the attempts that failed.                                  *)
(***************************************************************************)
EXTENDS Naturals

CONSTANT MaxAttempts        \* defaultJobOptions.attempts

ASSUME MaxAttemptsAssumption == MaxAttempts \in Nat \ {0}

JobStates == {"none", "delayed", "wait", "active", "completed", "failed"}
Job       == [st : JobStates, att : 0 .. MaxAttempts]
NoJob     == [st |-> "none", att |-> 0]

Exists(j)   == j.st # "none"                       \* hasJob: any state
Live(j)     == j.st \in {"delayed", "wait", "active"}
Retained(j) == j.st \in {"completed", "failed"}

\* mutant: an active job is removed like any other
RemoveAnyJob(j) == NoJob

\* job.remove() rejects on a job its worker holds the lock of
RemoveJob(j) == IF j.st = "active" THEN j ELSE NoJob

\* queue.add with the id of a job the queue still holds adds nothing
AddJob(j, delay) ==
  IF Exists(j) THEN j
  ELSE [st |-> IF delay = 0 THEN "wait" ELSE "delayed", att |-> 0]

TakeJob(j)     == [j EXCEPT !.st = "active"]
CompleteJob(j) == [j EXCEPT !.st = "completed"]

\* mutant: attemptsMade > attempts
FinalFailureOffByOne(j) == j.att >= MaxAttempts

\* handleJobFailed: attemptsMade >= attempts
FinalFailure(j) == j.att + 1 >= MaxAttempts
FailJob(j) == [st |-> IF FinalFailure(j) THEN "failed" ELSE "delayed", att |-> j.att + 1]
===========================================================================
