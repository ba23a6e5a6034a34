----------------------------- MODULE Scheduler -----------------------------
(***************************************************************************)
(* schedule_job (python/urp/scheduler.py): whether a flexible job runs now *)
(* or is shifted.  Times in seconds, the carbon signal in percent.         *)
(***************************************************************************)
EXTENDS Integers

CONSTANTS None, Invalid

Longer(a, b) == IF a >= b THEN a ELSE b

(* FlexibleJob.__post_init__; a tenant, a kind and a region are given.     *)
ValidJob(job) ==
  /\ job.deadline = None \/ job.deadline >= 0
  /\ job.runtime >= 0
  /\ job.carbon = None \/ (0 <= job.carbon /\ job.carbon <= 100)

HasDeadline(job) == job.deadline # None

LongestShift == 86400

(* policy_context.max_shift_seconds.                                       *)
MaxShift(job) == IF job.maxShift = None THEN 900 ELSE job.maxShift

RunNow(reason) == [runNow |-> TRUE, reason |-> reason, shift |-> 0]
Defer(seconds) == [runNow |-> FALSE, reason |-> "defer", shift |-> seconds]

(* Mutant of ShiftMisses: the runtime is forgotten.                        *)
ShiftAloneMisses(job) == HasDeadline(job) /\ job.deadline <= Longer(120, MaxShift(job))

ShiftMisses(job) ==
  HasDeadline(job) /\ job.deadline <= Longer(120, job.runtime + MaxShift(job))

(* Invalid: a ValueError, of the constructor or of max_shift_seconds.      *)
ScheduleJob(job) ==
  CASE ~ValidJob(job) -> Invalid
    [] ValidJob(job) /\ job.forced -> RunNow("policy_force_run_now")
    [] ValidJob(job) /\ ~job.forced ->
         IF HasDeadline(job) /\ job.deadline < 60 THEN RunNow("interactive_deadline")
         ELSE IF job.carbon = None \/ job.carbon <= 80 THEN RunNow("run_within_policy")
         ELSE IF MaxShift(job) \notin 0..LongestShift THEN Invalid
         ELSE IF ShiftMisses(job) THEN RunNow("deadline_prevents_shift")
         ELSE Defer(MaxShift(job))
=============================================================================
