---------------------------- MODULE SchedulerLock ----------------------------
(***************************************************************************)
(* The durations of a scheduled task, in seconds: how long its lock is     *)
(* kept and how long one run of it may take.  The lock is never released   *)
(* or renewed; it expires.                                                 *)
(*                                                                         *)
(* Sources: internal/scheduler/lock.go, tasks.go, run.go.                  *)
(***************************************************************************)
EXTENDS Integers

Minute == 60
Hour == 60 * Minute

lockTTLForInterval(interval) ==
    IF interval <= 0 THEN Minute
    ELSE IF (interval * 9) \div 10 < 2 THEN 2 ELSE (interval * 9) \div 10

\* Redis is never asked for less than a second.
tryLockTTL(interval) ==
    IF lockTTLForInterval(interval) < 1 THEN 1 ELSE lockTTLForInterval(interval)

jobTimeoutFor(interval) ==
    IF interval < 30 * Minute THEN 30 * Minute
    ELSE IF interval > 2 * Hour THEN 2 * Hour ELSE interval

\* A run may still be going on when its lock expires.
OutlivesLock(interval) == tryLockTTL(interval) < jobTimeoutFor(interval)
=============================================================================
