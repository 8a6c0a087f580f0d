------------------------------- MODULE Limiter -------------------------------
(***************************************************************************)
(* A limited logger (internal/shared/logger/limit.go and Logger.log):      *)
(* goroutines that log through it read the time, then take lim.mu.         *)
(***************************************************************************)
EXTENDS Integers

CONSTANTS
  Callers,   \* goroutines that log through the limiter
  Interval,  \* limiter.interval, in clock ticks
  Burst,     \* limiter.burst
  MaxTime,   \* bound: the clock
  MaxCalls   \* bound: records logged

ASSUME LimitsAssumption ==
  /\ Interval \in Nat \ {0}
  /\ Burst \in Nat
  /\ MaxTime \in Nat /\ MaxCalls \in Nat

VARIABLES
  clock,     \* the monotonic clock of time.Now
  now,       \* the time a caller has read, or -1 outside admit
  start,     \* start of the current window
  kept,      \* records kept in it
  dropped,   \* records dropped since the last one kept
  calls,     \* history: calls of admit
  total,     \* history: records kept
  reported   \* history: the sum of context.suppressed over the records kept

limiter == <<start, kept, dropped>>
history == <<calls, total, reported>>
vars    == <<clock, now, limiter, history>>

\* The zero time.Time is so far back that the first record opens a window.
Init ==
  /\ clock = 0 /\ now = [c \in Callers |-> -1]
  /\ start = -Interval /\ kept = 0 /\ dropped = 0
  /\ calls = 0 /\ total = 0 /\ reported = 0

Tick ==
  /\ clock < MaxTime
  /\ clock' = clock + 1
  /\ UNCHANGED <<now, limiter, history>>

\* log, for a record at or above the level, up to admit's wait for the lock.
log(c) ==
  /\ now[c] = -1
  /\ now' = [now EXCEPT ![c] = clock]
  /\ UNCHANGED <<clock, limiter, history>>

turnsOver_Early(t) == t - start >= Interval - 1
turnsOver(t) == t - start >= Interval

keep_Again(k) == dropped' = dropped /\ kept' = k + 1 /\ total' = total + 1 /\ reported' = reported + dropped
\* The record is written, with what was dropped since the last one kept.
keep(k) ==
  /\ kept' = k + 1
  /\ dropped' = 0
  /\ total' = total + 1
  /\ reported' = reported + dropped

drop(k) ==
  /\ kept' = k
  /\ dropped' = dropped + 1
  /\ UNCHANGED <<total, reported>>

\* admit, under lim.mu, and the rest of log: k records are in the window the
\* caller's time falls in.
admit(c) ==
  /\ now[c] # -1
  /\ calls < MaxCalls
  /\ now' = [now EXCEPT ![c] = -1]
  /\ calls' = calls + 1
  /\ start' = IF turnsOver(now[c]) THEN now[c] ELSE start
  /\ LET k == IF turnsOver(now[c]) THEN 0 ELSE kept
     IN  IF k >= Burst THEN drop(k) ELSE keep(k)
  /\ UNCHANGED clock

Next ==
  \/ Tick
  \/ \E c \in Callers : log(c)
  \/ \E c \in Callers : admit(c)

Spec == Init /\ [][Next]_vars

-----------------------------------------------------------------------------
(* Properties.                                                             *)

\* Every variable has its type, and no caller holds a time that is yet to come.
TypeOK ==
  /\ clock \in Nat
  /\ now \in [Callers -> Int] /\ \A c \in Callers : now[c] \in -1 .. clock
  /\ start \in Int /\ kept \in Nat /\ dropped \in Nat
  /\ calls \in Nat /\ total \in Nat /\ reported \in Nat

\* In the first n intervals at most n bursts are kept ("at most burst records per
\* interval"): a caller that was held up between reading the time and taking the
\* lock never opens a window early, nor turns one back.
RateBounded == total <= Burst * (1 + clock \div Interval)

\* Every record is kept, reported as suppressed by exactly one record that was
\* kept after it, or still to be reported ("the number dropped since the last
\* one kept").
AllAccounted == calls = total + reported + dropped
=============================================================================
