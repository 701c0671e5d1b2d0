----------------------------- MODULE LoginLock -----------------------------
(***************************************************************************)
(* The lock on an account after failed sign-ins: LockoutTracker               *)
(* (server/auth/lockout.go) as the sign-in handlers of the web page and of    *)
(* the API use it, for one account.  The clock counts minutes.               *)
(***************************************************************************)
EXTENDS Naturals, Sequences

CONSTANTS
  Attempts,     \* sign-ins that can be under way at a time
  LockAfter,    \* lockoutThreshold
  LockWindow,   \* lockoutWindow
  LockAtMost,   \* lockoutMaxLock
  MaxMinutes,   \* bound: the clock
  MaxFailures   \* bound: wrong passwords

ASSUME LockBounds ==
  {LockAfter, LockWindow, LockAtMost} \subseteq Nat \ {0} /\ {MaxMinutes, MaxFailures} \subseteq Nat

VARIABLES
  minute,   \* the clock
  lock,     \* the account's lockState
  attempt,  \* the sign-ins under way
  fails,    \* history: the minutes of the failures since the last success
  wrong     \* bookkeeping of the bound MaxFailures

lockVars == <<minute, lock, attempt, fails, wrong>>

NoFailures == [failures |-> 0, firstFail |-> 0, lockedUntil |-> 0]

LockInit ==
  /\ minute = 0 /\ lock = NoFailures /\ fails = <<>> /\ wrong = 0
  /\ attempt = [a \in Attempts |-> "none"]

MinutePasses ==
  /\ minute < MaxMinutes /\ minute' = minute + 1
  /\ UNCHANGED <<lock, attempt, fails, wrong>>

Locked == minute < lock.lockedUntil

\* A sign-in that finds the account locked is refused at once; the others have
\* their password compared, which takes a while.
AttemptBegins(a) ==
  /\ attempt[a] = "none" /\ ~Locked
  /\ attempt' = [attempt EXCEPT ![a] = "comparing"]
  /\ UNCHANGED <<minute, lock, fails, wrong>>

\* A lock doubles with each failure past the threshold, up to the longest.
LockLength(n) ==
  LET past == IF n - LockAfter > 20 THEN 20 ELSE n - LockAfter
      length == 2 ^ past
  IN IF length <= 0 \/ length > LockAtMost THEN LockAtMost ELSE length

\* Mutant: failures never expire.
UnexpiredNever == IF lock.failures = 0 THEN [NoFailures EXCEPT !.firstFail = minute] ELSE lock

\* What is left of the state once the lock is over and the window past.
Unexpired ==
  IF lock.failures = 0 \/ (minute > lock.lockedUntil /\ minute - lock.firstFail > LockWindow)
  THEN [NoFailures EXCEPT !.firstFail = minute] ELSE lock

\* Fail: from LockAfter failures on, the lock doubles with each.
AttemptFails(a) ==
  LET n == Unexpired.failures + 1
  IN /\ attempt[a] = "comparing" /\ wrong < MaxFailures
     /\ lock' = [Unexpired EXCEPT
                   !.failures = n,
                   !.lockedUntil = IF n >= LockAfter THEN minute + LockLength(n) ELSE @]
     /\ fails' = Append(fails, minute) /\ wrong' = wrong + 1
     /\ attempt' = [attempt EXCEPT ![a] = "none"]
     /\ UNCHANGED minute

\* Reset.
AttemptSucceeds(a) ==
  /\ attempt[a] = "comparing"
  /\ lock' = NoFailures /\ fails' = <<>>
  /\ attempt' = [attempt EXCEPT ![a] = "none"]
  /\ UNCHANGED <<minute, wrong>>

\* The state is in memory only.
LockRestart ==
  /\ lock # NoFailures
  /\ lock' = NoFailures /\ fails' = <<>> /\ attempt' = [a \in Attempts |-> "none"]
  /\ UNCHANGED <<minute, wrong>>

LockNext ==
  \/ MinutePasses
  \/ \E a \in Attempts : AttemptBegins(a) \/ AttemptFails(a) \/ AttemptSucceeds(a)
  \/ LockRestart

LockSpec == LockInit /\ [][LockNext]_lockVars

---------------------------------------------------------------------------
(* Properties. *)

LockTypeOK ==
  /\ minute \in 0 .. MaxMinutes /\ wrong \in 0 .. MaxFailures
  /\ lock \in [failures : Nat, firstFail : Nat, lockedUntil : Nat]
  /\ attempt \in [Attempts -> {"none", "comparing"}]
  /\ fails \in Seq(Nat)

\* An account is locked for no longer than the longest lock, and only after
\* the failures it takes, with no success since and within the window of each
\* other.
LockHasCause ==
  Locked =>
    /\ lock.lockedUntil <= minute + LockAtMost
    /\ \E i \in DOMAIN fails :
         /\ i + LockAfter - 1 \in DOMAIN fails
         /\ fails[i + LockAfter - 1] - fails[i] <= LockWindow
=============================================================================
