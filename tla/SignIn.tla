------------------------------- MODULE SignIn -------------------------------
(***************************************************************************)
(* The way into the sessions of one user: the password, the count of wrong *)
(* ones and the lock they put on the account.  An attempt reads the user   *)
(* first and writes what it has computed from that row later, each in a    *)
(* statement of its own.  Everything else is Sessions: an attempt under    *)
(* way is a login of Sessions, and a wrong password aborts it.             *)
(***************************************************************************)
EXTENDS Sessions

CONSTANTS
  Threshold,  \* system_config lockout_threshold
  MaxFailed   \* wrong passwords counted on a row, at most

ASSUME SignInAssumption ==
  Threshold \in Nat \ {0} /\ MaxFailed \in Nat /\ Threshold <= MaxFailed

VARIABLES
  failed,   \* User.failedAttempts
  lock,     \* User.lockedUntil: "none", "on" (in the future) or "over"
  attempt   \* attempt[r]: what the attempt of request r has read, and how far it is

\* What the properties remember and the program does not.
VARIABLES
  wrong,    \* wrong passwords since they were last forgiven, counted up to Threshold
  stale,    \* attempts that had read the user when they were last forgiven
  carried,  \* since then, one of those has written its count
  lost      \* since then, an attempt has written a count over another than it had read

history == <<wrong, stale, carried, lost>>
door == <<failed, lock, attempt, history>>
allvars == <<vars, door>>

NoAttempt == [stage |-> "none", seen |-> 0]
At(r, stage) == attempt[r].stage = stage
EndAttempt(r) == attempt' = [attempt EXCEPT ![r] = NoAttempt]

\* Attempts that may yet write a count they compute from what they have read.
Undecided == {r \in Requests : At(r, "clear") \/ At(r, "verify")}

\* The row forgets the wrong passwords and the lock; attempts under way keep
\* the count they have read.
Forgive ==
  /\ failed' = 0 /\ lock' = "none"
  /\ wrong' = 0 /\ stale' = Undecided
  /\ carried' = FALSE /\ lost' = FALSE

\* Request r writes the count n it has computed from what it has read.
Count(r, n) ==
  /\ failed' = n
  /\ wrong' = IF wrong < Threshold THEN wrong + 1 ELSE wrong
  /\ stale' = stale \ {r}
  /\ carried' = (carried \/ r \in stale)
  /\ lost' = (lost \/ attempt[r].seen # failed)

-----------------------------------------------------------------------------
\* The user is found, active and not locked; a lock that is over is cleared
\* before the password is looked at.
Knock(r) ==
  /\ LoginStart(r)
  /\ lock # "on"
  /\ attempt' = [attempt EXCEPT ![r] =
       [stage |-> IF lock = "over" THEN "clear" ELSE "verify", seen |-> failed]]
  /\ UNCHANGED <<failed, lock, history>>

\* Whatever lock there is by now goes.
ClearLock(r) ==
  /\ At(r, "clear")
  /\ Forgive
  /\ attempt' = [attempt EXCEPT ![r].stage = "verify"]
  /\ UNCHANGED vars

\* What was read is of no use any more.
Right(r) ==
  /\ At(r, "verify")
  /\ attempt' = [attempt EXCEPT ![r] = [stage |-> "right", seen |-> 0]]
  /\ stale' = stale \ {r}
  /\ UNCHANGED <<vars, failed, lock, wrong, carried, lost>>

\* Mutants: the account is locked one wrong password too soon, or too late.
LocksSoon(n) == n + 1 >= Threshold
LocksLate(n) == n > Threshold
\* Enough wrong passwords to lock the account.
Locks(n) == n >= Threshold

\* Mutant: what the attempt has seen of the lock is written back.
WrongRewrites(r) ==
  LET n == attempt[r].seen + 1 IN
  /\ At(r, "verify") /\ n <= MaxFailed
  /\ Count(r, n)
  /\ lock' = IF Locks(n) THEN "on" ELSE "none"
  /\ EndAttempt(r) /\ Abort(r)

\* The count of the row that was read, one more, is written, also when the
\* attempt has cleared it since; the lock only when it is to be set.
Wrong(r) ==
  LET n == attempt[r].seen + 1 IN
  /\ At(r, "verify") /\ n <= MaxFailed
  /\ Count(r, n)
  /\ lock' = IF Locks(n) THEN "on" ELSE lock
  /\ EndAttempt(r) /\ Abort(r)

\* The session is opened as in Sessions, once the password was right, and
\* the same transaction forgets the wrong ones.
OpenStep(r) ==
  /\ At(r, "right")
  /\ LoginCount(r) \/ LoginFindOldest(r)
  /\ UNCHANGED door

OpenSession(r) ==
  /\ At(r, "right")
  /\ LoginCommit(r)
  /\ Forgive
  /\ EndAttempt(r)

\* Mutant: an attempt outlives its request.
GiveUpHalf(r) == Abort(r) /\ UNCHANGED door

\* A statement fails, or the transaction is rolled back.
GiveUp(r) ==
  /\ Abort(r) /\ EndAttempt(r)
  /\ stale' = stale \ {r}
  /\ UNCHANGED <<failed, lock, wrong, carried, lost>>

\* Requests that are no attempts to sign in.
Others(r) ==
  /\ \/ \E t \in Tokens : RefreshLookup(r, t) \/ LogoutLookup(r, t)
     \/ Rotate(r) \/ RotateTooLate(r)
     \/ RevokeSnapshot(r) \/ RevokeApply(r)
     \/ Logout(r) \/ UpdateUser(r)
  /\ UNCHANGED door

\* PATCH of the user with unlock_account.
Unlock ==
  /\ "admin" \in Calls
  /\ Forgive
  /\ UNCHANGED <<vars, attempt>>

\* lockout_duration_minutes pass.
LockEnds ==
  /\ lock = "on" /\ lock' = "over"
  /\ UNCHANGED <<vars, failed, attempt, history>>

-----------------------------------------------------------------------------
SignInInit ==
  /\ Init
  /\ failed = 0 /\ lock = "none"
  /\ attempt = [r \in Requests |-> NoAttempt]
  /\ wrong = 0 /\ stale = {} /\ carried = FALSE /\ lost = FALSE

SignInNext ==
  \/ \E r \in Requests :
       \/ Knock(r) \/ ClearLock(r) \/ Right(r) \/ Wrong(r) \/ OpenStep(r) \/ OpenSession(r)
       \/ GiveUp(r) \/ Others(r)
  \/ (Reactivate \/ Expire) /\ UNCHANGED door
  \/ Unlock \/ LockEnds

SignInSpec == SignInInit /\ [][SignInNext]_allvars

-----------------------------------------------------------------------------
(* Properties.                                                             *)

LockStates == {"none", "on", "over"}
Stages == {"none", "clear", "verify", "right"}
LoginPhases == {"login", "full", "enter"}

\* The user row and the attempts keep their types, an attempt is the login
\* of the same request, and only attempts that may write are stale.
SignInTypeOK ==
  /\ failed \in 0..MaxFailed /\ lock \in LockStates
  /\ attempt \in [Requests -> [stage : Stages, seen : 0..MaxFailed]]
  /\ wrong \in 0..Threshold /\ carried \in BOOLEAN /\ lost \in BOOLEAN
  /\ stale \subseteq Undecided
  /\ \A r \in Requests :
       /\ ~At(r, "none") <=> req[r].phase \in LoginPhases
       /\ At(r, "clear") \/ At(r, "verify") => req[r].phase = "login"

\* An account is locked by as many wrong passwords as the threshold, since
\* they were last forgiven by an administrator, by a session or with a lock
\* that was over.  The code locks it earlier: see the run LockedAgain.
LocksAreEarned == lock = "on" => wrong = Threshold

\* However attempts overlap, an account is not locked before Threshold wrong
\* passwords since they were last forgiven, unless an attempt has written
\* back a count it had read before.
LocksNeedFailures == lock = "on" /\ ~carried => wrong = Threshold

\* Threshold wrong passwords since they were last forgiven lock an account,
\* unless overlapping attempts were counted as one: no lock that ended, no
\* attempt that failed halfway and no count written back postpones it.
LocksComeInTime == wrong = Threshold /\ ~lost => lock # "none"

\* A lock ends with its time, by an administrator, by a right password that
\* was on its way, or by an attempt that found an earlier lock over: a
\* wrong password never lifts one.
LockHolds ==
  [][lock = "on" /\ lock' = "none" =>
       \/ Unlock
       \/ \E r \in Requests : At(r, "right") /\ req'[r] = Idle
       \/ \E r \in Requests : At(r, "clear")]_allvars
=============================================================================
