------------------------------ MODULE Sessions ------------------------------
(***************************************************************************)
(* The refresh tokens of one user.  A login opens a family of tokens, a    *)
(* refresh revokes a token and issues the next of its family, and a login  *)
(* beyond the session limit revokes the oldest token.  Each step is one    *)
(* statement, or one transaction whose statements nothing can come between *)
(* because of the row locks they hold.  An update of many rows is two: it  *)
(* changes the rows its snapshot held, and misses those inserted since.    *)
(* Tokens are numbered in the order they are created; a family has the     *)
(* number of its first token.                                              *)
(***************************************************************************)
EXTENDS Naturals, FiniteSets

CONSTANTS
  MaxTokens,    \* tokens issued at most
  MaxSessions,  \* system_config max_sessions_per_user
  Requests,     \* requests in flight at the same time, at most
  Calls         \* the calls made

CallNames == {"login", "refresh", "logout", "admin", "expire"}

ASSUME SessionsAssumption ==
  /\ MaxTokens \in Nat /\ MaxSessions \in Nat \ {0}
  /\ Calls \subseteq CallNames

VARIABLES
  active,   \* User.isActive
  issued,   \* how many tokens there are
  family,   \* family[t]: the family of token t, 0 if not issued
  revoked,  \* the tokens with isRevoked
  expired,  \* tokens 1..expired are past their expiresAt
  req       \* req[r]: what request r is doing and what it has read

tokens == <<issued, family, revoked>>
vars == <<active, tokens, expired, req>>

Tokens == 1..MaxTokens
Issued == 1..issued
Unrevoked == Issued \ revoked
UsableAt(now) == {t \in Unrevoked : t > now}
Usable == UsableAt(expired)
Oldest(S) == {t \in S : \A u \in S : t <= u}

Idle == [phase |-> "idle"]
Become(r, state) == req' = [req EXCEPT ![r] = state]

\* Token issued + 1, in family f, while those in gone are revoked.
Issue(f, gone) ==
  /\ issued < MaxTokens
  /\ issued' = issued + 1
  /\ family' = [family EXCEPT ![issued + 1] = f]
  /\ revoked' = revoked \cup gone

-----------------------------------------------------------------------------
(* Login.                                                                  *)

LoginStart(r) ==
  /\ "login" \in Calls /\ req[r] = Idle
  /\ active
  /\ Become(r, [phase |-> "login"])
  /\ UNCHANGED <<active, tokens, expired>>

\* pg_advisory_xact_lock: from here to the commit, one login at a time.
LoginLocked == \E q \in Requests : req[q].phase \in {"full", "enter"}

\* The login takes the time once; that decides which tokens have expired.
Counted ==
  IF Cardinality(Usable) >= MaxSessions THEN [phase |-> "full", now |-> expired]
  ELSE [phase |-> "enter", victim |-> {}]

LoginCountUnlocked(r) ==  \* mutant: no advisory lock
  /\ req[r].phase = "login"
  /\ Become(r, Counted)
  /\ UNCHANGED <<active, tokens, expired>>

LoginCount(r) ==
  /\ req[r].phase = "login" /\ ~LoginLocked
  /\ Become(r, Counted)
  /\ UNCHANGED <<active, tokens, expired>>

\* The oldest usable token, if one is left.
LoginFindOldest(r) ==
  /\ req[r].phase = "full"
  /\ Become(r, [phase |-> "enter", victim |-> Oldest(UsableAt(req[r].now))])
  /\ UNCHANGED <<active, tokens, expired>>

\* The victim is revoked by its id, whatever has become of it.
LoginCommit(r) ==
  /\ req[r].phase = "enter"
  /\ Issue(issued + 1, req[r].victim)
  /\ Become(r, Idle)
  /\ UNCHANGED <<active, expired>>

-----------------------------------------------------------------------------
(* Refresh.                                                                *)

\* A request to revoke many tokens: those of one family, or all; one that
\* deactivates the user does it in the same transaction.
Revoking(which, deactivate) ==
  [phase |-> "revoke", which |-> which, deactivate |-> deactivate]

RefreshLookup(r, t) ==
  /\ "refresh" \in Calls /\ req[r] = Idle
  /\ t \in Issued
  /\ \/ /\ t \in revoked \/ ~active
        /\ Become(r, Revoking(Tokens, FALSE))
     \/ /\ t \in Usable /\ active
        /\ Become(r, [phase |-> "rotate", token |-> t])
  /\ UNCHANGED <<active, tokens, expired>>

\* Mutant: the token is revoked without looking whether it still could be.
RotateBlind(r) ==
  LET t == req[r].token IN
  /\ req[r].phase = "rotate"
  /\ Issue(family[t], {t})
  /\ Become(r, Idle)
  /\ UNCHANGED <<active, expired>>

\* Mutant: the new token gets no family.
RotateNoFamily(r) ==
  /\ req[r].phase = "rotate" /\ req[r].token \notin revoked
  /\ Issue(0, {req[r].token})
  /\ Become(r, Idle)
  /\ UNCHANGED <<active, expired>>

\* The token is revoked only if it has not been since it was looked up.
Rotate(r) ==
  LET t == req[r].token IN
  /\ req[r].phase = "rotate" /\ t \notin revoked
  /\ Issue(family[t], {t})
  /\ Become(r, Idle)
  /\ UNCHANGED <<active, expired>>

\* Otherwise somebody else has rotated or revoked it: the family goes.
RotateTooLate(r) ==
  LET t == req[r].token IN
  /\ req[r].phase = "rotate" /\ t \in revoked
  /\ Become(r, Revoking({u \in Issued : family[u] = family[t]}, FALSE))
  /\ UNCHANGED <<active, tokens, expired>>

-----------------------------------------------------------------------------
(* Revoking many tokens, logging out, users and time.                      *)

\* The update takes its snapshot, ...
RevokeSnapshot(r) ==
  /\ req[r].phase = "revoke"
  /\ Become(r, [phase |-> "revoking", which |-> req[r].which \cap Unrevoked,
                deactivate |-> req[r].deactivate])
  /\ UNCHANGED <<active, tokens, expired>>

\* ... and changes its rows.
RevokeApply(r) ==
  /\ req[r].phase = "revoking"
  /\ revoked' = revoked \cup req[r].which
  /\ active' = (active /\ ~req[r].deactivate)
  /\ Become(r, Idle)
  /\ UNCHANGED <<issued, family, expired>>

LogoutLookup(r, t) ==
  /\ "logout" \in Calls /\ req[r] = Idle
  /\ t \in Unrevoked
  /\ Become(r, [phase |-> "logout", token |-> t])
  /\ UNCHANGED <<active, tokens, expired>>

Logout(r) ==
  /\ req[r].phase = "logout"
  /\ revoked' = revoked \cup {req[r].token}
  /\ Become(r, Idle)
  /\ UNCHANGED <<active, issued, family, expired>>

\* PATCH of a user by an administrator: force_session_revoke, or is_active.
UpdateUser(r) ==
  /\ "admin" \in Calls /\ req[r] = Idle
  /\ \E deactivate \in BOOLEAN : Become(r, Revoking(Tokens, deactivate))
  /\ UNCHANGED <<active, tokens, expired>>

Reactivate ==
  /\ "admin" \in Calls
  /\ active' = TRUE
  /\ UNCHANGED <<tokens, expired, req>>

\* Eight hours after it was issued, the oldest token expires.
Expire ==
  /\ "expire" \in Calls
  /\ expired < issued
  /\ expired' = expired + 1
  /\ UNCHANGED <<active, tokens, req>>

\* A transaction is rolled back: locked rows, timeouts, a lost connection.
Abort(r) ==
  /\ req[r] # Idle
  /\ Become(r, Idle)
  /\ UNCHANGED <<active, tokens, expired>>

-----------------------------------------------------------------------------
Init ==
  /\ active = TRUE
  /\ issued = 0
  /\ family = [t \in Tokens |-> 0]
  /\ revoked = {}
  /\ expired = 0
  /\ req = [r \in Requests |-> Idle]

Next ==
  \/ \E r \in Requests :
       \/ LoginStart(r) \/ LoginCount(r) \/ LoginFindOldest(r) \/ LoginCommit(r)
       \/ \E t \in Tokens : RefreshLookup(r, t) \/ LogoutLookup(r, t)
       \/ Rotate(r) \/ RotateTooLate(r)
       \/ RevokeSnapshot(r) \/ RevokeApply(r)
       \/ Logout(r) \/ UpdateUser(r) \/ Abort(r)
  \/ Reactivate \/ Expire

Spec == Init /\ [][Next]_vars

-----------------------------------------------------------------------------
(* Properties.                                                             *)

RequestStates ==
  {Idle, [phase |-> "login"]}
  \cup [phase : {"full"}, now : 0..issued]
  \cup [phase : {"enter"}, victim : SUBSET Issued]
  \cup [phase : {"rotate", "logout"}, token : Issued]
  \cup [phase : {"revoke", "revoking"}, which : SUBSET Tokens, deactivate : BOOLEAN]

\* Tokens are numbered without gaps, a family by its first token, and no
\* request refers to a token that does not exist.
TypeOK ==
  /\ active \in BOOLEAN
  /\ issued \in 0..MaxTokens
  /\ family \in [Tokens -> 0..MaxTokens]
  /\ \A t \in Issued : family[t] \in 1..t
  /\ revoked \subseteq Issued
  /\ expired \in 0..issued
  /\ req \in [Requests -> RequestStates]

\* Whatever logins, refreshes and revocations race, a family has at most
\* one token that is not revoked: a session never splits in two.
OneTokenPerFamily ==
  \A s, t \in Unrevoked : family[s] = family[t] => s = t

\* A family with no token left never gets one again: a session that has
\* been closed stays closed, also for a refresh already under way.
ClosedStaysClosed ==
  [][\A f \in {family[t] : t \in Issued} :
       (\A t \in Issued : family[t] = f => t \in revoked)
         => (\A t \in Issued' : family'[t] = f => t \in revoked')]_vars

\* As long as no session was refreshed, a user has no more usable tokens
\* than the limit, however log-ins overlap.  (A refresh may make room look
\* free, or take the token a log-in has chosen to revoke.)
SessionLimit ==
  (\A t \in Issued : family[t] = t) => Cardinality(Usable) <= MaxSessions
=============================================================================
