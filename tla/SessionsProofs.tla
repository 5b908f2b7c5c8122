--------------------------- MODULE SessionsProofs ---------------------------
(***************************************************************************)
(* What holds of Sessions for any number of tokens, requests in flight and *)
(* sessions allowed; of SignIn, which takes the steps of Sessions behind a *)
(* password and its lock; and of the tabs of a browser, which take them    *)
(* too.                                                                    *)
(***************************************************************************)
EXTENDS SignIn, BrowserTabs, FiniteSetTheorems, NaturalsInduction, WellFoundedInduction, TLAPS

SessionsInv == TypeOK /\ OneTokenPerFamily

\* A request that goes on, or comes to an end, while tokens are issued still
\* refers to tokens that exist.
LEMMA RequestsKept ==
  ASSUME TypeOK, issued' \in Nat, issued <= issued', NEW r \in Requests,
         NEW state \in RequestStates', Become(r, state)
  PROVE  req' \in [Requests -> RequestStates']
  <1>1. Issued \subseteq Issued' /\ 0..issued \subseteq 0..issued'
    BY DEF TypeOK, Issued
  <1>2. \A s \in RequestStates : s \in RequestStates'
    <2> TAKE s \in RequestStates
    <2>1. CASE s \in {Idle, [phase |-> "login"]}
      BY <2>1 DEF RequestStates, Idle
    <2>2. CASE s \in [phase : {"full"}, now : 0..issued]
      BY <1>1, <2>2 DEF RequestStates
    <2>3. CASE s \in [phase : {"enter"}, victim : SUBSET Issued]
      BY <1>1, <2>3 DEF RequestStates
    <2>4. CASE s \in [phase : {"rotate", "logout"}, token : Issued]
      BY <1>1, <2>4 DEF RequestStates
    <2>5. CASE s \in [phase : {"revoke", "revoking"}, which : SUBSET Tokens,
                      deactivate : BOOLEAN]
      BY <2>5 DEF RequestStates
    <2> QED BY <2>1, <2>2, <2>3, <2>4, <2>5 DEF RequestStates
  <1> QED BY <1>2 DEF TypeOK, Become

\* A step that issues no token and revokes only tokens that exist keeps the
\* invariant.
LEMMA RevokingStep ==
  ASSUME SessionsInv, NEW gone, gone \subseteq Issued,
         issued' = issued, family' = family, revoked' = revoked \cup gone,
         active' \in BOOLEAN, expired' \in 0..issued,
         req' \in [Requests -> RequestStates']
  PROVE  SessionsInv'
  <1>1. TypeOK'
    BY DEF SessionsInv, TypeOK, Issued
  <1>2. Unrevoked' \subseteq Unrevoked
    BY DEF Unrevoked, Issued
  <1>3. OneTokenPerFamily'
    BY <1>2 DEF SessionsInv, OneTokenPerFamily
  <1> QED BY <1>1, <1>3 DEF SessionsInv

\* Issuing a token keeps the invariant when it is the first of its family,
\* or takes the place of the one token its family had left.
LEMMA IssueStep ==
  ASSUME SessionsInv, NEW f, f \in 1..(issued + 1), NEW gone, gone \subseteq Issued,
         f = issued + 1 \/ (\E t \in Unrevoked \cap gone : family[t] = f),
         Issue(f, gone), UNCHANGED <<active, expired>>,
         req' \in [Requests -> RequestStates']
  PROVE  SessionsInv'
  <1> DEFINE new == issued + 1
  <1>1. /\ TypeOK /\ issued \in Nat /\ new \in Tokens /\ new \notin Issued
        /\ Issued' = Issued \cup {new}
    BY SessionsAssumption DEF SessionsInv, TypeOK, Issue, Issued, Tokens
  <1>2. /\ family' \in [Tokens -> 0..MaxTokens]
        /\ family'[new] = f
        /\ \A t \in Issued : family'[t] = family[t]
    BY <1>1, SessionsAssumption DEF TypeOK, Issue, Issued, Tokens
  <1>3. \A t \in Issued : family[t] \in 1..t /\ t \in Nat /\ t <= issued
    BY <1>1 DEF TypeOK, Issued
  <1>4. TypeOK'
    BY <1>1, <1>2, <1>3, SessionsAssumption DEF TypeOK, Issue, Issued, Tokens
  <1>5. Unrevoked' = (Unrevoked \ gone) \cup {new}
    BY <1>1 DEF Unrevoked, Issue, TypeOK
  <1>6. \A t \in Unrevoked \ gone : family[t] # f
    BY <1>1, <1>3 DEF SessionsInv, OneTokenPerFamily, Unrevoked
  <1>7. OneTokenPerFamily'
    BY <1>1, <1>2, <1>5, <1>6 DEF SessionsInv, OneTokenPerFamily, Unrevoked
  <1> QED BY <1>4, <1>7 DEF SessionsInv

\* What a request holds when it is in a phase.
LEMMA RequestFields ==
  ASSUME TypeOK, NEW r \in Requests
  PROVE  /\ req[r].phase = "enter" => req[r].victim \subseteq Issued
         /\ req[r].phase \in {"rotate", "logout"} => req[r].token \in Issued
         /\ req[r].phase \in {"revoke", "revoking"} =>
              /\ req[r].which \subseteq Tokens
              /\ req[r].deactivate \in BOOLEAN
              /\ req[r] = [phase |-> req[r].phase, which |-> req[r].which,
                           deactivate |-> req[r].deactivate]
  <1>1. req[r] \in RequestStates
    BY DEF TypeOK
  <1> QED BY <1>1 DEF RequestStates, Idle

\* The rows an update is about to revoke are tokens that exist.
RevokingExisting ==
  \A r \in Requests : req[r].phase = "revoking" => req[r].which \subseteq Issued

\* Every step of the handlers keeps the invariant.
LEMMA SessionsStep ==
  ASSUME SessionsInv, RevokingExisting, [Next]_vars
  PROVE  SessionsInv' /\ RevokingExisting'
  <1> USE DEF SessionsInv
  <1>1. issued \in Nat /\ issued' = issued => RequestStates' = RequestStates
    BY DEF RequestStates, Issued
  <1>2. issued \in Nat /\ (issued' = issued \/ issued' = issued + 1)
    <2>1. issued \in Nat
      BY SessionsAssumption DEF TypeOK
    <2> QED
      BY <2>1 DEF Next, LoginStart, LoginCount, LoginFindOldest, LoginCommit, RefreshLookup,
         LogoutLookup, Rotate, RotateTooLate, RevokeSnapshot, RevokeApply, Logout, UpdateUser,
         Abort, Reactivate, Expire, Issue, tokens, vars
  <1>3. issued' \in Nat /\ issued <= issued' /\ Issued \subseteq Issued'
    BY <1>2 DEF Issued
  \* Requests that hold no rows of an update leave that invariant alone.
  <1>4. ASSUME NEW r \in Requests, NEW state, Become(r, state), state.phase # "revoking"
        PROVE  RevokingExisting'
    BY <1>3, <1>4 DEF RevokingExisting, Become, TypeOK
  <1>5. Idle \in RequestStates' /\ Idle.phase # "revoking"
    BY DEF RequestStates, Idle
  \* Steps that read, and change nothing but their request.
  <1>6. ASSUME NEW r \in Requests, NEW state \in RequestStates, Become(r, state),
               state.phase # "revoking",
               UNCHANGED <<active, tokens, expired>>
        PROVE  SessionsInv' /\ RevokingExisting'
    <2>1. req' \in [Requests -> RequestStates']
      BY <1>1, <1>2, <1>3, <1>6, RequestsKept DEF tokens
    <2>2. SessionsInv'
      BY <1>6, <2>1 DEF tokens, TypeOK, RequestStates, Issued, OneTokenPerFamily, Unrevoked
    <2> QED BY <1>4, <1>6, <2>2
  <1>7. ASSUME NEW r \in Requests, LoginStart(r) \/ LoginCount(r) \/ Abort(r)
        PROVE  SessionsInv' /\ RevokingExisting'
    <2>1. PICK state \in {Idle, [phase |-> "login"], Counted} :
            Become(r, state) /\ UNCHANGED <<active, tokens, expired>>
      BY <1>7 DEF LoginStart, LoginCount, Abort
    <2>2. Counted \in RequestStates /\ Counted.phase # "revoking"
      <3>1. {} \in SUBSET Issued /\ expired \in 0..issued
        BY DEF TypeOK
      <3> QED BY <3>1 DEF Counted, RequestStates
    <2>3. state \in RequestStates /\ state.phase # "revoking"
      BY <2>2 DEF RequestStates, Idle
    <2> QED BY <1>6, <2>1, <2>3
  <1>8. ASSUME NEW r \in Requests, LoginFindOldest(r)
        PROVE  SessionsInv' /\ RevokingExisting'
    <2>1. Oldest(UsableAt(req[r].now)) \subseteq Issued
      BY DEF Oldest, UsableAt, Unrevoked
    <2>2. [phase |-> "enter", victim |-> Oldest(UsableAt(req[r].now))] \in RequestStates
      BY <2>1 DEF RequestStates
    <2> QED BY <1>6, <1>8, <2>2 DEF LoginFindOldest
  <1>9. ASSUME NEW r \in Requests, LoginCommit(r)
        PROVE  SessionsInv' /\ RevokingExisting'
    <2>1. req[r].victim \subseteq Issued
      BY <1>9, RequestFields DEF LoginCommit
    <2>2. req' \in [Requests -> RequestStates']
      BY <1>3, <1>5, <1>9, RequestsKept DEF LoginCommit
    <2>3. issued + 1 \in 1..(issued + 1)
      BY <1>2
    <2> QED BY <1>4, <1>5, <1>9, <2>1, <2>2, <2>3, IssueStep DEF LoginCommit
  <1>10. ASSUME NEW r \in Requests, NEW t \in Tokens, RefreshLookup(r, t) \/ LogoutLookup(r, t)
         PROVE  SessionsInv' /\ RevokingExisting'
    <2>1. t \in Issued
      BY <1>10 DEF RefreshLookup, LogoutLookup, Unrevoked
    <2>2. PICK state \in {Revoking(Tokens, FALSE), [phase |-> "rotate", token |-> t],
                          [phase |-> "logout", token |-> t]} :
            Become(r, state) /\ UNCHANGED <<active, tokens, expired>>
      BY <1>10 DEF RefreshLookup, LogoutLookup
    <2>3. Revoking(Tokens, FALSE) \in RequestStates
      BY DEF RequestStates, Revoking
    <2>4. \A p \in {"rotate", "logout"} : [phase |-> p, token |-> t] \in RequestStates
      BY <2>1 DEF RequestStates
    <2>5. state \in RequestStates /\ state.phase # "revoking"
      <3>1. CASE state = Revoking(Tokens, FALSE)
        BY <2>3, <3>1 DEF Revoking
      <3>2. CASE state = [phase |-> "rotate", token |-> t]
        BY <2>4, <3>2
      <3>3. CASE state = [phase |-> "logout", token |-> t]
        BY <2>4, <3>3
      <3> QED BY <2>2, <3>1, <3>2, <3>3
    <2> QED BY <1>6, <2>2, <2>5
  <1>11. ASSUME NEW r \in Requests, Rotate(r)
         PROVE  SessionsInv' /\ RevokingExisting'
    <2> DEFINE t == req[r].token
    <2>1. t \in Issued /\ t \notin revoked /\ t \in Unrevoked
      BY <1>11, RequestFields DEF Rotate, Unrevoked
    <2>2. family[t] \in 1..(issued + 1)
      BY <1>2, <2>1 DEF TypeOK, Issued
    <2>3. req' \in [Requests -> RequestStates']
      BY <1>3, <1>5, <1>11, RequestsKept DEF Rotate
    <2>4. SessionsInv'
      BY <1>11, <2>1, <2>2, <2>3, IssueStep DEF Rotate
    <2> QED BY <1>4, <1>5, <1>11, <2>4 DEF Rotate
  <1>12. ASSUME NEW r \in Requests, RotateTooLate(r)
         PROVE  SessionsInv' /\ RevokingExisting'
    <2> DEFINE which == {u \in Issued : family[u] = family[req[r].token]}
    <2>1. which \subseteq Tokens
      BY SessionsAssumption DEF TypeOK, Issued, Tokens
    <2>2. Revoking(which, FALSE) \in RequestStates /\ Revoking(which, FALSE).phase # "revoking"
      BY <2>1 DEF RequestStates, Revoking
    <2> QED BY <1>6, <1>12, <2>2 DEF RotateTooLate
  <1>13. ASSUME NEW r \in Requests, RevokeSnapshot(r)
         PROVE  SessionsInv' /\ RevokingExisting'
    <2> DEFINE state == [phase |-> "revoking", which |-> req[r].which \cap Unrevoked,
                         deactivate |-> req[r].deactivate]
    <2>1. state \in RequestStates /\ state.which \subseteq Issued
      BY <1>13, RequestFields DEF RevokeSnapshot, RequestStates, Unrevoked
    <2>2. Become(r, state) /\ UNCHANGED <<active, tokens, expired>>
      BY <1>13 DEF RevokeSnapshot
    <2>3. req' \in [Requests -> RequestStates']
      BY <1>1, <1>2, <1>3, <2>1, <2>2, RequestsKept DEF tokens
    <2>4. SessionsInv'
      BY <2>2, <2>3 DEF tokens, TypeOK, RequestStates, Issued, OneTokenPerFamily, Unrevoked
    <2>5. RevokingExisting'
      BY <1>3, <2>1, <2>2 DEF RevokingExisting, Become, TypeOK
    <2> QED BY <2>4, <2>5
  <1>14. ASSUME NEW r \in Requests, RevokeApply(r)
         PROVE  SessionsInv' /\ RevokingExisting'
    <2>1. req[r].which \subseteq Issued /\ req[r].deactivate \in BOOLEAN
      BY <1>14, RequestFields DEF RevokeApply, RevokingExisting
    <2>2. req' \in [Requests -> RequestStates']
      BY <1>3, <1>5, <1>14, RequestsKept DEF RevokeApply
    <2> QED
      BY <1>4, <1>5, <1>14, <2>1, <2>2, RevokingStep DEF RevokeApply, TypeOK
  <1>15. ASSUME NEW r \in Requests, Logout(r)
         PROVE  SessionsInv' /\ RevokingExisting'
    <2>1. {req[r].token} \subseteq Issued
      BY <1>15, RequestFields DEF Logout
    <2>2. req' \in [Requests -> RequestStates']
      BY <1>3, <1>5, <1>15, RequestsKept DEF Logout
    <2> QED
      BY <1>4, <1>5, <1>15, <2>1, <2>2, RevokingStep DEF Logout, TypeOK
  <1>16. ASSUME NEW r \in Requests, UpdateUser(r)
         PROVE  SessionsInv' /\ RevokingExisting'
    <2>1. PICK deactivate \in BOOLEAN : Become(r, Revoking(Tokens, deactivate))
      BY <1>16 DEF UpdateUser
    <2>2. /\ Revoking(Tokens, deactivate) \in RequestStates
          /\ Revoking(Tokens, deactivate).phase # "revoking"
      BY DEF RequestStates, Revoking
    <2> QED BY <1>6, <1>16, <2>1, <2>2 DEF UpdateUser
  <1>17. CASE Reactivate \/ Expire \/ UNCHANGED vars
    <2>1. UNCHANGED <<issued, family, revoked, req>>
      BY <1>17 DEF Reactivate, Expire, vars, tokens
    <2>0. active' \in BOOLEAN /\ expired' \in 0..issued
      <3>1. CASE Reactivate
        BY <3>1 DEF Reactivate, TypeOK
      <3>2. CASE Expire
        BY <1>2, <3>2 DEF Expire, TypeOK
      <3>3. CASE UNCHANGED vars
        BY <3>3 DEF vars, TypeOK
      <3> QED BY <1>17, <3>1, <3>2, <3>3
    <2>2. req' \in [Requests -> RequestStates']
      BY <1>1, <1>2, <2>1 DEF TypeOK
    <2>3. SessionsInv'
      BY <2>0, <2>1, <2>2 DEF TypeOK, Issued, OneTokenPerFamily, Unrevoked
    <2>4. RevokingExisting'
      BY <2>1 DEF RevokingExisting, Issued
    <2> QED BY <2>3, <2>4
  <1> QED
    BY <1>7, <1>8, <1>9, <1>10, <1>11, <1>12, <1>13, <1>14, <1>15, <1>16, <1>17 DEF Next

\* It holds from the start ...
LEMMA SessionsStart == Init => SessionsInv /\ RevokingExisting
  BY SessionsAssumption DEF Init, SessionsInv, TypeOK, OneTokenPerFamily, Unrevoked, Issued,
     Tokens, RequestStates, RevokingExisting, Idle

\* ... and ever after.
LEMMA SessionsInvariant == Spec => [](SessionsInv /\ RevokingExisting)
<1>1. Init => SessionsInv /\ RevokingExisting
  BY SessionsStart
<1>2. SessionsInv /\ RevokingExisting /\ [Next]_vars => (SessionsInv /\ RevokingExisting)'
  BY SessionsStep
<1> QED BY <1>1, <1>2, PTL DEF Spec

\* Tokens, families and requests keep their types.
THEOREM SessionsTypes == Spec => []TypeOK
<1>1. SessionsInv => TypeOK
  BY DEF SessionsInv
<1> QED BY <1>1, SessionsInvariant, PTL

\* However many refreshes present the same token at once, and whatever
\* logins and revocations run beside them, a session has one live token.
THEOREM OneToken == Spec => []OneTokenPerFamily
<1>1. SessionsInv => OneTokenPerFamily
  BY DEF SessionsInv
<1> QED BY <1>1, SessionsInvariant, PTL

\* A session that has lost its last token never comes back.
THEOREM ClosedForGood == Spec => ClosedStaysClosed
<1> DEFINE Closed(f) == \A t \in Issued : family[t] = f => t \in revoked
<1>1. ASSUME SessionsInv, RevokingExisting, [Next]_vars,
             NEW f \in {family[t] : t \in Issued}, Closed(f)
      PROVE  Closed(f)'
  <2>1. issued \in Nat /\ f \in 1..issued
    BY <1>1, SessionsAssumption DEF SessionsInv, TypeOK, Issued
  <2>2. ASSUME NEW g, NEW gone, Issue(g, gone), g # f
        PROVE  Closed(f)'
    BY <1>1, <2>1, <2>2, SessionsAssumption DEF SessionsInv, TypeOK, Issue, Issued, Tokens
  <2>3. ASSUME NEW r \in Requests, LoginCommit(r)
        PROVE  Closed(f)'
    BY <2>1, <2>2, <2>3 DEF LoginCommit
  <2>4. ASSUME NEW r \in Requests, Rotate(r)
        PROVE  Closed(f)'
    <3>1. family[req[r].token] # f
      BY <1>1, <2>4, RequestFields DEF Rotate, SessionsInv
    <3> QED BY <2>2, <2>4, <3>1 DEF Rotate
  <2>5. ASSUME issued' = issued, family' = family, revoked \subseteq revoked'
        PROVE  Closed(f)'
    BY <1>1, <2>5 DEF Issued
  <2> QED
    BY <1>1, <2>3, <2>4, <2>5 DEF Next, LoginStart, LoginCount, LoginFindOldest, RefreshLookup,
       LogoutLookup, RotateTooLate, RevokeSnapshot, RevokeApply, Logout, UpdateUser, Abort,
       Reactivate, Expire, tokens, vars
<1>2. SessionsInv /\ RevokingExisting /\ [Next]_vars
        => [\A f \in {family[t] : t \in Issued} :
              (\A t \in Issued : family[t] = f => t \in revoked)
                => (\A t \in Issued' : family'[t] = f => t \in revoked')]_vars
  BY <1>1
<1> QED BY <1>2, SessionsInvariant, PTL DEF Spec, ClosedStaysClosed

-----------------------------------------------------------------------------
(* The limit on sessions.                                                  *)

NoneRefreshed == \A t \in Issued : family[t] = t

\* Log-ins between their count and their commit.
InLogin == {r \in Requests : req[r].phase \in {"full", "enter"}}

\* The advisory lock lets one log-in at a time count and commit.  What it
\* found when it counted can only have become less, so that it makes room
\* for its token.
MakesRoom(r) ==
  /\ req[r].phase = "full" => Cardinality(UsableAt(req[r].now)) <= MaxSessions
  /\ req[r].phase = "enter" => Cardinality(Usable \ req[r].victim) < MaxSessions

LimitInv ==
  /\ \A r, q \in InLogin : r = q
  /\ \A r \in Requests : req[r].phase = "full" => req[r].now \in Nat /\ req[r].now <= expired
  /\ NoneRefreshed =>
       Cardinality(Usable) <= MaxSessions /\ \A r \in Requests : MakesRoom(r)

\* Sets of tokens are finite, and smaller ones have no more elements.
LEMMA SetsOfTokens ==
  ASSUME TypeOK, NEW S, S \subseteq Issued
  PROVE  /\ IsFiniteSet(S) /\ Cardinality(S) \in Nat
         /\ \A T \in SUBSET S : Cardinality(T) \in Nat /\ Cardinality(T) <= Cardinality(S)
<1>1. issued \in Nat
  BY SessionsAssumption DEF TypeOK
<1>2. IsFiniteSet(Issued)
  BY <1>1, FS_Interval DEF Issued
<1> QED BY <1>2, FS_Subset, FS_CardinalityType

\* A set of tokens has an oldest one.
LEMMA OldestThere ==
  ASSUME NEW S, S \subseteq Nat, S # {}
  PROVE  \E v \in S : v \in Oldest(S)
<1> DEFINE Below == {ss \in Nat \X Nat : ss[1] < ss[2]}
<1>1. IsWellFoundedOn(Below, Nat)
  BY NatLessThanWellFounded, Zenon DEF OpToRel
<1>2. PICK v \in S : \A u \in S : ~(<<u, v>> \in Below)
  BY <1>1, WFMin, Zenon
<1>3. ASSUME NEW u \in S, u < v
      PROVE  FALSE
  <2>1. <<u, v>> \in Nat \X Nat /\ <<u, v>>[1] = u /\ <<u, v>>[2] = v
    OBVIOUS
  <2>2. <<u, v>> \in Below
    BY <1>3, <2>1, Zenon
  <2> QED BY <1>2, <2>2, Zenon
<1>4. \A u \in S : v <= u
  <2>1. v \in Nat /\ \A u \in S : u \in Nat
    OBVIOUS
  <2> HIDE DEF Below
  <2> QED BY <1>3, <2>1
<1> QED BY <1>4 DEF Oldest

\* A step that issues no token, and leaves every log-in that has counted
\* where it is or takes it out, keeps the limit.
LEMMA QuietKeepsLimit ==
  ASSUME LimitInv, TypeOK,
         issued' = issued, family' = family, revoked \subseteq revoked',
         expired' \in Nat, expired <= expired',
         \A q \in Requests : req'[q].phase \in {"full", "enter"} => req'[q] = req[q]
  PROVE  LimitInv'
<1>1. /\ Issued' = Issued /\ NoneRefreshed' = NoneRefreshed
      /\ InLogin' \subseteq InLogin
  BY DEF Issued, NoneRefreshed, InLogin
<1>2. /\ Unrevoked' \subseteq Unrevoked /\ Unrevoked \subseteq Issued
      /\ \A t \in Issued : t \in Nat
  BY <1>1 DEF Unrevoked, Issued
<1>3. expired \in Nat
  BY SessionsAssumption DEF TypeOK
<1>4. Usable' \subseteq Usable /\ Usable \subseteq Issued
  BY <1>2, <1>3 DEF Usable, UsableAt
<1>5. \A now \in Nat : UsableAt(now)' \subseteq UsableAt(now) /\ UsableAt(now) \subseteq Issued
  BY <1>2 DEF UsableAt
<1>6. MaxSessions \in Nat
  BY SessionsAssumption
<1>7. \A r, q \in InLogin' : r = q
  BY <1>1 DEF LimitInv
<1>8. \A r \in Requests : req'[r].phase = "full" => req'[r].now \in Nat /\ req'[r].now <= expired'
  BY <1>3 DEF LimitInv
<1>9. ASSUME NoneRefreshed'
      PROVE  Cardinality(Usable') <= MaxSessions /\ \A r \in Requests : MakesRoom(r)'
  <2>1. NoneRefreshed
    BY <1>1, <1>9
  <2>2. Cardinality(Usable') <= MaxSessions
    <3>1. Cardinality(Usable) <= MaxSessions
      BY <2>1 DEF LimitInv
    <3> QED BY <1>4, <1>6, <3>1, SetsOfTokens
  <2>3. ASSUME NEW r \in Requests
        PROVE  MakesRoom(r)'
    <3>1. CASE req'[r].phase = "full"
      <4>1. req'[r] = req[r] /\ req[r].now \in Nat
        BY <3>1 DEF LimitInv
      <4>2. Cardinality(UsableAt(req[r].now)) <= MaxSessions
        BY <2>1, <3>1, <4>1 DEF LimitInv, MakesRoom
      <4> DEFINE now == req[r].now
                 U == {t \in Unrevoked : t > now}
                 V == {t \in Unrevoked' : t > now}
      <4>3. V \in SUBSET U /\ U \subseteq Issued /\ U = UsableAt(req[r].now)
        BY <1>2 DEF UsableAt
      <4>4. Cardinality(V) <= MaxSessions
        <5> HIDE DEF U, V
        <5> QED BY <1>6, <4>2, <4>3, SetsOfTokens
      <4>5. MakesRoom(r)' <=> Cardinality(V) <= MaxSessions
        BY <3>1, <4>1 DEF MakesRoom, UsableAt
      <4> QED BY <4>4, <4>5
    <3>2. CASE req'[r].phase = "enter"
      <4>1. req'[r] = req[r]
        BY <3>2
      <4>2. Cardinality(Usable \ req[r].victim) < MaxSessions
        BY <2>1, <3>2, <4>1 DEF LimitInv, MakesRoom
      <4>3. /\ Usable' \ req[r].victim \in SUBSET (Usable \ req[r].victim)
            /\ Usable \ req[r].victim \subseteq Issued
        BY <1>4
      <4>4. Cardinality(Usable' \ req[r].victim) < MaxSessions
        BY <1>6, <4>2, <4>3, SetsOfTokens
      <4> QED BY <3>2, <4>1, <4>4 DEF MakesRoom
    <3> QED BY <3>1, <3>2 DEF MakesRoom
  <2> QED BY <2>2, <2>3
<1> QED BY <1>7, <1>8, <1>9 DEF LimitInv

\* Every step keeps the limit.
LEMMA LimitStep ==
  ASSUME LimitInv, SessionsInv, RevokingExisting, [Next]_vars
  PROVE  LimitInv'
<1> USE DEF SessionsInv
<1>1. /\ issued \in Nat /\ expired \in Nat /\ MaxSessions \in Nat \ {0}
      /\ \A t \in Issued : t \in Nat
      /\ Usable \subseteq Issued
  BY SessionsAssumption DEF TypeOK, Issued, Usable, UsableAt, Unrevoked
<1>2. ASSUME issued' = issued, family' = family, revoked \subseteq revoked', expired' = expired,
             NEW r \in Requests, NEW state, Become(r, state),
             state.phase \notin {"full", "enter"}
      PROVE  LimitInv'
  <2>1. \A q \in Requests : req'[q].phase \in {"full", "enter"} => req'[q] = req[q]
    BY <1>2 DEF Become, TypeOK
  <2> QED BY <1>1, <1>2, <2>1, QuietKeepsLimit
<1>3. Idle.phase \notin {"full", "enter"}
  BY DEF Idle
<1>4. ASSUME NEW r \in Requests,
             \/ LoginStart(r) \/ RotateTooLate(r) \/ RevokeSnapshot(r)
             \/ UpdateUser(r) \/ Abort(r)
             \/ \E t \in Tokens : RefreshLookup(r, t) \/ LogoutLookup(r, t)
      PROVE  LimitInv'
  <2>1. PICK state : Become(r, state) /\ state.phase \notin {"full", "enter"}
    <3>1. CASE LoginStart(r) \/ RevokeSnapshot(r) \/ Abort(r)
      BY <1>3, <3>1 DEF LoginStart, RevokeSnapshot, Abort
    <3>2. ASSUME NEW which, NEW deactivate, Become(r, Revoking(which, deactivate))
          PROVE  \E state : Become(r, state) /\ state.phase \notin {"full", "enter"}
      <4>1. Revoking(which, deactivate).phase = "revoke"
        BY DEF Revoking
      <4> QED BY <3>2, <4>1
    <3>4. CASE RotateTooLate(r)
      BY <3>2, <3>4 DEF RotateTooLate
    <3>5. CASE UpdateUser(r)
      BY <3>2, <3>5 DEF UpdateUser
    <3>3. ASSUME NEW t \in Tokens, RefreshLookup(r, t) \/ LogoutLookup(r, t)
          PROVE  \E state : Become(r, state) /\ state.phase \notin {"full", "enter"}
      BY <3>3 DEF RefreshLookup, LogoutLookup, Revoking
    <3> QED BY <1>4, <3>1, <3>3, <3>4, <3>5
  <2>2. UNCHANGED <<tokens, expired>>
    BY <1>4 DEF LoginStart, RotateTooLate, RevokeSnapshot, UpdateUser, Abort, RefreshLookup,
       LogoutLookup
  <2> QED BY <1>2, <2>1, <2>2 DEF tokens
<1>5. ASSUME NEW r \in Requests, RevokeApply(r) \/ Logout(r)
      PROVE  LimitInv'
  BY <1>2, <1>3, <1>5 DEF RevokeApply, Logout
<1>6. CASE Reactivate \/ Expire \/ UNCHANGED vars
  <2>1. /\ issued' = issued /\ family' = family /\ revoked' = revoked /\ req' = req
        /\ expired' = expired \/ expired' = expired + 1
    BY <1>6 DEF Reactivate, Expire, vars, tokens
  <2> QED BY <1>1, <2>1, QuietKeepsLimit
<1>7. ASSUME NEW r \in Requests, LoginCount(r)
      PROVE  LimitInv'
  <2>1. /\ Become(r, Counted) /\ UNCHANGED <<active, tokens, expired>>
        /\ InLogin = {}
    BY <1>7 DEF LoginCount, LoginLocked, InLogin
  <2>2. /\ Usable' = Usable /\ NoneRefreshed' = NoneRefreshed
        /\ \A now : UsableAt(now)' = UsableAt(now)
    BY <2>1 DEF tokens, Usable, UsableAt, Unrevoked, Issued, NoneRefreshed
  <2>3. /\ req'[r] = Counted
        /\ \A q \in Requests : q # r => req'[q].phase \notin {"full", "enter"}
    BY <2>1 DEF Become, TypeOK, InLogin
  <2>4. Counted.phase = "full" => Counted.now = expired
    BY DEF Counted
  <2>5. Counted.phase = "enter" =>
          Cardinality(Usable) < MaxSessions /\ Counted.victim = {}
    <3>1. Cardinality(Usable) \in Nat
      BY <1>1, SetsOfTokens
    <3> QED BY <1>1, <3>1 DEF Counted
  <2>6. UsableAt(expired) = Usable /\ Usable \ {} = Usable
    BY DEF Usable
  <2>7. \A q, p \in InLogin' : q = p
    BY <2>3 DEF InLogin
  <2>8. expired' = expired
    BY <2>1
  <2>9. \A q \in Requests : req'[q].phase = "full" => req'[q].now \in Nat /\ req'[q].now <= expired'
    BY <1>1, <2>3, <2>4, <2>8
  <2>10. ASSUME NoneRefreshed'
         PROVE  Cardinality(Usable') <= MaxSessions /\ \A q \in Requests : MakesRoom(q)'
    <3>1. Cardinality(Usable) <= MaxSessions
      BY <2>2, <2>10 DEF LimitInv
    <3>2. UsableAt(expired)' = Usable
      BY <2>2, <2>8 DEF Usable
    <3>3. MakesRoom(r)'
      <4>1. CASE Counted.phase = "full"
        <5>1. req'[r].now = expired'
          BY <2>3, <2>4, <2>8, <4>1
        <5> QED BY <2>3, <3>1, <3>2, <4>1, <5>1 DEF MakesRoom, UsableAt, Usable
      <4>2. CASE Counted.phase = "enter"
        BY <2>2, <2>3, <2>5, <2>6, <4>2 DEF MakesRoom
      <4> QED BY <2>3, <4>1, <4>2 DEF MakesRoom
    <3>4. ASSUME NEW q \in Requests, q # r
          PROVE  MakesRoom(q)'
      BY <2>3, <3>4 DEF MakesRoom
    <3> QED BY <2>2, <3>1, <3>3, <3>4
  <2> QED BY <2>7, <2>9, <2>10 DEF LimitInv
<1>8. ASSUME NEW r \in Requests, LoginFindOldest(r)
      PROVE  LimitInv'
  <2> DEFINE U == UsableAt(req[r].now)
             victim == Oldest(U)
  <2>1. /\ req[r].phase = "full"
        /\ Become(r, [phase |-> "enter", victim |-> victim])
        /\ UNCHANGED <<active, tokens, expired>>
    BY <1>8 DEF LoginFindOldest
  <2>2. Usable' = Usable /\ NoneRefreshed' = NoneRefreshed /\ expired' = expired
    BY <2>1 DEF tokens, Usable, UsableAt, Unrevoked, Issued, NoneRefreshed
  <2>3. \A q \in Requests : q # r => req'[q].phase \notin {"full", "enter"}
    BY <2>1 DEF Become, TypeOK, LimitInv, InLogin
  <2>4. req'[r].phase = "enter" /\ req'[r].victim = victim
    BY <2>1 DEF Become, TypeOK
  <2>5. req[r].now \in Nat /\ req[r].now <= expired
    BY <2>1 DEF LimitInv
  <2>6. U \subseteq Issued /\ Usable \subseteq U
    BY <1>1, <2>5 DEF UsableAt, Usable, Unrevoked
  <2>7. ASSUME NoneRefreshed
        PROVE  Cardinality(Usable) <= MaxSessions /\ Cardinality(Usable \ victim) < MaxSessions
    <3>1. Cardinality(Usable) <= MaxSessions /\ Cardinality(U) <= MaxSessions
      BY <2>1, <2>7 DEF LimitInv, MakesRoom
    <3>2. CASE U = {}
      <4>1. Usable \ victim = {}
        BY <2>6, <3>2
      <4>2. Cardinality(Usable \ victim) = 0
        BY <4>1, FS_EmptySet
      <4> QED BY <1>1, <3>1, <4>2
    <3>3. CASE U # {}
      <4>1. PICK v \in U : v \in victim
        <5>1. U \subseteq Nat
          BY <1>1, <2>6
        <5> HIDE DEF U
        <5> QED BY <3>3, <5>1, OldestThere
      <4> HIDE DEF U, victim
      <4>2. IsFiniteSet(U) /\ Cardinality(U) \in Nat
        BY <2>6, SetsOfTokens
      <4>3. Cardinality(U \ {v}) = Cardinality(U) - 1
        BY <4>2, FS_RemoveElement
      <4>4. Usable \ victim \in SUBSET (U \ {v}) /\ U \ {v} \subseteq Issued
        BY <2>6, <4>1
      <4>5. Cardinality(Usable \ victim) \in Nat
            /\ Cardinality(Usable \ victim) <= Cardinality(U \ {v})
        BY <4>4, SetsOfTokens
      <4> QED BY <1>1, <3>1, <4>2, <4>3, <4>5
    <3> QED BY <3>2, <3>3
  <2> HIDE DEF U, victim
  <2>8. \A q, p \in InLogin' : q = p
    BY <2>3 DEF InLogin
  <2>9. \A q \in Requests : req'[q].phase # "full"
    BY <2>3, <2>4
  <2>10. \A q \in Requests : req'[q].phase = "enter" => q = r
    BY <2>3
  <2> QED BY <2>2, <2>4, <2>7, <2>8, <2>9, <2>10 DEF LimitInv, MakesRoom
<1>9. ASSUME NEW r \in Requests, LoginCommit(r)
      PROVE  LimitInv'
  <2> DEFINE new == issued + 1
             victim == req[r].victim
  <2>1. /\ req[r].phase = "enter" /\ Issue(new, victim) /\ Become(r, Idle)
        /\ expired' = expired
    BY <1>9 DEF LoginCommit
  <2>2. \A q \in Requests : req'[q].phase \notin {"full", "enter"}
    BY <1>3, <2>1 DEF Become, TypeOK, LimitInv, InLogin
  <2>3. /\ new \in Tokens /\ Issued' = Issued \cup {new} /\ new \notin Issued
        /\ \A t \in Issued : family'[t] = family[t]
    BY <1>1, <2>1, SessionsAssumption DEF Issue, Issued, Tokens, TypeOK
  <2>4. NoneRefreshed' => NoneRefreshed
    BY <2>3 DEF NoneRefreshed
  <2>5. Usable' \subseteq (Usable \ victim) \cup {new}
    BY <2>1, <2>3 DEF Usable, UsableAt, Unrevoked, Issue
  <2>6. ASSUME NoneRefreshed'
        PROVE  Cardinality(Usable') <= MaxSessions
    <3> DEFINE rest == Usable \ victim
    <3>1. Cardinality(rest) < MaxSessions
      BY <2>1, <2>4, <2>6 DEF LimitInv, MakesRoom
    <3>2. rest \subseteq Issued
      BY <1>1
    <3> HIDE DEF rest, new
    <3>3. IsFiniteSet(rest) /\ Cardinality(rest) \in Nat
      BY <3>2, SetsOfTokens
    <3>7. /\ IsFiniteSet(rest \cup {new})
          /\ \/ Cardinality(rest \cup {new}) = Cardinality(rest)
             \/ Cardinality(rest \cup {new}) = Cardinality(rest) + 1
      BY <3>3, FS_AddElement
    <3>4. IsFiniteSet(rest \cup {new}) /\ Cardinality(rest \cup {new}) <= Cardinality(rest) + 1
          /\ Cardinality(rest \cup {new}) \in Nat
      <4> QED BY <3>3, <3>7
    <3>5. Usable' \in SUBSET (rest \cup {new})
      BY <2>5 DEF rest
    <3>6. Cardinality(Usable') <= Cardinality(rest \cup {new}) /\ Cardinality(Usable') \in Nat
      BY <3>4, <3>5, FS_Subset, FS_CardinalityType
    <3> QED BY <1>1, <3>1, <3>3, <3>4, <3>6
  <2> QED BY <2>2, <2>6 DEF LimitInv, InLogin, MakesRoom
<1>10. ASSUME NEW r \in Requests, Rotate(r)
       PROVE  LimitInv'
  <2> DEFINE new == issued + 1
             t == req[r].token
  <2>1. /\ req[r].phase = "rotate" /\ Issue(family[t], {t}) /\ Become(r, Idle)
        /\ expired' = expired
    BY <1>10 DEF Rotate
  <2>2. \A q \in Requests : req'[q].phase \in {"full", "enter"} => req'[q] = req[q]
    BY <1>3, <2>1 DEF Become, TypeOK
  <2>3. InLogin' \subseteq InLogin
    BY <2>2 DEF InLogin
  <2>4. t \in Issued
    BY <2>1, RequestFields
  <2>5. family[t] \in Nat /\ family[t] <= issued
    BY <1>1, <2>4 DEF TypeOK, Issued
  <2>6. new \in Issued' /\ family'[new] = family[t]
    BY <1>1, <2>1, SessionsAssumption DEF Issue, Issued, Tokens, TypeOK
  <2>7. ~NoneRefreshed'
    BY <1>1, <2>5, <2>6 DEF NoneRefreshed
  <2> QED BY <2>1, <2>2, <2>3, <2>7 DEF LimitInv
<1> QED
  BY <1>4, <1>5, <1>6, <1>7, <1>8, <1>9, <1>10 DEF Next

\* As long as no session was refreshed, log-ins keep within the limit,
\* however they overlap with each other and with revocations.
THEOREM WithinLimit == Spec => []SessionLimit
<1>1. Init => LimitInv
  <2> SUFFICES ASSUME Init PROVE LimitInv
    OBVIOUS
  <2>1. Usable = {} /\ InLogin = {}
    BY DEF Init, Usable, UsableAt, Unrevoked, Issued, InLogin, Idle
  <2>2. \A r \in Requests : req[r].phase \notin {"full", "enter"}
    BY DEF Init, Idle
  <2> QED BY <2>1, <2>2, FS_EmptySet, SessionsAssumption DEF LimitInv, MakesRoom
<1>2. SessionsInv /\ RevokingExisting /\ LimitInv /\ [Next]_vars => LimitInv'
  BY LimitStep
<1>3. LimitInv => SessionLimit
  BY DEF LimitInv, SessionLimit, NoneRefreshed
<1> QED BY <1>1, <1>2, <1>3, SessionsInvariant, PTL DEF Spec

-----------------------------------------------------------------------------
(* The sign-in: neither counts lost nor counts written back lock an        *)
(* account too soon or lift its lock.                                      *)

\* A step of the sign-in is a step of Sessions, or leaves it alone.
LEMMA SignInStep ==
  ASSUME [SignInNext]_allvars
  PROVE  [Next]_vars
  <1>1. ASSUME NEW r \in Requests, Knock(r)
        PROVE  Next
    BY <1>1 DEF Knock, Next
  <1>2. ASSUME NEW r \in Requests, ClearLock(r) \/ Right(r)
        PROVE  UNCHANGED vars
    BY <1>2 DEF ClearLock, Right
  <1>3. ASSUME NEW r \in Requests, Wrong(r) \/ GiveUp(r)
        PROVE  Next
    BY <1>3 DEF Wrong, GiveUp, Next
  <1>4. ASSUME NEW r \in Requests, OpenStep(r) \/ OpenSession(r)
        PROVE  Next
    BY <1>4 DEF OpenStep, OpenSession, Next
  <1>5. ASSUME NEW r \in Requests, Others(r)
        PROVE  Next
    BY <1>5 DEF Others, Next
  <1>6. ASSUME Reactivate \/ Expire
        PROVE  Next
    BY <1>6 DEF Next
  <1>7. ASSUME Unlock \/ LockEnds \/ UNCHANGED allvars
        PROVE  UNCHANGED vars
    BY <1>7 DEF Unlock, LockEnds, allvars
  <1> QED
    BY <1>1, <1>2, <1>3, <1>4, <1>5, <1>6, <1>7 DEF SignInNext

\* What is proved of Sessions therefore holds behind the password.
LEMMA SignInImplementsSessions == SignInSpec => Spec
<1>1. SignInInit => Init
  BY DEF SignInInit
<1> QED BY <1>1, SignInStep, PTL DEF SignInSpec, Spec

\* A session of somebody who signs in with a password does not split.
THEOREM SignInOneToken == SignInSpec => []OneTokenPerFamily
<1> QED BY SignInImplementsSessions, OneToken, PTL

-----------------------------------------------------------------------------
(* The lock.                                                               *)

\* Unless a count was written back, what is counted on the row has been
\* entered since, and so has what attempts will count on.
CountsAreReal ==
  ~carried =>
    /\ failed <= wrong \/ wrong = Threshold
    /\ \A r \in Requests \ stale : attempt[r].seen <= wrong \/ wrong = Threshold

\* Unless a count was lost, all that were entered are counted on the row; a
\* row that counts enough is locked, until it forgets; and only attempts
\* that may write remember a count.
CountsAreKept ==
  /\ lost \/ wrong <= failed
  /\ failed < Threshold \/ lock # "none"
  /\ \A r \in Requests \ Undecided : attempt[r].seen = 0

SignInInv == SignInTypeOK /\ CountsAreReal /\ CountsAreKept /\ LocksNeedFailures

Attempts == [stage : Stages, seen : 0..MaxFailed]

\* An attempt that begins, goes on or ends leaves the others alone.
LEMMA OneAttempt ==
  ASSUME TypeOK, SignInTypeOK, NEW r \in Requests, NEW new \in Attempts, NEW state,
         attempt' = [attempt EXCEPT ![r] = new], Become(r, state),
         new.stage # "none" <=> state.phase \in LoginPhases,
         new.stage \in {"clear", "verify"} => state.phase = "login"
  PROVE  /\ attempt' \in [Requests -> Attempts]
         /\ attempt'[r] = new /\ \A q \in Requests \ {r} : attempt'[q] = attempt[q]
         /\ Undecided' \ {r} = Undecided \ {r}
         /\ r \in Undecided' <=> new.stage \in {"clear", "verify"}
         /\ \A q \in Requests :
              /\ ~At(q, "none")' <=> req'[q].phase \in LoginPhases
              /\ At(q, "clear")' \/ At(q, "verify")' => req'[q].phase = "login"
  BY DEF SignInTypeOK, At, Become, TypeOK, Attempts, Undecided

\* When the row forgets, whatever an attempt then does, the invariant holds.
LEMMA ForgetStep ==
  ASSUME SignInInv, Forgive, attempt' \in [Requests -> Attempts],
         \A q \in Requests \ Undecided : attempt'[q].seen = 0,
         \A q \in Requests : attempt'[q].seen = attempt[q].seen \/ attempt'[q].seen = 0,
         Undecided' = Undecided,
         \A q \in Requests :
           /\ ~At(q, "none")' <=> req'[q].phase \in LoginPhases
           /\ At(q, "clear")' \/ At(q, "verify")' => req'[q].phase = "login"
  PROVE  SignInInv'
<1> USE SignInAssumption
<1>1. /\ failed' = 0 /\ lock' = "none" /\ wrong' = 0 /\ stale' = Undecided
      /\ carried' = FALSE /\ lost' = FALSE
  BY DEF Forgive
<1>2. SignInTypeOK'
  <2>1. 0 \in 0..MaxFailed /\ 0 \in 0..Threshold /\ "none" \in LockStates
    BY DEF LockStates
  <2>2. FALSE \in BOOLEAN /\ stale' \subseteq Undecided'
    BY <1>1
  <2> QED BY <1>1, <2>1, <2>2 DEF SignInTypeOK, Attempts
<1>3. CountsAreReal' /\ CountsAreKept' /\ LocksNeedFailures'
  BY <1>1 DEF CountsAreReal, CountsAreKept, LocksNeedFailures
<1> QED BY <1>2, <1>3 DEF SignInInv

\* Every step keeps the invariant.
LEMMA LockStep ==
  ASSUME TypeOK, SignInInv, [SignInNext]_allvars
  PROVE  SignInInv'
  <1> USE SignInAssumption DEF SignInInv
  <1>0. /\ failed \in 0..MaxFailed /\ lock \in LockStates /\ wrong \in 0..Threshold
        /\ attempt \in [Requests -> Attempts]
        /\ stale \subseteq Undecided /\ Undecided \subseteq Requests
    BY DEF SignInTypeOK, Attempts, Undecided
  <1>1. ASSUME NEW r \in Requests, Knock(r)
        PROVE  SignInInv'
    <2> DEFINE new == [stage |-> IF lock = "over" THEN "clear" ELSE "verify", seen |-> failed]
    <2>1. new \in Attempts /\ new.seen = failed /\ new.stage \in {"clear", "verify"}
      BY <1>0 DEF Attempts, Stages
    <2>2. /\ attempt' = [attempt EXCEPT ![r] = new] /\ Become(r, [phase |-> "login"])
          /\ UNCHANGED <<failed, lock, wrong, stale, carried, lost>>
      BY <1>1 DEF Knock, LoginStart, history
    <2> HIDE DEF new
    <2>3. /\ attempt' \in [Requests -> Attempts]
          /\ attempt'[r] = new /\ \A q \in Requests \ {r} : attempt'[q] = attempt[q]
          /\ Undecided' = Undecided \cup {r}
          /\ \A q \in Requests :
               /\ ~At(q, "none")' <=> req'[q].phase \in LoginPhases
               /\ At(q, "clear")' \/ At(q, "verify")' => req'[q].phase = "login"
      <3>1. "login" \in LoginPhases /\ "none" \notin {"clear", "verify"}
        BY DEF LoginPhases
      <3>2. Undecided' \subseteq Requests
        BY DEF Undecided
      <3> HIDE DEF SignInInv
      <3>3. /\ attempt' \in [Requests -> Attempts]
            /\ attempt'[r] = new /\ \A q \in Requests \ {r} : attempt'[q] = attempt[q]
            /\ Undecided' \ {r} = Undecided \ {r} /\ r \in Undecided'
            /\ \A q \in Requests :
                 /\ ~At(q, "none")' <=> req'[q].phase \in LoginPhases
                 /\ At(q, "clear")' \/ At(q, "verify")' => req'[q].phase = "login"
        BY <2>1, <2>2, <3>1, OneAttempt DEF SignInInv
      <3>4. Undecided' = Undecided \cup {r}
        BY <1>0, <3>2, <3>3
      <3> QED BY <3>3, <3>4
    <2>4. SignInTypeOK'
      BY <1>0, <2>2, <2>3 DEF SignInTypeOK, Attempts
    <2>5. CountsAreReal' /\ CountsAreKept'
      BY <1>0, <2>1, <2>2, <2>3 DEF CountsAreReal, CountsAreKept
    <2> QED BY <2>2, <2>4, <2>5 DEF LocksNeedFailures
  <1>2. ASSUME NEW r \in Requests, ClearLock(r)
        PROVE  SignInInv'
    <2>1. /\ attempt' = [attempt EXCEPT ![r].stage = "verify"] /\ req' = req /\ Forgive
          /\ At(r, "clear")
      BY <1>2 DEF ClearLock, vars
    <2>2. attempt' \in [Requests -> Attempts]
      BY <1>0, <2>1 DEF Attempts, Stages
    <2>3. \A q \in Requests : attempt'[q].seen = attempt[q].seen
      BY <1>0, <2>1 DEF Attempts
    <2>4. \A q \in Requests \ Undecided : attempt'[q].seen = 0
      BY <2>3 DEF CountsAreKept
    <2>5. /\ attempt'[r].stage = "verify"
          /\ \A q \in Requests \ {r} : attempt'[q].stage = attempt[q].stage
      BY <1>0, <2>1 DEF Attempts
    <2>6. Undecided' = Undecided
      BY <2>1, <2>5 DEF Undecided, At
    <2>7. \A q \in Requests :
            /\ ~At(q, "none")' <=> req'[q].phase \in LoginPhases
            /\ At(q, "clear")' \/ At(q, "verify")' => req'[q].phase = "login"
      BY <2>1, <2>5 DEF SignInTypeOK, At
    <2> HIDE DEF SignInInv
    <2> QED BY <2>1, <2>2, <2>3, <2>4, <2>6, <2>7, ForgetStep
  <1>3. ASSUME NEW r \in Requests, Right(r)
        PROVE  SignInInv'
    <2> DEFINE new == [stage |-> "right", seen |-> 0]
    <2>1. /\ attempt' = [attempt EXCEPT ![r] = new] /\ req' = req /\ At(r, "verify")
          /\ stale' = stale \ {r}
          /\ UNCHANGED <<failed, lock, wrong, carried, lost>>
      BY <1>3 DEF Right, vars
    <2>2. /\ attempt' \in [Requests -> Attempts] /\ attempt'[r] = new
          /\ \A q \in Requests \ {r} : attempt'[q] = attempt[q]
      BY <1>0, <2>1 DEF Attempts, Stages
    <2>3. Undecided' = Undecided \ {r}
      BY <2>2 DEF Undecided, At
    <2>4. \A q \in Requests :
            /\ ~At(q, "none")' <=> req'[q].phase \in LoginPhases
            /\ At(q, "clear")' \/ At(q, "verify")' => req'[q].phase = "login"
      BY <2>1, <2>2 DEF SignInTypeOK, At
    <2>5. SignInTypeOK'
      BY <1>0, <2>1, <2>2, <2>3, <2>4 DEF SignInTypeOK, Attempts
    <2>6. CountsAreReal'
      BY <1>0, <2>1, <2>2 DEF CountsAreReal
    <2>7. CountsAreKept'
      BY <1>0, <2>1, <2>2, <2>3 DEF CountsAreKept
    <2> QED BY <2>1, <2>5, <2>6, <2>7 DEF LocksNeedFailures
  \* An attempt ends with its request.
  <1>4. ASSUME NEW r \in Requests, EndAttempt(r), Become(r, Idle)
        PROVE  /\ attempt' \in [Requests -> Attempts] /\ attempt'[r].seen = 0
               /\ \A q \in Requests \ {r} : attempt'[q] = attempt[q]
               /\ Undecided' = Undecided \ {r}
               /\ \A q \in Requests :
                    /\ ~At(q, "none")' <=> req'[q].phase \in LoginPhases
                    /\ At(q, "clear")' \/ At(q, "verify")' => req'[q].phase = "login"
    <2>1. NoAttempt \in Attempts /\ NoAttempt.stage = "none" /\ NoAttempt.seen = 0
      BY DEF NoAttempt, Attempts, Stages
    <2>2. Idle.phase \notin LoginPhases /\ "none" \notin {"clear", "verify"}
      BY DEF Idle, LoginPhases
    <2>3. attempt' = [attempt EXCEPT ![r] = NoAttempt]
      BY <1>4 DEF EndAttempt
    <2>4. Undecided' \subseteq Requests
      BY DEF Undecided
    <2> HIDE DEF SignInInv
    <2>5. /\ attempt' \in [Requests -> Attempts]
          /\ attempt'[r] = NoAttempt /\ \A q \in Requests \ {r} : attempt'[q] = attempt[q]
          /\ Undecided' \ {r} = Undecided \ {r} /\ r \notin Undecided'
          /\ \A q \in Requests :
               /\ ~At(q, "none")' <=> req'[q].phase \in LoginPhases
               /\ At(q, "clear")' \/ At(q, "verify")' => req'[q].phase = "login"
      BY <1>4, <2>1, <2>2, <2>3, OneAttempt DEF SignInInv
    <2>6. Undecided' = Undecided \ {r}
      BY <1>0, <2>4, <2>5
    <2> QED BY <2>1, <2>5, <2>6
  <1>5. ASSUME NEW r \in Requests, Wrong(r)
        PROVE  SignInInv'
    <2>1. /\ failed' = attempt[r].seen + 1 /\ failed' <= MaxFailed
          /\ lock' = IF failed' >= Threshold THEN "on" ELSE lock
          /\ wrong' = IF wrong < Threshold THEN wrong + 1 ELSE wrong
          /\ stale' = stale \ {r}
          /\ carried' = (carried \/ r \in stale)
          /\ lost' = (lost \/ attempt[r].seen # failed)
          /\ EndAttempt(r) /\ Become(r, Idle)
      BY <1>5 DEF Wrong, Count, Locks, Abort
    <2>2. attempt[r].seen \in 0..MaxFailed
      BY <1>0 DEF Attempts
    <2>3. /\ wrong' \in 0..Threshold /\ wrong <= wrong' /\ failed' \in 0..MaxFailed
          /\ lock' \in LockStates /\ carried' \in BOOLEAN /\ lost' \in BOOLEAN
      BY <1>0, <2>1, <2>2 DEF LockStates, SignInTypeOK
    <2>4. SignInTypeOK'
      BY <1>0, <1>4, <2>1, <2>3 DEF SignInTypeOK, Attempts
    <2>5. ASSUME ~carried'
          PROVE  /\ failed' <= wrong' \/ wrong' = Threshold
                 /\ \A q \in Requests \ stale' : attempt'[q].seen <= wrong' \/ wrong' = Threshold
                 /\ lock' = "on" => wrong' = Threshold
      <3>1. ~carried /\ r \notin stale
        BY <2>1, <2>5
      <3>2. attempt[r].seen <= wrong \/ wrong = Threshold
        BY <3>1 DEF CountsAreReal
      <3>3. failed' <= wrong' \/ wrong' = Threshold
        BY <1>0, <2>1, <2>2, <3>2
      <3>4. ASSUME NEW q \in Requests \ stale'
            PROVE  attempt'[q].seen <= wrong' \/ wrong' = Threshold
        <4>1. CASE q = r
          BY <1>4, <2>1, <2>3, <4>1
        <4>2. CASE q # r
          <5>1. attempt'[q] = attempt[q] /\ attempt[q].seen \in 0..MaxFailed
            BY <1>0, <1>4, <2>1, <4>2 DEF Attempts
          <5>2. attempt[q].seen <= wrong \/ wrong = Threshold
            BY <2>1, <3>1, <3>4, <4>2 DEF CountsAreReal
          <5> QED BY <1>0, <2>3, <5>1, <5>2
        <4> QED BY <4>1, <4>2
      <3>5. lock' = "on" => wrong' = Threshold
        <4>1. CASE failed' >= Threshold
          BY <2>3, <3>3, <4>1
        <4>2. CASE ~(failed' >= Threshold)
          <5>1. lock' = lock
            BY <2>1, <4>2
          <5> QED BY <1>0, <2>3, <3>1, <5>1 DEF LocksNeedFailures
        <4> QED BY <4>1, <4>2
      <3> QED BY <3>3, <3>4, <3>5
    <2>6. lost' \/ wrong' <= failed'
      <3>1. CASE lost \/ attempt[r].seen # failed
        BY <2>1, <3>1
      <3>2. CASE ~lost /\ attempt[r].seen = failed
        <4>1. failed' = failed + 1 /\ wrong <= failed
          BY <2>1, <3>2 DEF CountsAreKept
        <4> QED BY <1>0, <2>1, <4>1
      <3> QED BY <3>1, <3>2
    <2>7. failed' < Threshold \/ lock' # "none"
      BY <2>1, <2>3
    <2>8. \A q \in Requests \ Undecided' : attempt'[q].seen = 0
      BY <1>4, <2>1 DEF CountsAreKept
    <2>9. CountsAreReal' /\ CountsAreKept' /\ LocksNeedFailures'
      BY <2>5, <2>6, <2>7, <2>8 DEF CountsAreReal, CountsAreKept, LocksNeedFailures
    <2> QED BY <2>4, <2>9
  <1>6. ASSUME NEW r \in Requests, OpenSession(r)
        PROVE  SignInInv'
    <2>1. Forgive /\ EndAttempt(r) /\ Become(r, Idle) /\ At(r, "right")
      BY <1>6 DEF OpenSession, LoginCommit
    <2>2. Undecided' = Undecided /\ r \notin Undecided
      BY <1>4, <2>1 DEF Undecided, At
    <2>3. \A q \in Requests \ Undecided : attempt'[q].seen = 0
      BY <1>4, <2>1 DEF CountsAreKept
    <2>4. \A q \in Requests : attempt'[q].seen = attempt[q].seen \/ attempt'[q].seen = 0
      BY <1>4, <2>1
    <2>5. /\ attempt' \in [Requests -> Attempts]
          /\ \A q \in Requests :
               /\ ~At(q, "none")' <=> req'[q].phase \in LoginPhases
               /\ At(q, "clear")' \/ At(q, "verify")' => req'[q].phase = "login"
      BY <1>4, <2>1
    <2> HIDE DEF SignInInv
    <2> QED BY <2>1, <2>2, <2>3, <2>4, <2>5, ForgetStep
  <1>7. ASSUME NEW r \in Requests, GiveUp(r)
        PROVE  SignInInv'
    <2>1. /\ EndAttempt(r) /\ Become(r, Idle)
          /\ stale' = stale \ {r} /\ UNCHANGED <<failed, lock, wrong, carried, lost>>
      BY <1>7 DEF GiveUp, Abort
    <2>2. SignInTypeOK'
      BY <1>0, <1>4, <2>1 DEF SignInTypeOK, Attempts
    <2>3. CountsAreReal'
      BY <1>0, <1>4, <2>1 DEF CountsAreReal
    <2>4. CountsAreKept'
      BY <1>4, <2>1 DEF CountsAreKept
    <2> QED BY <2>1, <2>2, <2>3, <2>4 DEF LocksNeedFailures
  \* Steps that leave the door alone.
  <1>8. ASSUME UNCHANGED door,
               \A q \in Requests : /\ req[q].phase \in LoginPhases <=> req'[q].phase \in LoginPhases
                                   /\ q \in Undecided => req'[q].phase = "login"
        PROVE  SignInInv'
    <2>1. UNCHANGED <<failed, lock, attempt, wrong, stale, carried, lost>>
      BY <1>8 DEF door, history
    <2>2. Undecided' = Undecided
      BY <2>1 DEF Undecided, At
    <2>3. SignInTypeOK'
      BY <1>8, <2>1, <2>2 DEF SignInTypeOK, At, Undecided
    <2> QED BY <2>1, <2>2, <2>3 DEF CountsAreReal, CountsAreKept, LocksNeedFailures
  <1>9. ASSUME NEW r \in Requests, NEW state, Become(r, state), UNCHANGED door,
               req[r].phase \in LoginPhases <=> state.phase \in LoginPhases,
               r \in Undecided => state.phase = "login"
        PROVE  SignInInv'
    <2>1. req'[r] = state /\ \A q \in Requests \ {r} : req'[q] = req[q]
      BY <1>9 DEF Become, TypeOK
    <2>2. \A q \in Undecided : req[q].phase = "login"
      BY DEF SignInTypeOK, Undecided
    <2> HIDE DEF SignInInv
    <2> QED BY <1>8, <1>9, <2>1, <2>2
  <1>10. ASSUME NEW r \in Requests, OpenStep(r)
         PROVE  SignInInv'
    <2>1. UNCHANGED door /\ r \notin Undecided
      BY <1>10 DEF OpenStep, Undecided, At
    <2>2. CASE LoginCount(r)
      BY <1>9, <2>1, <2>2 DEF LoginCount, Counted, LoginPhases
    <2>3. CASE LoginFindOldest(r)
      BY <1>9, <2>1, <2>3 DEF LoginFindOldest, LoginPhases
    <2> QED BY <1>10, <2>2, <2>3 DEF OpenStep
  <1>11. ASSUME NEW r \in Requests, Others(r)
         PROVE  SignInInv'
    <2>1. UNCHANGED door
      BY <1>11 DEF Others
    <2>2. ASSUME NEW state, Become(r, state), req[r].phase \notin LoginPhases,
                 state.phase \notin LoginPhases
          PROVE  SignInInv'
      <3>1. r \notin Undecided
        BY <2>2 DEF SignInTypeOK, LoginPhases, Undecided
      <3> QED BY <1>9, <2>1, <2>2, <3>1
    <2>3. CASE \E t \in Tokens : RefreshLookup(r, t)
      BY <2>2, <2>3 DEF RefreshLookup, Idle, Revoking, LoginPhases
    <2>4. CASE \E t \in Tokens : LogoutLookup(r, t)
      BY <2>2, <2>4 DEF LogoutLookup, Idle, LoginPhases
    <2>5. CASE Rotate(r) \/ RotateTooLate(r)
      BY <2>2, <2>5 DEF Rotate, RotateTooLate, Idle, Revoking, LoginPhases
    <2>6. CASE RevokeSnapshot(r) \/ RevokeApply(r)
      BY <2>2, <2>6 DEF RevokeSnapshot, RevokeApply, Idle, LoginPhases
    <2>7. CASE Logout(r)
      BY <2>2, <2>7 DEF Logout, Idle, LoginPhases
    <2>8. CASE UpdateUser(r)
      BY <2>2, <2>8 DEF UpdateUser, Idle, Revoking, LoginPhases
    <2> QED BY <1>11, <2>3, <2>4, <2>5, <2>6, <2>7, <2>8 DEF Others
  <1>12. CASE req' = req /\ UNCHANGED door
    <2>1. \A q \in Undecided : req[q].phase = "login"
      BY DEF SignInTypeOK, Undecided
    <2> HIDE DEF SignInInv
    <2> QED BY <1>8, <1>12, <2>1
  <1>13. CASE (Reactivate \/ Expire) /\ UNCHANGED door
    BY <1>12, <1>13 DEF Reactivate, Expire
  <1>14. CASE Unlock
    <2>1. Forgive /\ UNCHANGED <<req, attempt>>
      BY <1>14 DEF Unlock, vars
    <2>2. Undecided' = Undecided
      BY <2>1 DEF Undecided, At
    <2>3. \A q \in Requests :
            /\ ~At(q, "none")' <=> req'[q].phase \in LoginPhases
            /\ At(q, "clear")' \/ At(q, "verify")' => req'[q].phase = "login"
      BY <2>1 DEF SignInTypeOK, At
    <2>4. \A q \in Requests \ Undecided : attempt'[q].seen = 0
      BY <2>1 DEF CountsAreKept
    <2> HIDE DEF SignInInv
    <2> QED BY <1>0, <2>1, <2>2, <2>3, <2>4, ForgetStep
  <1>15. CASE LockEnds
    <2>1. /\ lock' = "over"
          /\ UNCHANGED <<req, failed, attempt, wrong, stale, carried, lost>>
      BY <1>15 DEF LockEnds, vars, history
    <2>2. Undecided' = Undecided
      BY <2>1 DEF Undecided, At
    <2>3. SignInTypeOK'
      BY <2>1, <2>2 DEF SignInTypeOK, At, LockStates
    <2> QED BY <2>1, <2>2, <2>3 DEF CountsAreReal, CountsAreKept, LocksNeedFailures
  <1>16. CASE UNCHANGED allvars
    BY <1>12, <1>16 DEF allvars, vars
  <1> QED
    BY <1>1, <1>2, <1>3, <1>5, <1>6, <1>7, <1>10, <1>11, <1>13, <1>14, <1>15, <1>16
       DEF SignInNext

\* The invariant holds from the start and ever after.
LEMMA SignInInvariant == SignInSpec => []SignInInv
<1>1. SignInInit => SignInInv
  <2> SUFFICES ASSUME SignInInit PROVE SignInInv
    OBVIOUS
  <2>1. /\ failed = 0 /\ lock = "none" /\ wrong = 0 /\ stale = {} /\ ~carried /\ ~lost
        /\ \A r \in Requests : attempt[r].stage = "none" /\ attempt[r].seen = 0
        /\ \A r \in Requests : req[r].phase = "idle"
    BY DEF SignInInit, Init, NoAttempt, Idle
  <2>2. attempt \in [Requests -> Attempts]
    <3>1. NoAttempt \in Attempts
      BY SignInAssumption DEF NoAttempt, Attempts, Stages
    <3> QED BY <3>1 DEF SignInInit
  <2>4. carried \in BOOLEAN /\ lost \in BOOLEAN
    BY DEF SignInInit
  <2>5. SignInTypeOK
    BY <2>1, <2>2, <2>4, SignInAssumption DEF SignInTypeOK, Attempts, LockStates, LoginPhases, At
  <2>3. CountsAreReal /\ CountsAreKept /\ LocksNeedFailures
    BY <2>1, SignInAssumption DEF CountsAreReal, CountsAreKept, LocksNeedFailures
  <2> QED BY <2>3, <2>5 DEF SignInInv
<1>2. TypeOK /\ SignInInv /\ [SignInNext]_allvars => SignInInv'
  BY LockStep
<1> QED
  BY <1>1, <1>2, SignInImplementsSessions, SessionsTypes, PTL DEF SignInSpec

\* The user row, the attempts and their logins agree.
THEOREM SignInTypes == SignInSpec => []SignInTypeOK
<1>1. SignInInv => SignInTypeOK
  BY DEF SignInInv
<1> QED BY <1>1, SignInInvariant, PTL

\* Nobody is locked out before Threshold wrong passwords since they were last
\* forgiven, although every attempt writes a count it has computed from an
\* older row, unless it had read that row before.
THEOREM NotLockedTooSoon == SignInSpec => []LocksNeedFailures
<1>1. SignInInv => LocksNeedFailures
  BY DEF SignInInv
<1> QED BY <1>1, SignInInvariant, PTL

\* Threshold wrong passwords since they were last forgiven lock the account,
\* unless one was counted over another.
THEOREM LockedInTime == SignInSpec => []LocksComeInTime
<1>1. SignInInv => LocksComeInTime
  BY SignInAssumption DEF SignInInv, SignInTypeOK, CountsAreKept, LocksComeInTime
<1> QED BY <1>1, SignInInvariant, PTL

\* A wrong password never lifts a lock, whatever it has read before.
THEOREM LockIsKept == SignInSpec => LockHolds
<1> DEFINE Lifted == \/ Unlock
                     \/ \E r \in Requests : At(r, "right") /\ req'[r] = Idle
                     \/ \E r \in Requests : At(r, "clear")
<1>1. ASSUME TypeOK, [SignInNext]_allvars, lock = "on", lock' = "none"
      PROVE  Lifted
  <2>1. ASSUME NEW r \in Requests, OpenSession(r)
        PROVE  Lifted
    <3>1. At(r, "right") /\ req'[r] = Idle
      BY <1>1, <2>1 DEF OpenSession, LoginCommit, Become, TypeOK
    <3> QED BY <3>1
  <2>2. ASSUME NEW r \in Requests, ClearLock(r)
        PROVE  Lifted
    BY <2>2 DEF ClearLock
  <2>3. ASSUME NEW r \in Requests, Wrong(r)
        PROVE  FALSE
    BY <1>1, <2>3 DEF Wrong
  <2>4. ASSUME NEW r \in Requests, Knock(r) \/ Right(r) \/ GiveUp(r)
        PROVE  FALSE
    BY <1>1, <2>4 DEF Knock, Right, GiveUp
  <2>5. ASSUME UNCHANGED door
        PROVE  FALSE
    BY <1>1, <2>5 DEF door
  <2>6. ASSUME NEW r \in Requests, OpenStep(r) \/ Others(r)
        PROVE  FALSE
    BY <2>5, <2>6 DEF OpenStep, Others
  <2>7. ASSUME LockEnds \/ UNCHANGED allvars
        PROVE  FALSE
    BY <1>1, <2>7 DEF LockEnds, allvars, door
  <2>8. ASSUME Unlock
        PROVE  Lifted
    BY <2>8
  <2>9. CASE \E r \in Requests :
               \/ Knock(r) \/ ClearLock(r) \/ Right(r) \/ Wrong(r) \/ OpenStep(r) \/ OpenSession(r)
               \/ GiveUp(r) \/ Others(r)
    <3> HIDE DEF Lifted
    <3> QED BY <2>1, <2>2, <2>3, <2>4, <2>6, <2>9
  <2> HIDE DEF Lifted
  <2> QED
    BY <1>1, <2>5, <2>7, <2>8, <2>9 DEF SignInNext
<1>2. TypeOK /\ [SignInNext]_allvars =>
        [lock = "on" /\ lock' = "none" => Lifted]_allvars
  BY <1>1
<1> QED
  BY <1>2, SignInImplementsSessions, SessionsTypes, PTL DEF SignInSpec, LockHolds

-----------------------------------------------------------------------------
(* The tabs of a browser: while its exchanges follow each other, and none  *)
(* fails, its cookie and what its tabs show agree.                         *)

\* A request under way carries the cookie as it is, the server has looked up
\* no other token for it, and refuses it or answers what was asked for.
Exchange(r) ==
  /\ sent[r] # Nothing => sent[r].cookie = cookie
  /\ sent[r] = Nothing => answer[r] = NoAnswer
  /\ req[r] # Idle => sent[r] # Nothing /\ answer[r] = NoAnswer
  /\ \/ req[r] = Idle
     \/ r[2] = "login" /\ req[r].phase \in {"login", "full", "enter"}
     \/ r[2] = "refresh" /\ req[r].phase = "rotate" /\ req[r].token = cookie
     \/ r[2] = "logout" /\ req[r].phase = "logout" /\ req[r].token = cookie
  /\ \/ answer[r] \in {NoAnswer, Refusal}
     \/ r[2] = "logout" /\ answer[r] = Cleared
     \/ /\ r[2] # "logout" /\ answer[r] = Granted(answer[r].token)
        /\ answer[r].token \in Unrevoked

\* What the cookie will hold, unless it is refused, is a token that is not
\* revoked; and who is still inside without a cookie has the news to come.
CookieAgrees ==
  IF cookie = 0
  THEN \A t \in Tabs : inbox[t] # <<"token">> /\ (t \in inside => inbox[t] = <<"logout">>)
  ELSE cookie \in Unrevoked \/ \E r \in Requests : answer[r].kind \in {"granted", "cleared"}

\* One exchange at a time, and its messages are heard before the next.
InOrder ==
  /\ active
  /\ \A r \in Requests : Exchange(r)
  /\ \A r, q \in Requests : sent[r] # Nothing /\ sent[q] # Nothing => r = q
  /\ \A t \in Tabs : inbox[t] \in {<<>>, <<"token">>, <<"logout">>}
  /\ (\E r \in Requests : sent[r] # Nothing) => \A t \in Tabs : inbox[t] = <<>>
  /\ CookieAgrees

\* The variables of the browser are functions of its tabs and requests.
BrowserShape ==
  /\ DOMAIN sent = Requests /\ DOMAIN answer = Requests /\ DOMAIN inbox = Tabs
  /\ inside \subseteq Tabs

TabsInv == BrowserShape /\ (~hurried => InOrder)

\* A step of the browser is a step of its sessions, or leaves them alone.
LEMMA BrowserStep ==
  ASSUME TypeOK, [BrowserNext]_everything
  PROVE  [Next]_vars
<1>1. \A t \in Issued : t \in Tokens
  BY SessionsAssumption DEF TypeOK, Issued, Tokens
<1>2. ASSUME NEW r \in Requests, Serve(r)
      PROVE  Next
  <2>1. \A t : RefreshLookup(r, t) \/ LogoutLookup(r, t) => t \in Tokens
    BY <1>1 DEF RefreshLookup, LogoutLookup, Unrevoked
  <2> QED BY <1>2, <2>1 DEF Serve, Next
<1>3. ASSUME NEW r \in Requests, Answer(r)
      PROVE  Next
  BY <1>3 DEF Answer, Next
<1>4. ASSUME NEW r \in Requests, Break(r) \/ BeyondBound(r)
      PROVE  Next
  BY <1>4 DEF Break, BeyondBound, Fail, Next
<1>5. CASE Age
  BY <1>5 DEF Age, Next
<1>6. ASSUME NEW r \in Requests, AnswerAtOnce(r) \/ Enter(r) \/ Vain(r) \/ Leave(r)
      PROVE  UNCHANGED vars
  BY <1>6 DEF AnswerAtOnce, Enter, Vain, Leave, Done
<1>7. ASSUME NEW tab \in Tabs,
             Refused(tab) \/ SignIn(tab) \/ ClickLogout(tab) \/ Load(tab) \/ Hear(tab) \/ Lapse(tab)
      PROVE  UNCHANGED vars
  BY <1>7 DEF Refused, SignIn, ClickLogout, Load, Hear, Lapse, Send
<1> QED BY <1>2, <1>3, <1>4, <1>5, <1>6, <1>7 DEF BrowserNext, everything

\* What tabs do, several at once and page loads in between, their sessions
\* allow: a session of a browser does not split either.
LEMMA BrowserImplementsSessions == BrowserSpec => Spec
<1>1. BrowserInit => Init /\ SessionsInv /\ RevokingExisting
  <2> SUFFICES ASSUME BrowserInit
               PROVE  Init /\ SessionsInv /\ RevokingExisting
    OBVIOUS
  <2>1. Init
    BY DEF BrowserInit
  <2> QED BY <2>1, SessionsStart
<1>2. SessionsInv /\ RevokingExisting /\ [BrowserNext]_everything
        => [Next]_vars /\ (SessionsInv /\ RevokingExisting)'
  BY BrowserStep, SessionsStep DEF SessionsInv
<1> QED BY <1>1, <1>2, PTL DEF BrowserSpec, Spec

\* Beside the one request under way all is quiet.
LEMMA OneExchange ==
  ASSUME InOrder, NEW r \in Requests, sent[r] # Nothing
  PROVE  /\ \A q \in Requests \ {r} :
              sent[q] = Nothing /\ answer[q] = NoAnswer /\ req[q] = Idle
         /\ \A t \in Tabs : inbox[t] = <<>>
         /\ cookie = 0 => inside \cap Tabs = {}
         /\ cookie # 0 => cookie \in Unrevoked \/ answer[r].kind \in {"granted", "cleared"}
<1>1. \A q \in Requests \ {r} : sent[q] = Nothing /\ answer[q] = NoAnswer /\ req[q] = Idle
  BY DEF InOrder, Exchange
<1>2. \A t \in Tabs : inbox[t] = <<>>
  BY DEF InOrder
<1>3. cookie = 0 => inside \cap Tabs = {}
  <2>1. <<>> # <<"logout">>
    OBVIOUS
  <2> QED BY <1>2, <2>1 DEF InOrder, CookieAgrees
<1>4. NoAnswer.kind \notin {"granted", "cleared"}
  BY DEF NoAnswer
<1>5. cookie # 0 => cookie \in Unrevoked \/ answer[r].kind \in {"granted", "cleared"}
  BY <1>1, <1>4 DEF InOrder, CookieAgrees
<1> QED BY <1>1, <1>2, <1>3, <1>5

\* An exchange that goes on, alone, keeps the order.
LEMMA ExchangeGoesOn ==
  ASSUME NEW r \in Requests, active', Exchange(r)',
         \A q \in Requests \ {r} :
           sent'[q] = Nothing /\ answer'[q] = NoAnswer /\ req'[q] = Idle,
         \A t \in Tabs : inbox'[t] = <<>>,
         cookie' = 0 => inside' = {},
         cookie' # 0 => cookie' \in Unrevoked' \/ answer'[r].kind \in {"granted", "cleared"}
  PROVE  InOrder'
<1>1. \A q \in Requests : Exchange(q)'
  BY DEF Exchange
<1>2. CookieAgrees'
  <2>1. <<>> # <<"token">>
    OBVIOUS
  <2> QED BY <2>1 DEF CookieAgrees
<1> QED BY <1>1, <1>2 DEF InOrder

\* When no request is left under way, the order is a matter of the cookie
\* and of the messages that are on their way.
LEMMA ExchangeIsOver ==
  ASSUME active', CookieAgrees',
         \A q \in Requests : sent'[q] = Nothing /\ answer'[q] = NoAnswer /\ req'[q] = Idle,
         \A t \in Tabs : inbox'[t] \in {<<>>, <<"token">>, <<"logout">>}
  PROVE  InOrder'
<1>1. \A q \in Requests : Exchange(q)'
  BY DEF Exchange
<1> QED BY <1>1 DEF InOrder

\* Requests have different tabs or different kinds.
LEMMA RequestPairs ==
  /\ \A r \in Requests : r[1] \in Tabs /\ r[2] \in Kinds
  /\ \A tab \in Tabs, k \in Kinds : <<tab, k>> \in Requests
  /\ \A r \in Requests : \A tab, k : r[1] = tab /\ r[2] = k => r = <<tab, k>>
BY BrowserAssumption

\* A request is sent when the one before is over.
LEMMA SendInOrder ==
  ASSUME TypeOK, BrowserShape, InOrder, NEW r \in Requests, Send(r), Calm
  PROVE  InOrder'
<1>1. \A q \in Requests : sent[q] = Nothing /\ answer[q] = NoAnswer /\ req[q] = Idle
  BY DEF InOrder, Exchange, Calm
<1>2. /\ sent'[r] = With(cookie, FALSE) /\ \A q \in Requests \ {r} : sent'[q] = Nothing
      /\ UNCHANGED <<active, revoked, issued, req, cookie, inside, answer, inbox>>
  BY <1>1 DEF Send, BrowserShape, vars, tokens
<1>3. \A t \in Tabs : inbox[t] = <<>>
  BY DEF Calm
<1>4. cookie = 0 => inside = {}
  <2>1. <<>> # <<"logout">>
    OBVIOUS
  <2> QED BY <1>3, <2>1 DEF InOrder, CookieAgrees, BrowserShape
<1>5. cookie # 0 => cookie \in Unrevoked
  BY <1>1 DEF InOrder, CookieAgrees, NoAnswer
<1>6. Exchange(r)'
  BY <1>1, <1>2 DEF Exchange, With
<1>7. active /\ Unrevoked' = Unrevoked
  BY <1>2 DEF InOrder, Unrevoked, Issued
<1> QED BY <1>1, <1>2, <1>3, <1>4, <1>5, <1>6, <1>7, ExchangeGoesOn

\* A page is loaded when all is quiet.
LEMMA LoadInOrder ==
  ASSUME TypeOK, BrowserShape, InOrder, NEW tab \in Tabs, Load(tab), Calm
  PROVE  InOrder'
<1> DEFINE r == <<tab, "refresh">>
<1>1. \A q \in Requests : sent[q] = Nothing /\ answer[q] = NoAnswer /\ req[q] = Idle
  BY DEF InOrder, Exchange, Calm
<1>2. r \in Requests /\ \A q \in Requests \ {r} : ~(q[1] = tab /\ q[2] = "refresh")
  BY RequestPairs DEF Kinds
<1>3. /\ sent'[r] = With(cookie, TRUE) /\ \A q \in Requests \ {r} : sent'[q] = Nothing
      /\ \A q \in Requests : answer'[q] = NoAnswer
      /\ \A t \in Tabs : inbox'[t] = <<>>
      /\ inside' \subseteq inside
      /\ UNCHANGED <<active, revoked, issued, req, cookie>>
  BY <1>1, <1>2 DEF Load, Calm, BrowserShape, vars, tokens
<1>4. cookie = 0 => inside = {}
  <2>1. <<>> # <<"logout">> /\ \A t \in Tabs : inbox[t] = <<>>
    BY DEF Calm
  <2> QED BY <2>1 DEF InOrder, CookieAgrees, BrowserShape
<1>5. cookie # 0 => cookie \in Unrevoked
  BY <1>1 DEF InOrder, CookieAgrees, NoAnswer
<1> HIDE DEF r
<1>6. Exchange(r)'
  BY <1>1, <1>2, <1>3 DEF Exchange, With
<1>7. active /\ Unrevoked' = Unrevoked
  BY <1>3 DEF InOrder, Unrevoked, Issued
<1> QED BY <1>1, <1>2, <1>3, <1>4, <1>5, <1>6, <1>7, ExchangeGoesOn

\* The server goes on with the request under way, or answers it.
LEMMA ServerInOrder ==
  ASSUME SessionsInv, BrowserShape, InOrder, NEW r \in Requests,
         AnswerAtOnce(r) \/ Serve(r) \/ Answer(r)
  PROVE  InOrder'
<1> DEFINE t == sent[r].cookie
<1> USE DEF SessionsInv
<1>1. sent[r] # Nothing /\ answer[r] = NoAnswer
  <2>1. CASE Answer(r)
    <3>1. req[r] # Idle
      BY <2>1 DEF Answer, LoginCommit, Rotate, Logout, RevokeApply, Idle
    <3> QED BY <3>1 DEF InOrder, Exchange
  <2> QED BY <2>1 DEF AnswerAtOnce, Serve, Waiting
<1>2. /\ \A q \in Requests \ {r} : sent[q] = Nothing /\ answer[q] = NoAnswer /\ req[q] = Idle
      /\ \A tab \in Tabs : inbox[tab] = <<>>
      /\ cookie = 0 => inside = {}
  BY <1>1, OneExchange DEF BrowserShape
<1>3. t = cookie /\ (cookie # 0 => cookie \in Unrevoked)
  BY <1>1, OneExchange DEF InOrder, Exchange, NoAnswer
<1>4. active /\ Exchange(r)
  BY DEF InOrder
<1>8. /\ req[r].phase \in {"login", "full", "enter"} => r[2] = "login"
      /\ req[r].phase = "rotate" => r[2] = "refresh" /\ req[r].token = cookie
      /\ req[r].phase = "logout" => r[2] = "logout" /\ req[r].token = cookie
      /\ req[r].phase \in {"idle", "login", "full", "enter", "rotate", "logout"}
  BY <1>4 DEF Exchange, Idle
<1>5. ASSUME AnswerAtOnce(r)
      PROVE  InOrder'
  <2>1. /\ UNCHANGED <<active, issued, revoked, req, cookie, inside, sent, inbox>>
        /\ req[r] = Idle
        /\ \A q \in Requests \ {r} : answer'[q] = answer[q]
        /\ answer'[r] = Refusal \/ (r[2] = "logout" /\ answer'[r] = Cleared)
    BY <1>5 DEF AnswerAtOnce, Tab, vars, tokens, Reply, BrowserShape
  <2>2. Exchange(r)'
    BY <1>1, <1>4, <2>1 DEF Exchange, Unrevoked, Issued
  <2>3. Unrevoked' = Unrevoked
    BY <2>1 DEF Unrevoked, Issued
  <2> QED BY <1>2, <1>3, <1>4, <2>1, <2>2, <2>3, ExchangeGoesOn
<1>6. ASSUME Serve(r)
      PROVE  InOrder'
  <2>1. /\ UNCHANGED <<active, issued, revoked, cookie, inside, sent, answer, inbox>>
        /\ \A q \in Requests \ {r} : req'[q] = req[q]
    BY <1>6 DEF Serve, browser, tokens, LoginStart, RefreshLookup, LogoutLookup, LoginCount,
       LoginFindOldest, RotateTooLate, RevokeSnapshot, Become, TypeOK
  <2>2. \/ r[2] = "login" /\ req'[r].phase \in {"login", "full", "enter"}
        \/ r[2] = "refresh" /\ req'[r].phase = "rotate" /\ req'[r].token = cookie
        \/ r[2] = "logout" /\ req'[r].phase = "logout" /\ req'[r].token = cookie
    <3>1. ASSUME NEW state, Become(r, state)
          PROVE  req'[r] = state
      BY <3>1 DEF Become, TypeOK
    <3>2. CASE r[2] = "login" /\ LoginStart(r)
      BY <3>1, <3>2 DEF LoginStart
    <3>3. CASE r[2] = "refresh" /\ RefreshLookup(r, t)
      <4>1. t # 0
        BY <3>3, SessionsAssumption DEF RefreshLookup, Issued, TypeOK
      <4>2. t \notin revoked
        BY <1>3, <4>1 DEF Unrevoked
      <4>3. Become(r, [phase |-> "rotate", token |-> t])
        BY <1>4, <3>3, <4>2 DEF RefreshLookup
      <4> QED BY <1>3, <3>1, <3>3, <4>3
    <3>4. CASE r[2] = "logout" /\ LogoutLookup(r, t)
      BY <1>3, <3>1, <3>4 DEF LogoutLookup
    <3>5. CASE LoginCount(r)
      BY <1>8, <3>1, <3>5 DEF LoginCount, Counted
    <3>6. CASE LoginFindOldest(r)
      BY <1>8, <3>1, <3>6 DEF LoginFindOldest
    <3>7. CASE RotateTooLate(r)
      <4>1. req[r].token = cookie /\ cookie \in revoked /\ cookie \in Issued
        BY <1>8, <3>7, RequestFields DEF RotateTooLate
      <4>2. cookie # 0
        BY <4>1, SessionsAssumption DEF Issued, TypeOK
      <4> QED BY <1>3, <4>1, <4>2 DEF Unrevoked
    <3>8. CASE RevokeSnapshot(r)
      BY <1>8, <3>8 DEF RevokeSnapshot
    <3> QED BY <1>6, <3>2, <3>3, <3>4, <3>5, <3>6, <3>7, <3>8 DEF Serve
  <2>3. Unrevoked' = Unrevoked
    BY <2>1 DEF Unrevoked, Issued
  <2>4. Exchange(r)'
    BY <1>1, <1>4, <2>1, <2>2, <2>3 DEF Exchange
  <2> QED BY <1>2, <1>3, <1>4, <2>1, <2>3, <2>4, ExchangeGoesOn
<1>7. ASSUME Answer(r)
      PROVE  InOrder'
  <2>1. /\ UNCHANGED <<cookie, inside, sent, inbox>>
        /\ \A q \in Requests \ {r} : answer'[q] = answer[q]
    BY <1>7 DEF Answer, Tab, Reply, BrowserShape
  <2>2. Become(r, Idle) /\ active' = active
    <3>1. ~RevokeApply(r)
      BY <1>8 DEF RevokeApply
    <3> QED BY <1>7, <3>1 DEF Answer, LoginCommit, Rotate, Logout
  <2>3. req'[r] = Idle /\ \A q \in Requests \ {r} : req'[q] = req[q]
    BY <2>2 DEF Become, TypeOK
  <2>4. \/ /\ r[2] # "logout" /\ answer'[r] = Granted(issued + 1)
           /\ issued + 1 \in Unrevoked'
        \/ r[2] = "logout" /\ answer'[r] = Cleared
    <3>1. CASE (LoginCommit(r) \/ Rotate(r)) /\ Reply(r, Granted(issued + 1))
      <4>1. PICK f, gone : Issue(f, gone) /\ gone \subseteq Issued
        <5>1. CASE LoginCommit(r)
          BY <5>1, RequestFields DEF LoginCommit
        <5>2. CASE Rotate(r)
          <6>1. Issue(family[req[r].token], {req[r].token}) /\ req[r].token \in Issued
            BY <5>2, RequestFields DEF Rotate
          <6> QED BY <6>1
        <5> QED BY <3>1, <5>1, <5>2
      <4>2. issued + 1 \in Unrevoked'
        BY <4>1, SessionsAssumption DEF Issue, Unrevoked, Issued, TypeOK
      <4>3. r[2] # "logout"
        BY <1>8, <3>1 DEF LoginCommit, Rotate
      <4> QED BY <3>1, <4>2, <4>3 DEF Reply, BrowserShape
    <3>2. CASE (Logout(r) \/ RevokeApply(r)) /\ Reply(r, Cleared)
      <4>1. r[2] = "logout"
        BY <1>8, <3>2 DEF Logout, RevokeApply
      <4> QED BY <3>2, <4>1 DEF Reply, BrowserShape
    <3> QED BY <1>7, <3>1, <3>2 DEF Answer
  <2>5. answer'[r].kind \in {"granted", "cleared"}
    BY <2>4 DEF Granted, Cleared
  <2>6. Exchange(r)'
    BY <1>1, <1>4, <2>1, <2>3, <2>4 DEF Exchange, Granted
  <2> QED BY <1>2, <1>3, <1>4, <2>1, <2>2, <2>3, <2>5, <2>6, ExchangeGoesOn
<1> QED BY <1>5, <1>6, <1>7

\* Somebody comes in: the cookie holds the token granted, and the other
\* tabs may be told.
LEMMA EnterInOrder ==
  ASSUME SessionsInv, BrowserShape, InOrder, NEW r \in Requests, Enter(r)
  PROVE  InOrder'
<1>1. answer[r].kind = "granted" /\ answer[r] # NoAnswer /\ answer[r] # Refusal /\ answer[r] # Cleared
  BY DEF Enter, NoAnswer, Refusal, Cleared
<1>2. sent[r] # Nothing /\ req[r] = Idle /\ answer[r].token \in Unrevoked /\ active
  BY <1>1 DEF InOrder, Exchange
<1>3. /\ \A q \in Requests \ {r} : sent[q] = Nothing /\ answer[q] = NoAnswer /\ req[q] = Idle
      /\ \A t \in Tabs : inbox[t] = <<>>
  BY <1>2, OneExchange
<1>4. /\ cookie' = answer[r].token
      /\ sent' = [sent EXCEPT ![r] = Nothing] /\ answer' = [answer EXCEPT ![r] = NoAnswer]
      /\ UNCHANGED <<active, issued, revoked, req>>
      /\ inbox' = inbox \/ Told(r[1], "token")
  BY <1>1 DEF Enter, CookieAfter, Done, vars, tokens
<1>5. \A q \in Requests : sent'[q] = Nothing /\ answer'[q] = NoAnswer /\ req'[q] = Idle
  BY <1>2, <1>3, <1>4 DEF BrowserShape
<1>6. \A t \in Tabs : inbox'[t] \in {<<>>, <<"token">>, <<"logout">>}
  <2>1. Append(<<>>, "token") = <<"token">>
    OBVIOUS
  <2> QED BY <1>3, <1>4, <2>1 DEF Told, BrowserShape
<1>7. cookie' # 0 /\ cookie' \in Unrevoked'
  BY <1>2, <1>4, SessionsAssumption DEF Unrevoked, Issued
<1> QED BY <1>2, <1>4, <1>5, <1>6, <1>7, ExchangeIsOver DEF CookieAgrees

\* A refresh in vain leaves the cookie, and may log out.
LEMMA VainInOrder ==
  ASSUME SessionsInv, BrowserShape, InOrder, NEW r \in Requests, Vain(r)
  PROVE  InOrder'
<1> DEFINE out == <<r[1], "logout">>
<1>1. answer[r].kind \in {"refused", "cleared"} /\ r[2] # "logout" /\ answer[r] # NoAnswer
  BY DEF Vain, NoAnswer
<1>2. sent[r] # Nothing /\ req[r] = Idle /\ answer[r] = Refusal /\ active
  <2>1. \A t : Granted(t).kind = "granted"
    BY DEF Granted
  <2>2. Exchange(r) /\ active
    BY DEF InOrder
  <2>3. answer[r] = Refusal
    BY <1>1, <2>1, <2>2, Zenon DEF Exchange
  <2> QED BY <1>1, <2>2, <2>3 DEF Exchange
<1>3. /\ \A q \in Requests \ {r} : sent[q] = Nothing /\ answer[q] = NoAnswer /\ req[q] = Idle
      /\ \A t \in Tabs : inbox[t] = <<>>
      /\ cookie = 0 => inside = {}
      /\ cookie # 0 => cookie \in Unrevoked
  BY <1>2, OneExchange DEF BrowserShape, Refusal
<1>4. /\ answer' = [answer EXCEPT ![r] = NoAnswer]
      /\ UNCHANGED <<active, issued, revoked, req, inside, inbox>>
      /\ cookie' = cookie
  BY <1>2 DEF Vain, CookieAfter, Done, vars, tokens, Refusal
<1>5. out \in Requests /\ out # r
  BY <1>1, RequestPairs DEF Kinds
<1>6. /\ \A q \in Requests \ {out} : sent'[q] = Nothing
      /\ sent'[out] \in {Nothing, With(cookie, FALSE)}
  BY <1>3, <1>4, <1>5 DEF Vain
<1>7. \A q \in Requests : answer'[q] = NoAnswer /\ req'[q] = Idle
  BY <1>2, <1>3, <1>4 DEF BrowserShape
<1>8. Unrevoked' = Unrevoked
  BY <1>4 DEF Unrevoked, Issued
<1> HIDE DEF out
<1>9. Exchange(out)'
  BY <1>4, <1>5, <1>6, <1>7 DEF Exchange, With
<1> QED BY <1>2, <1>3, <1>4, <1>5, <1>6, <1>7, <1>8, <1>9, ExchangeGoesOn

\* Somebody logs out: the cookie is gone, and the other tabs are told.
LEMMA LeaveInOrder ==
  ASSUME SessionsInv, BrowserShape, InOrder, NEW r \in Requests, Leave(r)
  PROVE  InOrder'
<1>1. r[2] = "logout" /\ answer[r] # NoAnswer
  BY DEF Leave
<1>2. sent[r] # Nothing /\ req[r] = Idle /\ answer[r] \in {Refusal, Cleared} /\ active
  BY <1>1 DEF InOrder, Exchange
<1>3. /\ \A q \in Requests \ {r} : sent[q] = Nothing /\ answer[q] = NoAnswer /\ req[q] = Idle
      /\ \A t \in Tabs : inbox[t] = <<>>
      /\ cookie # 0 => cookie \in Unrevoked \/ answer[r].kind \in {"granted", "cleared"}
  BY <1>2, OneExchange
<1>4. /\ sent' = [sent EXCEPT ![r] = Nothing] /\ answer' = [answer EXCEPT ![r] = NoAnswer]
      /\ UNCHANGED <<active, issued, revoked, req>>
      /\ inside' = inside \ {r[1]} /\ Told(r[1], "logout") /\ cookie' = CookieAfter(r)
  BY DEF Leave, Done, vars, tokens
<1>5. \A q \in Requests : sent'[q] = Nothing /\ answer'[q] = NoAnswer /\ req'[q] = Idle
  BY <1>2, <1>3, <1>4 DEF BrowserShape
<1>6. \A t \in Tabs : inbox'[t] = IF t = r[1] THEN <<>> ELSE <<"logout">>
  <2>1. Append(<<>>, "logout") = <<"logout">>
    OBVIOUS
  <2> QED BY <1>3, <1>4, <2>1 DEF Told, BrowserShape
<1>7. Unrevoked' = Unrevoked
  BY <1>4 DEF Unrevoked, Issued
<1>8. cookie' # 0 => cookie' \in Unrevoked'
  BY <1>2, <1>3, <1>4, <1>7 DEF CookieAfter, Refusal, Cleared
<1>9. CookieAgrees'
  <2>1. <<>> # <<"token">> /\ <<"logout">> # <<"token">>
    OBVIOUS
  <2> QED BY <1>4, <1>6, <1>8, <2>1 DEF CookieAgrees
<1> QED BY <1>2, <1>4, <1>5, <1>6, <1>9, ExchangeIsOver

\* A tab hears of a token or of a logout.
LEMMA HearInOrder ==
  ASSUME BrowserShape, InOrder, NEW tab \in Tabs, Hear(tab)
  PROVE  InOrder'
<1>1. \A q \in Requests : sent[q] = Nothing /\ answer[q] = NoAnswer /\ req[q] = Idle
  BY DEF InOrder, Exchange, Hear
<1>2. inbox[tab] \in {<<"token">>, <<"logout">>}
  BY DEF InOrder, Hear
<1>3. /\ inbox'[tab] = <<>> /\ \A t \in Tabs \ {tab} : inbox'[t] = inbox[t]
      /\ UNCHANGED <<active, issued, revoked, req, cookie, sent, answer>>
  BY <1>2 DEF Hear, BrowserShape, vars, tokens
<1>4. inbox[tab] = <<"logout">> => inside' = inside \ {tab}
  <2>1. Head(<<"logout">>) = "logout"
    OBVIOUS
  <2> QED BY <2>1 DEF Hear
<1>5. Unrevoked' = Unrevoked
  BY <1>3 DEF Unrevoked, Issued
<1>6. CookieAgrees'
  <2>1. CASE cookie = 0
    <3>1. inbox[tab] = <<"logout">> /\ <<>> # <<"token">>
      BY <1>2, <2>1 DEF InOrder, CookieAgrees
    <3> QED BY <1>3, <1>4, <2>1, <3>1 DEF InOrder, CookieAgrees
  <2>2. CASE cookie # 0
    BY <1>1, <1>3, <1>5, <2>2 DEF InOrder, CookieAgrees, NoAnswer
  <2> QED BY <2>1, <2>2
<1>7. \A t \in Tabs : inbox'[t] \in {<<>>, <<"token">>, <<"logout">>}
  BY <1>3 DEF InOrder
<1>8. active'
  BY <1>3 DEF InOrder
<1> QED BY <1>1, <1>3, <1>6, <1>7, <1>8, ExchangeIsOver

\* Every step keeps the browser in order, or is one that hurries or fails.
LEMMA TabsStep ==
  ASSUME SessionsInv, TabsInv, [BrowserNext]_everything
  PROVE  TabsInv'
<1> USE DEF SessionsInv
<1>1. BrowserShape'
  <2> USE DEF BrowserShape
  <2>0. BrowserShape
    BY DEF TabsInv
  <2>1. CASE \E tab \in Tabs :
               Refused(tab) \/ SignIn(tab) \/ ClickLogout(tab) \/ Load(tab) \/ Hear(tab) \/ Lapse(tab)
    <3>1. ASSUME NEW tab \in Tabs, Refused(tab) \/ SignIn(tab) \/ ClickLogout(tab)
          PROVE  BrowserShape'
      BY <2>0, <3>1 DEF Refused, SignIn, ClickLogout, Send
    <3>2. ASSUME NEW tab \in Tabs, Load(tab) \/ Hear(tab) \/ Lapse(tab)
          PROVE  BrowserShape'
      BY <2>0, <3>2 DEF Load, Hear, Lapse
    <3> HIDE DEF BrowserShape
    <3> QED BY <2>1, <3>1, <3>2
  <2>2. CASE \E r \in Requests : AnswerAtOnce(r) \/ Serve(r) \/ Answer(r) \/ Break(r) \/ BeyondBound(r)
    BY <2>2 DEF TabsInv, AnswerAtOnce, Serve, Answer, Break, BeyondBound, Fail, Reply, Tab, browser
  <2>3. CASE \E r \in Requests : Enter(r) \/ Vain(r) \/ Leave(r)
    <3>1. PICK r \in Requests : Enter(r) \/ Vain(r) \/ Leave(r)
      BY <2>3
    <3>2. CASE Enter(r)
      <4>1. DOMAIN sent' = Requests /\ DOMAIN answer' = Requests
        BY <3>2 DEF TabsInv, Enter, Done
      <4>2. DOMAIN inbox' = Tabs
        BY <3>2 DEF TabsInv, Enter, Told
      <4>3. inside' \subseteq Tabs
        BY <3>2, RequestPairs DEF TabsInv, Enter
      <4> QED BY <4>1, <4>2, <4>3
    <3>3. CASE Vain(r)
      <4>1. DOMAIN sent' = Requests /\ DOMAIN answer' = Requests
        BY <3>3 DEF TabsInv, Vain, Done
      <4>2. DOMAIN inbox' = Tabs /\ inside' \subseteq Tabs
        BY <3>3 DEF TabsInv, Vain
      <4> QED BY <4>1, <4>2
    <3>4. CASE Leave(r)
      <4>1. DOMAIN sent' = Requests /\ DOMAIN answer' = Requests
        BY <3>4 DEF TabsInv, Leave, Done
      <4>2. DOMAIN inbox' = Tabs /\ inside' \subseteq Tabs
        BY <3>4 DEF TabsInv, Leave, Told
      <4> QED BY <4>1, <4>2
    <3> QED BY <3>1, <3>2, <3>3, <3>4
  <2>4. CASE Age \/ UNCHANGED everything
    BY <2>4 DEF TabsInv, Age, everything, browser
  <2> QED BY <2>1, <2>2, <2>3, <2>4 DEF BrowserNext
<1>2. ASSUME ~hurried'
      PROVE  InOrder'
  <2> USE DEF TabsInv
  <2>1. ASSUME NEW tab \in Tabs, NEW k \in Kinds, Send(<<tab, k>>)
        PROVE  InOrder'
    <3>1. ~hurried /\ Calm /\ <<tab, k>> \in Requests
      BY <1>2, <2>1, RequestPairs DEF Send
    <3> QED BY <2>1, <3>1, SendInOrder
  <2>2. ASSUME NEW tab \in Tabs, Refused(tab) \/ SignIn(tab) \/ ClickLogout(tab)
        PROVE  InOrder'
    BY <2>1, <2>2 DEF Refused, SignIn, ClickLogout, Kinds
  <2>3. ASSUME NEW tab \in Tabs, Load(tab)
        PROVE  InOrder'
    BY <1>2, <2>3, LoadInOrder DEF Load
  <2>4. ASSUME NEW tab \in Tabs, Hear(tab)
        PROVE  InOrder'
    BY <1>2, <2>4, HearInOrder DEF Hear
  <2>5. ASSUME NEW r \in Requests, AnswerAtOnce(r) \/ Serve(r) \/ Answer(r)
        PROVE  InOrder'
    BY <1>2, <2>5, ServerInOrder DEF AnswerAtOnce, Serve, Answer, browser
  <2>6. ASSUME NEW r \in Requests, Break(r) \/ BeyondBound(r)
        PROVE  InOrder'
    BY <1>2, <2>6 DEF Break, BeyondBound, Fail
  <2>7. ASSUME NEW r \in Requests, Enter(r) \/ Vain(r) \/ Leave(r)
        PROVE  InOrder'
    <3>1. ~hurried
      BY <1>2, <2>7 DEF Enter, Vain, Leave, Done
    <3> QED BY <2>7, <3>1, EnterInOrder, VainInOrder, LeaveInOrder
  <2>8. ASSUME Age \/ (\E tab \in Tabs : Lapse(tab)) \/ UNCHANGED everything
        PROVE  InOrder'
    <3>1. UNCHANGED <<active, issued, revoked, req, cookie, inside, sent, answer, inbox, hurried>>
      BY <2>8 DEF Age, Expire, Lapse, everything, vars, browser, tokens
    <3>2. Unrevoked' = Unrevoked /\ InOrder
      BY <1>2, <3>1 DEF Unrevoked, Issued
    <3> QED BY <3>1, <3>2 DEF InOrder, Exchange, CookieAgrees
  <2> QED BY <2>2, <2>3, <2>4, <2>5, <2>6, <2>7, <2>8 DEF BrowserNext
<1> QED BY <1>1, <1>2 DEF TabsInv

\* As long as exchanges follow each other and none fails, the cookie holds a
\* token that is not revoked, so that no refresh is taken for a replay, and
\* without a cookie no tab shows somebody signed in.
THEOREM TabsAgree == BrowserSpec => []UnhurriedTabsAgree
<1>1. BrowserInit => TabsInv
  <2> SUFFICES ASSUME BrowserInit
               PROVE  TabsInv
    OBVIOUS
  <2>1. active /\ \A r \in Requests : req[r] = Idle
    BY DEF BrowserInit, Init
  <2>2. \A r \in Requests : Exchange(r)
    BY <2>1 DEF BrowserInit, Exchange
  <2>3. CookieAgrees
    <3>1. <<>> # <<"token">>
      OBVIOUS
    <3> QED BY <3>1 DEF BrowserInit, CookieAgrees
  <2> QED BY <2>1, <2>2, <2>3 DEF BrowserInit, TabsInv, BrowserShape, InOrder
<1>2. SessionsInv /\ TabsInv /\ [BrowserNext]_everything => TabsInv'
  BY TabsStep
<1>3. TabsInv => UnhurriedTabsAgree
  <2> SUFFICES ASSUME InOrder, BrowserShape, Calm
               PROVE  IF cookie = 0 THEN inside = {} ELSE cookie \in Unrevoked
    BY DEF TabsInv, UnhurriedTabsAgree
  <2>1. /\ <<>> # <<"logout">> /\ \A t \in Tabs : inbox[t] = <<>>
        /\ \A r \in Requests : answer[r] = NoAnswer
    BY DEF Calm, InOrder, Exchange
  <2> QED BY <2>1 DEF InOrder, CookieAgrees, BrowserShape, NoAnswer
<1> QED
  BY <1>1, <1>2, <1>3, BrowserImplementsSessions, SessionsInvariant, PTL DEF BrowserSpec
=============================================================================
