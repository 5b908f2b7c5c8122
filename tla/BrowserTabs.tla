----------------------------- MODULE BrowserTabs -----------------------------
(***************************************************************************)
(* The tabs of one browser, over Sessions.  They share a cookie, which     *)
(* holds a refresh token, and each keeps an access token of its own in     *)
(* memory.  A tab whose access token is refused, or that is loaded, asks   *)
(* for a refresh; what comes of it, and a logout, it tells the others on a *)
(* channel.  Requests, answers and messages take their time; a page that   *)
(* is loaded again gets none of the answers it was waiting for.            *)
(***************************************************************************)
EXTENDS Sessions, Sequences

CONSTANTS
  Tabs,
  MaxActs  \* times somebody signs in or out or loads a page, a token
           \* expires or a request fails, at most

Kinds == {"login", "refresh", "logout"}

ASSUME BrowserAssumption ==
  /\ Requests = Tabs \X Kinds /\ MaxActs \in Nat
  /\ Calls = CallNames \ {"admin"}

VARIABLES
  cookie,  \* the token in the cookie, or 0
  inside,  \* tabs with an access token
  fresh,   \* tabs that skip a refresh: a token came in the last two seconds
  sent,    \* sent[r]: the request under way, or Nothing
  answer,  \* answer[r]: its answer on the way, or Nothing
  inbox,   \* inbox[tab]: messages of the other tabs
  acts,    \* how often any of these has happened
  hurried  \* an exchange has begun before another was over, or failed

browser == <<cookie, inside, fresh, sent, answer, inbox, acts, hurried>>
everything == <<vars, browser>>

Nothing == [on |-> FALSE, cookie |-> 0, loading |-> FALSE]
NoAnswer == [kind |-> "none", token |-> 0]
Granted(t) == [kind |-> "granted", token |-> t]
Cleared == [kind |-> "cleared", token |-> 0]  \* and the cookie with it
Refusal == [kind |-> "refused", token |-> 0]

\* No request is under way and no message on its way.
Calm == (\A r \in Requests : sent[r] = Nothing) /\ (\A t \in Tabs : inbox[t] = <<>>)

-----------------------------------------------------------------------------
(* What tabs ask for.  The cookie goes with it as it is.                   *)

With(c, loading) == [on |-> TRUE, cookie |-> c, loading |-> loading]
Send(r) ==
  /\ sent[r] = Nothing
  /\ sent' = [sent EXCEPT ![r] = With(cookie, FALSE)]
  /\ hurried' = (hurried \/ ~Calm)
  /\ UNCHANGED <<vars, cookie, inside, fresh, answer, inbox>>

Act == acts < MaxActs /\ acts' = acts + 1

\* A call is refused, and no token came just now.  One refresh serves all
\* calls of the tab that wait for it.
Refused(tab) == tab \in inside \ fresh /\ Send(<<tab, "refresh">>) /\ UNCHANGED acts
SignIn(tab) == Act /\ tab \notin inside /\ Send(<<tab, "login">>)
ClickLogout(tab) == Act /\ tab \in inside /\ Send(<<tab, "logout">>)

\* The page is loaded, its memory is empty, and it asks for a session;
\* requests it had sent are not at work just then.
Load(tab) ==
  /\ Act
  /\ \A k \in Kinds : req[<<tab, k>>] = Idle
  /\ inside' = inside \ {tab} /\ fresh' = fresh \ {tab}
  /\ inbox' = [inbox EXCEPT ![tab] = <<>>]
  /\ sent' = [r \in Requests |->
       IF r[1] # tab THEN sent[r] ELSE IF r[2] = "refresh" THEN With(cookie, TRUE)
       ELSE Nothing]
  /\ answer' = [r \in Requests |-> IF r[1] = tab THEN NoAnswer ELSE answer[r]]
  /\ hurried' = (hurried \/ ~Calm)
  /\ UNCHANGED <<vars, cookie>>

-----------------------------------------------------------------------------
(* What the server makes of it.                                            *)

Waiting(r) == sent[r] # Nothing /\ answer[r] = NoAnswer
Reply(r, a) == answer' = [answer EXCEPT ![r] = a]
Tab == <<cookie, inside, fresh, sent, inbox, acts>>

\* There is nothing to look up, or a token past its time.
AnswerAtOnce(r) ==
  LET t == sent[r].cookie IN
  /\ Waiting(r) /\ req[r] = Idle
  /\ \/ r[2] = "refresh" /\ (t = 0 \/ t \in Unrevoked \ Usable) /\ Reply(r, Refusal)
     \/ r[2] = "logout" /\ t \notin Unrevoked /\ Reply(r, Cleared)
  /\ UNCHANGED <<vars, Tab, hurried>>

Serve(r) ==
  LET t == sent[r].cookie IN
  /\ Waiting(r)
  /\ \/ r[2] = "login" /\ LoginStart(r)
     \/ r[2] = "refresh" /\ RefreshLookup(r, t)
     \/ r[2] = "logout" /\ LogoutLookup(r, t)
     \/ LoginCount(r) \/ LoginFindOldest(r) \/ RotateTooLate(r) \/ RevokeSnapshot(r)
  /\ UNCHANGED browser

Answer(r) ==
  /\ \/ (LoginCommit(r) \/ Rotate(r)) /\ Reply(r, Granted(issued + 1))
     \/ (Logout(r) \/ RevokeApply(r)) /\ Reply(r, Cleared)
  /\ UNCHANGED <<Tab, hurried>>

Fail(r) ==
  /\ Abort(r) /\ Reply(r, Refusal)
  /\ hurried' = TRUE
  /\ UNCHANGED <<cookie, inside, fresh, sent, inbox>>
Break(r) == Act /\ Fail(r)

\* A request for more tokens than the model has fails.
BeyondBound(r) == issued = MaxTokens /\ Fail(r) /\ UNCHANGED acts

Age == Act /\ Expire /\ UNCHANGED <<cookie, inside, fresh, sent, answer, inbox, hurried>>

-----------------------------------------------------------------------------
(* What tabs make of the answers.                                          *)

Told(tab, message) ==
  inbox' = [t \in Tabs |-> IF t = tab THEN inbox[t] ELSE Append(inbox[t], message)]
Done(r) ==
  /\ answer' = [answer EXCEPT ![r] = NoAnswer]
  /\ UNCHANGED <<vars, acts, hurried>>

\* Mutant: the cookie stays what it was.
CookieAfterKept(r) == cookie
CookieAfter(r) == IF answer[r].kind = "refused" THEN cookie ELSE answer[r].token

\* A login is not told to the other tabs, a refresh is.
Enter(r) ==
  LET tab == r[1] IN
  /\ answer[r].kind = "granted" /\ Done(r)
  /\ cookie' = CookieAfter(r)
  /\ inside' = inside \cup {tab}
  /\ sent' = [sent EXCEPT ![r] = Nothing]
  /\ IF r[2] = "login" THEN UNCHANGED <<fresh, inbox>>
     ELSE fresh' = fresh \cup {tab} /\ Told(tab, "token")

\* Mutant: a refresh in vain leaves the tab as it was.
VainQuietly(r) ==
  /\ r[2] # "logout" /\ answer[r].kind \in {"refused", "cleared"} /\ Done(r)
  /\ cookie' = CookieAfter(r)
  /\ sent' = [sent EXCEPT ![r] = Nothing]
  /\ UNCHANGED <<inside, fresh, inbox>>

\* A refresh in vain: a page that was loading shows the login, any other
\* logs out, unless it is logging out already.
Vain(r) ==
  LET out == <<r[1], "logout">> IN
  /\ r[2] # "logout" /\ answer[r].kind \in {"refused", "cleared"} /\ Done(r)
  /\ cookie' = CookieAfter(r)
  /\ sent' = [q \in Requests |->
       IF q = r THEN Nothing
       ELSE IF q = out /\ r[2] = "refresh" /\ ~sent[r].loading /\ sent[q] = Nothing
       THEN With(cookie', FALSE)
       ELSE sent[q]]
  /\ UNCHANGED <<inside, fresh, inbox>>

\* Whatever the server said, the tab forgets its token and says so.
Leave(r) ==
  /\ r[2] = "logout" /\ answer[r] # NoAnswer /\ Done(r)
  /\ cookie' = CookieAfter(r)
  /\ inside' = inside \ {r[1]}
  /\ sent' = [sent EXCEPT ![r] = Nothing]
  /\ Told(r[1], "logout")
  /\ UNCHANGED fresh

Hear(tab) ==
  /\ inbox[tab] # <<>>
  /\ inbox' = [inbox EXCEPT ![tab] = Tail(@)]
  /\ IF Head(inbox[tab]) = "token"
     THEN inside' = inside \cup {tab} /\ fresh' = fresh \cup {tab}
     ELSE inside' = inside \ {tab} /\ UNCHANGED fresh
  /\ UNCHANGED <<vars, cookie, sent, answer, acts, hurried>>

\* REFRESH_DEBOUNCE_MS pass.
Lapse(tab) ==
  /\ tab \in fresh /\ fresh' = fresh \ {tab}
  /\ UNCHANGED <<vars, cookie, inside, sent, answer, inbox, acts, hurried>>

-----------------------------------------------------------------------------
BrowserInit ==
  /\ Init
  /\ cookie = 0 /\ inside = {} /\ fresh = {} /\ acts = 0 /\ hurried = FALSE
  /\ sent = [r \in Requests |-> Nothing]
  /\ answer = [r \in Requests |-> NoAnswer]
  /\ inbox = [t \in Tabs |-> <<>>]

BrowserNext ==
  \/ \E tab \in Tabs :
       Refused(tab) \/ SignIn(tab) \/ ClickLogout(tab) \/ Load(tab) \/ Hear(tab) \/ Lapse(tab)
  \/ \E r \in Requests :
       \/ AnswerAtOnce(r) \/ Serve(r) \/ Answer(r) \/ Break(r) \/ BeyondBound(r)
       \/ Enter(r) \/ Vain(r) \/ Leave(r)
  \/ Age

BrowserSpec == BrowserInit /\ [][BrowserNext]_everything

\* Requests are answered, answers and messages arrive, and a tab that shows
\* somebody signed in goes on making calls.
FairBrowser ==
  /\ BrowserSpec
  /\ \A r \in Requests :
       WF_everything(AnswerAtOnce(r) \/ Serve(r) \/ Answer(r) \/ BeyondBound(r)
                       \/ Enter(r) \/ Vain(r) \/ Leave(r))
  /\ \A tab \in Tabs :
       WF_everything(Hear(tab)) /\ WF_everything(Lapse(tab)) /\ WF_everything(Refused(tab))

-----------------------------------------------------------------------------
(* Properties.                                                             *)

\* While no exchange has begun before another and its messages were over,
\* and none failed, the browser is right: its cookie holds a token that is
\* not revoked, so that no refresh is ever taken for a replay, and without
\* a cookie no tab shows somebody signed in.
UnhurriedTabsAgree ==
  Calm /\ ~hurried =>
    IF cookie = 0 THEN inside = {} ELSE cookie \in Unrevoked

\* However exchanges crossed and failed: without a cookie, tabs do not go on
\* for ever to show somebody signed in.
TabsComeToAgree == cookie = 0 ~> (inside = {} \/ cookie # 0)
=============================================================================
