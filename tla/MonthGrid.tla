------------------------------ MODULE MonthGrid ------------------------------
(***************************************************************************)
(* The grid of monthly operating expenses in one browser, and the rows it  *)
(* saves.  An amount that is entered goes to a buffer; two seconds after   *)
(* the last entry the whole buffer is sent, for the version that is shown  *)
(* then, and when the answer comes the whole buffer is emptied.  The page  *)
(* shows a cache of the server's answer, which every successful request    *)
(* invalidates, and a comment sends the cached amounts of its line along.  *)
(* The nth entry is the amount n, and 0 what was there before.  A request  *)
(* whose answer is lost has been processed.                                *)
(***************************************************************************)
EXTENDS Naturals, Functions

CONSTANTS
  Versions, Lines, Months,
  Home,        \* Home[l]: the version line l belongs to
  MaxEntries,  \* amounts entered at most
  Requests,    \* requests in flight at the same time, at most
  Hasty        \* does the user go on whatever is under way?

ASSUME GridAssumption ==
  /\ Home \in [Lines -> Versions] /\ MaxEntries \in Nat /\ Hasty \in BOOLEAN
  /\ "none" \notin Requests

Cells == Lines \X Months
CellsOf(l) == {l} \X Months
Version(c) == Home[c[1]]
Nothing == <<>>   \* no amounts
\* The amounts of some cells laid over those of others.
Over(f, g) ==
  [c \in DOMAIN f \cup DOMAIN g |-> IF c \in DOMAIN f THEN f[c] ELSE g[c]]

VARIABLES
  rows,     \* rows[v]: MonthlyOpEx of version v, by cell
  shown,    \* shown[v]: the amounts in the query cache of version v
  stale,    \* the versions whose cache is to be fetched again
  page,     \* is the page open?
  version,  \* the version of the workspace
  dirty,    \* the buffer of entries not saved: dirtyMap
  timer,    \* is the flush timer running?
  call,     \* call[r]: the request r under way
  latest,   \* the save whose onSuccess the page waits for, or "none"
  entered,  \* entered[c]: the last entry in cell c, 0 if none
  count     \* the entries until now

server == rows
cache == <<shown, stale>>
editor == <<page, version, dirty, timer>>
user == <<entered, count>>
vars == <<server, cache, editor, call, latest, user>>

Idle == [kind |-> "none"]
Free(r) == call[r] = Idle
Send(r, request) == Free(r) /\ call' = [call EXCEPT ![r] = request]
Saving(kind, amounts) ==
  [kind |-> kind, version |-> version, amounts |-> amounts, state |-> "sent"]
Unsaved == dirty # Nothing
Existing == {l \in Lines : \E v \in Versions : CellsOf(l) \cap DOMAIN rows[v] # {}}

Carries(r, c) == ~Free(r) /\ call[r].kind # "delete" /\ c \in DOMAIN call[r].amounts
UnderWay(c) == \E r \in Requests : Carries(r, c)
Displayed(l) == CellsOf(l) \cap DOMAIN shown[version]

\* Nothing under way, and what is shown is what was fetched last.
Quiet == (\A r \in Requests : Free(r)) /\ version \notin stale
\* What a user who looks at the status strip waits for.
Patience(condition) == Hasty \/ condition

-----------------------------------------------------------------------------
(* The page.                                                               *)

\* An amount is entered: the buffer takes it and the timer starts again.
Type(c) ==
  /\ page /\ c \in DOMAIN shown[version]
  /\ count < MaxEntries /\ count' = count + 1
  /\ entered' = [entered EXCEPT ![c] = count']
  /\ dirty' = Over([d \in {c} |-> count'], dirty)
  /\ timer' = TRUE
  /\ Patience(latest = "none" /\ ~UnderWay(c))
  /\ UNCHANGED <<server, cache, page, version, call, latest>>

\* Mutant: the buffer is emptied when it is sent.
TimerFiresAndForgets(r) ==
  /\ timer /\ timer' = FALSE
  /\ Unsaved /\ dirty' = Nothing
  /\ Send(r, Saving("save", dirty))
  /\ latest' = r
  /\ UNCHANGED <<server, cache, page, version, user>>

\* Two seconds without an entry: what the buffer holds is sent.
TimerFires(r) ==
  /\ timer /\ timer' = FALSE
  /\ \/ /\ Unsaved
        /\ Send(r, Saving("save", dirty))
        /\ latest' = r
     \/ /\ ~Unsaved
        /\ UNCHANGED <<call, latest>>
  /\ UNCHANGED <<server, cache, page, version, dirty, user>>

\* A comment goes out with the amounts of its line as they are shown.
Comment(r, l) ==
  /\ page /\ Displayed(l) # {}
  /\ Patience(/\ version \notin stale
              /\ \A c \in CellsOf(l) : c \notin DOMAIN dirty /\ ~UnderWay(c))
  /\ Send(r, Saving("comment", Restrict(shown[version], Displayed(l))))
  /\ UNCHANGED <<server, cache, editor, latest, user>>

\* A line is deleted in the inspector; the buffer is not told.
DeleteLine(r, l) ==
  /\ page /\ Displayed(l) # {}
  /\ Send(r, [kind |-> "delete", line |-> l, state |-> "sent"])
  /\ UNCHANGED <<server, cache, editor, latest, user>>

\* Another version is chosen: the page stays, with its buffer and its timer.
Switch(v) ==
  /\ v # version /\ version' = v
  /\ Patience(~Unsaved)
  /\ stale' = stale \cup {v}
  /\ UNCHANGED <<server, shown, page, dirty, timer, call, latest, user>>

\* The page is left: its timer is stopped and no answer reaches it.
Leave ==
  /\ page /\ page' = FALSE
  /\ timer' = FALSE /\ latest' = "none"
  /\ UNCHANGED <<server, cache, version, dirty, call, user>>

Return ==
  /\ ~page /\ page' = TRUE
  /\ stale' = stale \cup {version}
  /\ UNCHANGED <<server, shown, version, dirty, timer, call, latest, user>>

-----------------------------------------------------------------------------
(* The server.                                                             *)

\* The lines of a version with their amounts.  They are found by line, not
\* by version: where several versions hold a row, any may be the one seen.
Readings(v) ==
  LET found == {c \in Cells : Version(c) = v /\ \E w \in Versions : c \in DOMAIN rows[w]}
  IN  {f \in [found -> 0..MaxEntries] :
         \A c \in found : \E w \in Versions : c \in DOMAIN rows[w] /\ rows[w][c] = f[c]}

\* The version shown is fetched, when its cache is out of date.
Fetch ==
  /\ page /\ version \in stale
  /\ stale' = stale \ {version}
  /\ \E f \in Readings(version) : shown' = [shown EXCEPT ![version] = f]
  /\ UNCHANGED <<server, editor, call, latest, user>>

Answered(r, state) == call' = [call EXCEPT ![r].state = state]
Sent(r) == ~Free(r) /\ call[r].state = "sent"

\* A save or a comment stores its amounts, all of them or, if a line is
\* gone, none.
Store(r) ==
  /\ Sent(r) /\ call[r].kind \in {"save", "comment"}
  /\ \A c \in DOMAIN call[r].amounts : c[1] \in Existing
  /\ rows' = [rows EXCEPT ![call[r].version] = Over(call[r].amounts, @)]
  /\ Answered(r, "done")
  /\ UNCHANGED <<cache, editor, latest, user>>

\* A line is deleted with its rows, in whatever version they are.
Delete(r) ==
  LET l == call[r].line IN
  /\ Sent(r) /\ call[r].kind = "delete"
  /\ l \in Existing
  /\ rows' = [v \in Versions |-> Restrict(rows[v], DOMAIN rows[v] \ CellsOf(l))]
  /\ Answered(r, "done")
  /\ UNCHANGED <<cache, editor, latest, user>>

\* A line is gone, the version is locked, or something breaks: the request
\* is rolled back, or it was processed and only its answer is lost.
Fail(r) ==
  /\ ~Free(r) /\ call[r].state # "failed"
  /\ Answered(r, "failed")
  /\ UNCHANGED <<server, cache, editor, latest, user>>

-----------------------------------------------------------------------------
(* The answers.                                                            *)

Finish(r) == call' = [call EXCEPT ![r] = Idle]
Forget(r) == latest' = IF latest = r THEN "none" ELSE latest

\* Mutant: the cache is not invalidated.
SucceedQuietly(r) ==
  /\ ~Free(r) /\ call[r].state = "done"
  /\ dirty' = IF latest = r THEN Nothing ELSE dirty
  /\ Finish(r) /\ Forget(r)
  /\ UNCHANGED <<server, cache, page, version, timer, user>>

\* Mutant: the buffer is not emptied.
SucceedKeeping(r) ==
  /\ ~Free(r) /\ call[r].state = "done"
  /\ stale' = stale \cup {version}
  /\ Finish(r) /\ Forget(r)
  /\ UNCHANGED <<server, shown, editor, user>>

\* Success: the cache is invalidated, and if this is the latest save of a
\* page still open, the buffer is emptied.
Succeed(r) ==
  /\ ~Free(r) /\ call[r].state = "done"
  /\ stale' = stale \cup {version}
  /\ dirty' = IF latest = r THEN Nothing ELSE dirty
  /\ Finish(r) /\ Forget(r)
  /\ UNCHANGED <<server, shown, page, version, timer, user>>

\* An error is told, and nothing is tried again.
Tell(r) ==
  /\ ~Free(r) /\ call[r].state = "failed"
  /\ Finish(r) /\ Forget(r)
  /\ UNCHANGED <<server, cache, editor, user>>

-----------------------------------------------------------------------------
Init ==
  /\ rows = [v \in Versions |-> [c \in {c \in Cells : Version(c) = v} |-> 0]]
  /\ shown = rows /\ stale = {}
  /\ page = TRUE /\ version \in Versions
  /\ dirty = Nothing /\ timer = FALSE
  /\ call = [r \in Requests |-> Idle] /\ latest = "none"
  /\ entered = [c \in Cells |-> 0] /\ count = 0

Next ==
  \/ \E c \in Cells : Type(c)
  \/ \E r \in Requests :
       \/ TimerFires(r) \/ Store(r) \/ Delete(r) \/ Fail(r) \/ Succeed(r) \/ Tell(r)
       \/ \E l \in Lines : Comment(r, l) \/ DeleteLine(r, l)
  \/ \E v \in Versions : Switch(v)
  \/ Leave \/ Return \/ Fetch

Spec == Init /\ [][Next]_vars

\* The timer runs out, every request is answered, and the cache is fetched.
Fairness ==
  /\ SF_vars(\E r \in Requests : TimerFires(r))
  /\ WF_vars(Fetch)
  /\ \A r \in Requests :
       WF_vars(Store(r) \/ Delete(r) \/ Fail(r)) /\ WF_vars(Succeed(r) \/ Tell(r))

FairSpec == Spec /\ Fairness

-----------------------------------------------------------------------------
(* Properties.                                                             *)

Stored(c) == c \in DOMAIN rows[Version(c)] /\ rows[Version(c)][c] = entered[c]
Waiting(c) == c \in DOMAIN dirty /\ dirty[c] = entered[c]

\* What was entered last in a cell whose line still exists is stored, or
\* counted among the unsaved changes: whatever fails, is answered late or
\* after the page was left.
EntriesAreKept ==
  \A c \in Cells : entered[c] # 0 /\ c[1] \in Existing => Stored(c) \/ Waiting(c)

\* With nothing under way the page shows what is stored, in the version
\* where it belongs, except where a change counts as unsaved.
ShownIsStored ==
  page /\ Quiet =>
    \A c \in DOMAIN shown[version] :
      c[1] \in Existing =>
        c \in DOMAIN dirty \/ (c \in DOMAIN rows[version] /\ shown[version][c] = rows[version][c])

\* While the timer runs over an entry, the entry gets saved, its save is
\* answered with an error, or the page is left.
TimedEntriesAreSaved ==
  (timer /\ Unsaved) ~>
    (~Unsaved \/ ~page
       \/ \E r \in Requests : ~Free(r) /\ call[r].kind = "save" /\ call[r].state = "failed")
=============================================================================
