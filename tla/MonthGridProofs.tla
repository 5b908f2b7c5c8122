--------------------------- MODULE MonthGridProofs ---------------------------
(***************************************************************************)
(* Proofs about MonthGrid, for any versions, lines, months, entries and    *)
(* requests, of a user who waits for the answer to a save before entering  *)
(* more (Hasty is FALSE): nothing entered is lost, and what is shown is    *)
(* what is stored.                                                         *)
(***************************************************************************)
EXTENDS MonthGrid, TLAPS

OfVersion(v) == {c \in Cells : Version(c) = v}
Writes(r) == ~Free(r) /\ call[r].kind # "delete"

\* What a request is made of.
Shaped(request) ==
  \/ request = Idle
  \/ request = [kind |-> "delete", line |-> request.line, state |-> request.state]
  \/ /\ request.kind \in {"save", "comment"}
     /\ request = [kind |-> request.kind, version |-> request.version,
                   amounts |-> request.amounts, state |-> request.state]

\* Amounts are of the cells of their version; those of the buffer are of
\* the version shown.
GridTypes ==
  /\ DOMAIN rows = Versions /\ DOMAIN shown = Versions /\ version \in Versions
  /\ \A v \in Versions :
       DOMAIN rows[v] \subseteq OfVersion(v) /\ DOMAIN shown[v] \subseteq OfVersion(v)
  /\ DOMAIN dirty \subseteq OfVersion(version)
  /\ DOMAIN call = Requests /\ DOMAIN entered = Cells
  /\ \A r \in Requests : Shaped(call[r])
  /\ \A r \in Requests : Writes(r) =>
       /\ call[r].version \in Versions
       /\ DOMAIN call[r].amounts \subseteq OfVersion(call[r].version)

\* A line has all of its rows or none.
WholeLines ==
  \A c, d \in Cells :
    c[1] = d[1] /\ c \in DOMAIN rows[Version(c)] => d \in DOMAIN rows[Version(d)]

\* The buffer and the requests under way hold the last entry of each cell.
EntriesAgree ==
  /\ \A c \in DOMAIN dirty : dirty[c] = entered[c]
  /\ \A r \in Requests : Writes(r) =>
       \A c \in DOMAIN call[r].amounts : call[r].amounts[c] = entered[c]

\* The save whose answer empties the buffer carries all of it.
SaveIsBuffer ==
  latest # "none" =>
    /\ latest \in Requests /\ Writes(latest)
    /\ call[latest].kind = "save" /\ DOMAIN call[latest].amounts = DOMAIN dirty

\* What is not in the buffer is stored ...
RowsAgree ==
  \A c \in Cells : c \in DOMAIN rows[Version(c)] =>
    c \in DOMAIN dirty \/ rows[Version(c)][c] = entered[c]

\* ... as is what a request carried that was processed.
DoneIsStored ==
  \A r \in Requests : Writes(r) /\ call[r].state = "done" =>
    \A c \in DOMAIN call[r].amounts :
      c \in DOMAIN rows[Version(c)] => rows[Version(c)][c] = entered[c]

\* A cache that is up to date shows it.
ShownAgrees ==
  version \notin stale =>
    \A c \in DOMAIN shown[version] : c \in DOMAIN dirty \/ shown[version][c] = entered[c]

GridInv ==
  /\ GridTypes /\ WholeLines /\ EntriesAgree /\ SaveIsBuffer
  /\ RowsAgree /\ DoneIsStored /\ ShownAgrees

\* A line exists as long as one of its cells has a row.
LEMMA ExistingHasRow ==
  ASSUME GridTypes, WholeLines, NEW c \in Cells
  PROVE  c[1] \in Existing <=> c \in DOMAIN rows[Version(c)]
<1>1. Version(c) \in Versions /\ c \in CellsOf(c[1]) /\ c[1] \in Lines
  BY GridAssumption DEF Cells, CellsOf, Version
<1>2. ASSUME c[1] \in Existing
      PROVE  c \in DOMAIN rows[Version(c)]
  <2>1. PICK v \in Versions, d \in CellsOf(c[1]) : d \in DOMAIN rows[v]
    BY <1>2 DEF Existing
  <2>2. d \in Cells /\ d[1] = c[1] /\ Version(d) = v
    BY <1>1, <2>1 DEF GridTypes, OfVersion, CellsOf, Cells
  <2> QED BY <2>1, <2>2 DEF WholeLines
<1>3. ASSUME c \in DOMAIN rows[Version(c)]
      PROVE  c[1] \in Existing
  BY <1>1, <1>3 DEF Existing
<1> QED BY <1>2, <1>3

\* An entry goes to the buffer; no request under way carries its cell.
LEMMA TypeKeeps ==
  ASSUME ~Hasty, GridInv, NEW c \in Cells, Type(c)
  PROVE  GridInv'
<1> USE DEF GridInv
<1>1. /\ c \in DOMAIN shown[version] /\ entered' = [entered EXCEPT ![c] = count']
      /\ DOMAIN dirty' = DOMAIN dirty \cup {c} /\ dirty'[c] = count'
      /\ \A d \in DOMAIN dirty : d # c => dirty'[d] = dirty[d]
      /\ latest = "none" /\ latest' = "none" /\ ~UnderWay(c)
      /\ UNCHANGED <<rows, shown, stale, version, call>>
  <2> DEFINE n == count'
             f == [d \in {c} |-> n]
  <2>1. dirty' = Over(f, dirty)
    BY DEF Type
  <2>2. DOMAIN f = {c} /\ f[c] = n
    OBVIOUS
  <2> HIDE DEF f
  <2>3. /\ DOMAIN dirty' = DOMAIN dirty \cup {c} /\ dirty'[c] = n
        /\ \A d \in DOMAIN dirty : d # c => dirty'[d] = dirty[d]
    BY <2>1, <2>2 DEF Over
  <2> QED BY <2>3 DEF Type, Patience, server, cache
<1>2. c \in OfVersion(version)
  BY <1>1 DEF GridTypes
<1>3. \A r \in Requests : Writes(r) => c \notin DOMAIN call[r].amounts
  BY <1>1 DEF UnderWay, Carries, Writes
<1>4. /\ DOMAIN entered' = Cells /\ entered'[c] = count'
      /\ \A d \in Cells : d # c => entered'[d] = entered[d]
  BY <1>1 DEF GridTypes
<1>5. GridTypes'
  <2>1. DOMAIN dirty' \subseteq OfVersion(version)
    BY <1>1, <1>2 DEF GridTypes
  <2>2. \A r \in Requests : Writes(r)' = Writes(r)
    BY <1>1 DEF Writes, Free
  <2> QED BY <1>1, <1>4, <2>1, <2>2 DEF GridTypes, OfVersion
<1>6. WholeLines' /\ SaveIsBuffer'
  BY <1>1 DEF WholeLines, SaveIsBuffer
<1>7. EntriesAgree'
  BY <1>1, <1>3, <1>4 DEF EntriesAgree, GridTypes, Writes, Free, OfVersion
<1>8. RowsAgree'
  BY <1>1, <1>4 DEF RowsAgree
<1>9. DoneIsStored'
  BY <1>1, <1>3, <1>4 DEF DoneIsStored, GridTypes, Writes, Free, OfVersion
<1>10. ShownAgrees'
  BY <1>1, <1>4 DEF ShownAgrees, GridTypes, OfVersion
<1> QED BY <1>5, <1>6, <1>7, <1>8, <1>9, <1>10

\* What becomes of a request when its state is noted.
LEMMA AnsweredFields ==
  ASSUME GridInv, NEW r \in Requests, ~Free(r), NEW state, Answered(r, state)
  PROVE  /\ DOMAIN call' = Requests /\ \A q \in Requests \ {r} : call'[q] = call[q]
         /\ call'[r].state = state /\ call'[r] # Idle
         /\ call'[r].kind = call[r].kind /\ Shaped(call'[r])
         /\ call[r].kind # "delete" =>
              call'[r].version = call[r].version /\ call'[r].amounts = call[r].amounts
<1>1. /\ DOMAIN call' = Requests /\ \A q \in Requests \ {r} : call'[q] = call[q]
      /\ call'[r] = [call[r] EXCEPT !.state = state]
  BY DEF Answered, GridInv, GridTypes
<1>2. CASE call[r].kind = "delete"
  <2>1. call[r] = [kind |-> "delete", line |-> call[r].line, state |-> call[r].state]
    BY <1>2 DEF GridInv, GridTypes, Shaped, Free, Idle
  <2>2. call'[r] = [kind |-> "delete", line |-> call[r].line, state |-> state]
    BY <1>1, <2>1
  <2> QED BY <1>1, <1>2, <2>2 DEF Shaped, Idle
<1>3. CASE call[r].kind # "delete"
  <2>1. /\ call[r].kind \in {"save", "comment"}
        /\ call[r] = [kind |-> call[r].kind, version |-> call[r].version,
                      amounts |-> call[r].amounts, state |-> call[r].state]
    BY <1>3 DEF GridInv, GridTypes, Shaped, Free, Idle
  <2>2. call'[r] = [kind |-> call[r].kind, version |-> call[r].version,
                    amounts |-> call[r].amounts, state |-> state]
    BY <1>1, <2>1
  <2> QED BY <1>1, <1>3, <2>1, <2>2 DEF Shaped, Idle
<1> QED BY <1>2, <1>3

\* A request is sent with amounts last entered.
LEMMA SendKeeps ==
  ASSUME GridInv, NEW r \in Requests, NEW request, Send(r, request),
         UNCHANGED <<rows, shown, stale, version, dirty, entered>>,
         request.state = "sent", request # Idle, Shaped(request),
         request.kind # "delete" =>
           /\ request.version \in Versions
           /\ DOMAIN request.amounts \subseteq OfVersion(request.version)
           /\ \A c \in DOMAIN request.amounts : request.amounts[c] = entered[c],
         \/ latest' = latest
         \/ /\ latest' = r /\ request.kind = "save"
            /\ DOMAIN request.amounts = DOMAIN dirty
  PROVE  GridInv'
<1> USE DEF GridInv
<1>1. /\ DOMAIN call' = Requests /\ \A q \in Requests \ {r} : call'[q] = call[q]
      /\ call'[r] = request /\ call[r] = Idle
  BY DEF Send, Free, GridTypes
<1>2. /\ \A q \in Requests \ {r} : Writes(q)' = Writes(q)
      /\ Writes(r)' <=> request.kind # "delete"
  BY <1>1 DEF Writes, Free
<1>3. GridTypes'
  BY <1>1, <1>2 DEF GridTypes, OfVersion
<1>4. WholeLines' /\ RowsAgree' /\ ShownAgrees'
  BY DEF WholeLines, RowsAgree, ShownAgrees
<1>5. EntriesAgree'
  BY <1>1, <1>2 DEF EntriesAgree
<1>6. SaveIsBuffer'
  <2>1. latest # r
    BY <1>1, GridAssumption DEF SaveIsBuffer, Writes, Free
  <2> QED BY <1>1, <1>2, <2>1 DEF SaveIsBuffer
<1>7. DoneIsStored'
  BY <1>1, <1>2 DEF DoneIsStored
<1> QED BY <1>3, <1>4, <1>5, <1>6, <1>7

\* A step that ends requests or notes that they failed keeps the invariant.
LEMMA AnswersKeep ==
  ASSUME GridInv, UNCHANGED <<rows, shown, version, dirty, entered>>, stale \subseteq stale',
         DOMAIN call' = Requests,
         \A r \in Requests :
           \/ call'[r] = Idle
           \/ call'[r] = call[r]
           \/ /\ call'[r].state = "failed" /\ call'[r] # Idle
              /\ call[r] # Idle /\ call'[r].kind = call[r].kind /\ Shaped(call'[r])
              /\ call[r].kind # "delete" =>
                   call'[r].version = call[r].version /\ call'[r].amounts = call[r].amounts,
         latest' = "none" \/ (latest' = latest /\ (latest # "none" => call'[latest] # Idle))
  PROVE  GridInv'
<1> USE DEF GridInv
<1>1. \A r \in Requests : Writes(r)' =>
        /\ Writes(r) /\ call'[r].kind = call[r].kind
        /\ call'[r].version = call[r].version /\ call'[r].amounts = call[r].amounts
        /\ call'[r].state = "done" => call[r].state = "done"
  BY DEF Writes, Free
<1>2. GridTypes'
  BY <1>1 DEF GridTypes, OfVersion, Shaped
<1>3. WholeLines' /\ RowsAgree' /\ ShownAgrees'
  BY DEF WholeLines, RowsAgree, ShownAgrees
<1>4. EntriesAgree'
  BY <1>1 DEF EntriesAgree
<1>5. SaveIsBuffer'
  BY <1>1 DEF SaveIsBuffer, Writes, Free
<1>6. DoneIsStored'
  BY <1>1 DEF DoneIsStored
<1> QED BY <1>2, <1>3, <1>4, <1>5, <1>6

\* Requests are stored over amounts that nobody has changed since.
LEMMA StoreKeeps ==
  ASSUME GridInv, NEW r \in Requests, Store(r)
  PROVE  GridInv'
<1> USE DEF GridInv
<1> DEFINE v == call[r].version
           a == call[r].amounts
<1>1. /\ ~Free(r) /\ Writes(r) /\ Answered(r, "done")
      /\ \A c \in DOMAIN a : c[1] \in Existing
      /\ rows' = [rows EXCEPT ![v] = Over(a, @)]
      /\ UNCHANGED <<shown, stale, version, dirty, entered, latest>>
  BY DEF Store, Sent, Writes, cache, editor, user
<1>2. /\ v \in Versions /\ DOMAIN a \subseteq OfVersion(v)
      /\ \A c \in DOMAIN a : a[c] = entered[c]
  BY <1>1 DEF GridTypes, EntriesAgree
<1>3. DOMAIN a \subseteq DOMAIN rows[v]
  BY <1>1, <1>2, ExistingHasRow DEF OfVersion
<1>4. /\ DOMAIN rows' = Versions
      /\ \A w \in Versions : DOMAIN rows'[w] = DOMAIN rows[w]
      /\ \A w \in Versions \ {v} : rows'[w] = rows[w]
      /\ \A c \in DOMAIN a : rows'[v][c] = a[c]
      /\ \A c \in DOMAIN rows[v] : c \notin DOMAIN a => rows'[v][c] = rows[v][c]
  <2>1. rows'[v] = Over(a, rows[v]) /\ DOMAIN rows' = Versions
        /\ \A w \in Versions \ {v} : rows'[w] = rows[w]
    BY <1>1, <1>2 DEF GridTypes
  <2>2. DOMAIN Over(a, rows[v]) = DOMAIN rows[v]
    BY <1>3 DEF Over
  <2>3. /\ \A c \in DOMAIN a : Over(a, rows[v])[c] = a[c]
        /\ \A c \in DOMAIN rows[v] : c \notin DOMAIN a => Over(a, rows[v])[c] = rows[v][c]
    BY DEF Over
  <2> QED BY <2>1, <2>2, <2>3
<1>5. \A c \in Cells : /\ Version(c) \in Versions
                       /\ c \in DOMAIN rows'[Version(c)] <=> c \in DOMAIN rows[Version(c)]
  BY <1>4, GridAssumption DEF Version, Cells
<1>6. \A c \in Cells : c \in DOMAIN rows[Version(c)] =>
        \/ rows'[Version(c)][c] = rows[Version(c)][c]
        \/ rows'[Version(c)][c] = entered[c]
  BY <1>2, <1>4, <1>5 DEF OfVersion
<1>7. /\ DOMAIN call' = Requests /\ \A q \in Requests \ {r} : call'[q] = call[q]
      /\ call'[r] # Idle /\ call'[r].kind = call[r].kind /\ Shaped(call'[r])
      /\ call'[r].version = v /\ call'[r].amounts = a
  BY <1>1, AnsweredFields DEF Writes
<1>8. \A q \in Requests : /\ Writes(q)' <=> Writes(q)
                          /\ Writes(q) => call'[q].version = call[q].version
                                          /\ call'[q].amounts = call[q].amounts
                                          /\ call'[q].kind = call[q].kind
  BY <1>1, <1>7 DEF Writes, Free
<1> HIDE DEF v, a
<1>9. GridTypes'
  <2>1. \A w \in Versions : DOMAIN rows'[w] \subseteq OfVersion(w)
                            /\ DOMAIN shown'[w] \subseteq OfVersion(w)
    BY <1>1, <1>4 DEF GridTypes
  <2>2. \A q \in Requests : Writes(q) => call'[q].version \in Versions
                               /\ DOMAIN call'[q].amounts \subseteq OfVersion(call'[q].version)
    BY <1>8 DEF GridTypes
  <2>3. \A q \in Requests : Shaped(call'[q])
    BY <1>7 DEF GridTypes
  <2> QED BY <1>1, <1>4, <1>7, <1>8, <2>1, <2>2, <2>3 DEF GridTypes, OfVersion
<1>10. WholeLines'
  BY <1>5 DEF WholeLines
<1>11. EntriesAgree'
  BY <1>1, <1>8 DEF EntriesAgree
<1>12. SaveIsBuffer'
  BY <1>1, <1>8 DEF SaveIsBuffer
<1>13. RowsAgree'
  BY <1>1, <1>5, <1>6 DEF RowsAgree
<1>14. DoneIsStored'
  <2> SUFFICES ASSUME NEW q \in Requests, Writes(q), call'[q].state = "done",
                      NEW c \in DOMAIN call[q].amounts, c \in DOMAIN rows[Version(c)], c \in Cells
               PROVE  rows'[Version(c)][c] = entered[c]
    BY <1>1, <1>5, <1>8 DEF DoneIsStored, GridTypes, OfVersion
  <2>1. CASE q = r
    BY <1>2, <1>4, <2>1 DEF OfVersion, a
  <2>2. CASE q # r
    BY <1>6, <1>7, <2>2 DEF DoneIsStored
  <2> QED BY <2>1, <2>2
<1>15. ShownAgrees'
  BY <1>1 DEF ShownAgrees
<1> QED BY <1>9, <1>10, <1>11, <1>12, <1>13, <1>14, <1>15

\* A deletion takes all rows of its line, and no others.
LEMMA DeleteKeeps ==
  ASSUME GridInv, NEW r \in Requests, Delete(r)
  PROVE  GridInv'
<1> USE DEF GridInv
<1> DEFINE l == call[r].line
<1>1. /\ ~Free(r) /\ call[r].kind = "delete" /\ Answered(r, "done")
      /\ rows' = [v \in Versions |-> Restrict(rows[v], DOMAIN rows[v] \ CellsOf(l))]
      /\ UNCHANGED <<shown, stale, version, dirty, entered, latest>>
  BY DEF Delete, Sent, cache, editor, user
<1>2. /\ DOMAIN rows' = Versions
      /\ \A v \in Versions :
           /\ DOMAIN rows'[v] = DOMAIN rows[v] \ CellsOf(l)
           /\ \A c \in DOMAIN rows'[v] : rows'[v][c] = rows[v][c]
  BY <1>1 DEF Restrict
<1>3. \A c \in Cells : Version(c) \in Versions
  BY GridAssumption DEF Version, Cells
<1>4. \A c, d \in Cells : c[1] = d[1] => (c \in CellsOf(l) <=> d \in CellsOf(l))
  BY DEF Cells, CellsOf
<1>5. /\ DOMAIN call' = Requests /\ \A q \in Requests \ {r} : call'[q] = call[q]
      /\ call'[r] # Idle /\ call'[r].kind = "delete" /\ Shaped(call'[r])
  BY <1>1, AnsweredFields
<1>6. \A q \in Requests : /\ Writes(q)' <=> Writes(q)
                          /\ Writes(q) => call'[q] = call[q]
  BY <1>1, <1>5 DEF Writes, Free
<1>7. GridTypes'
  <2>1. \A w \in Versions : DOMAIN rows'[w] \subseteq OfVersion(w)
                            /\ DOMAIN shown'[w] \subseteq OfVersion(w)
    BY <1>1, <1>2 DEF GridTypes
  <2>2. \A q \in Requests : Writes(q) => call'[q].version \in Versions
                               /\ DOMAIN call'[q].amounts \subseteq OfVersion(call'[q].version)
    BY <1>6 DEF GridTypes
  <2>3. \A q \in Requests : Shaped(call'[q])
    BY <1>5 DEF GridTypes
  <2> QED BY <1>1, <1>2, <1>5, <1>6, <2>1, <2>2, <2>3 DEF GridTypes, OfVersion
<1>8. WholeLines'
  BY <1>2, <1>3, <1>4 DEF WholeLines
<1>9. EntriesAgree'
  BY <1>1, <1>6 DEF EntriesAgree
<1>10. SaveIsBuffer'
  BY <1>1, <1>6 DEF SaveIsBuffer
<1>11. RowsAgree'
  BY <1>1, <1>2, <1>3 DEF RowsAgree
<1>12. DoneIsStored'
  BY <1>1, <1>2, <1>3, <1>6 DEF DoneIsStored, GridTypes, OfVersion
<1>13. ShownAgrees'
  BY <1>1 DEF ShownAgrees
<1> QED BY <1>7, <1>8, <1>9, <1>10, <1>11, <1>12, <1>13

\* What is fetched is what is stored.
LEMMA FetchKeeps ==
  ASSUME GridInv, Fetch
  PROVE  GridInv'
<1> USE DEF GridInv
<1>1. PICK f \in Readings(version) :
        /\ shown' = [shown EXCEPT ![version] = f] /\ stale' = stale \ {version}
        /\ UNCHANGED <<rows, version, dirty, call, latest, entered>>
  BY DEF Fetch, server, editor, user
<1>2. /\ DOMAIN f \subseteq OfVersion(version)
      /\ \A c \in DOMAIN f : c \in DOMAIN rows[version] /\ f[c] = rows[version][c]
  <2> DEFINE found == {c \in Cells : /\ Version(c) = version
                                     /\ \E w \in Versions : c \in DOMAIN rows[w]}
  <2>1. DOMAIN f = found
        /\ \A c \in found : \E w \in Versions : c \in DOMAIN rows[w] /\ rows[w][c] = f[c]
    BY DEF Readings
  <2>2. \A c \in found, w \in Versions : c \in DOMAIN rows[w] => w = version
    BY DEF GridTypes, OfVersion
  <2> QED BY <2>1, <2>2 DEF OfVersion
<1>3. /\ DOMAIN shown' = Versions /\ shown'[version] = f
      /\ \A v \in Versions \ {version} : shown'[v] = shown[v]
  BY <1>1 DEF GridTypes
<1>4. GridTypes'
  BY <1>1, <1>2, <1>3 DEF GridTypes, OfVersion, Writes, Free
<1>5. /\ WholeLines' /\ EntriesAgree' /\ SaveIsBuffer'
  BY <1>1 DEF WholeLines, EntriesAgree, SaveIsBuffer, Writes, Free
<1>6. RowsAgree' /\ DoneIsStored'
  BY <1>1 DEF RowsAgree, DoneIsStored, Writes, Free
<1>7. ShownAgrees'
  BY <1>1, <1>2, <1>3 DEF ShownAgrees, RowsAgree, GridTypes, OfVersion
<1> QED BY <1>4, <1>5, <1>6, <1>7

\* The answer to the latest save empties the buffer: all of it is stored.
LEMMA EmptyingKeeps ==
  ASSUME GridInv, NEW r \in Requests, Succeed(r), latest = r
  PROVE  GridInv'
<1> USE DEF GridInv
<1>1. /\ call' = [call EXCEPT ![r] = Idle] /\ dirty' = Nothing /\ latest' = "none"
      /\ call[r].state = "done" /\ stale' = stale \cup {version}
      /\ UNCHANGED <<rows, shown, version, entered>>
  BY DEF Succeed, Finish, Forget, server, user
<1>2. /\ DOMAIN call' = Requests /\ call'[r] = Idle
      /\ \A q \in Requests \ {r} : call'[q] = call[q]
  BY <1>1 DEF GridTypes
<1>3. \A q \in Requests : Writes(q)' => Writes(q) /\ call'[q] = call[q]
  BY <1>2 DEF Writes, Free
<1>4. DOMAIN dirty' = {}
  BY <1>1 DEF Nothing
<1>5. Writes(r) /\ DOMAIN call[r].amounts = DOMAIN dirty
  BY GridAssumption DEF SaveIsBuffer
<1>6. GridTypes'
  BY <1>1, <1>2, <1>3, <1>4 DEF GridTypes, OfVersion, Shaped
<1>7. WholeLines' /\ SaveIsBuffer' /\ ShownAgrees'
  BY <1>1 DEF WholeLines, SaveIsBuffer, ShownAgrees
<1>8. EntriesAgree' /\ DoneIsStored'
  BY <1>1, <1>3, <1>4 DEF EntriesAgree, DoneIsStored
<1>9. RowsAgree'
  BY <1>1, <1>4, <1>5 DEF RowsAgree, DoneIsStored
<1> QED BY <1>6, <1>7, <1>8, <1>9

\* A switch of versions: the buffer is empty, and the cache is out of date.
LEMMA SwitchKeeps ==
  ASSUME ~Hasty, GridInv, NEW v \in Versions, Switch(v)
  PROVE  GridInv'
<1> USE DEF GridInv
<1>1. /\ version' = v /\ v \in stale' /\ DOMAIN dirty = {}
      /\ UNCHANGED <<rows, shown, dirty, call, latest, entered>>
  BY DEF Switch, Patience, Unsaved, Nothing, server, user
<1>2. GridTypes'
  BY <1>1 DEF GridTypes, OfVersion, Writes, Free
<1>3. WholeLines' /\ EntriesAgree' /\ SaveIsBuffer' /\ ShownAgrees'
  BY <1>1 DEF WholeLines, EntriesAgree, SaveIsBuffer, ShownAgrees, Writes, Free
<1>4. RowsAgree' /\ DoneIsStored'
  BY <1>1 DEF RowsAgree, DoneIsStored, Writes, Free
<1> QED BY <1>2, <1>3, <1>4

\* The timer runs out: what is sent is the buffer.
LEMMA TimerKeeps ==
  ASSUME GridInv, NEW r \in Requests, TimerFires(r)
  PROVE  GridInv'
<1>1. CASE Send(r, Saving("save", dirty)) /\ latest' = r
  <2> DEFINE request == Saving("save", dirty)
  <2>1. /\ request.state = "sent" /\ request.kind = "save" /\ request # Idle
        /\ request.version = version /\ request.amounts = dirty /\ Shaped(request)
    BY DEF Saving, Idle, Shaped
  <2> HIDE DEF request
  <2>2. UNCHANGED <<rows, shown, stale, version, dirty, entered>>
    BY DEF TimerFires, server, cache, user
  <2>3. /\ version \in Versions /\ DOMAIN dirty \subseteq OfVersion(version)
        /\ \A c \in DOMAIN dirty : dirty[c] = entered[c]
    BY DEF GridInv, GridTypes, EntriesAgree
  <2>4. Send(r, request)
    BY <1>1 DEF request
  <2> QED BY <1>1, <2>1, <2>2, <2>3, <2>4, SendKeeps
<1>2. CASE UNCHANGED <<call, latest>>
  <2>1. UNCHANGED <<rows, shown, stale, version, dirty, entered>>
    BY DEF TimerFires, server, cache, user
  <2>2. latest # "none" => call[latest] # Idle
    BY DEF GridInv, SaveIsBuffer, Writes, Free
  <2> QED BY <1>2, <2>1, <2>2, AnswersKeep DEF GridInv, GridTypes
<1> QED BY <1>1, <1>2 DEF TimerFires

\* A comment sends along what is shown, which is what was entered last.
LEMMA CommentKeeps ==
  ASSUME ~Hasty, GridInv, NEW r \in Requests, NEW l \in Lines, Comment(r, l)
  PROVE  GridInv'
<1> DEFINE amounts == Restrict(shown[version], Displayed(l))
           request == Saving("comment", amounts)
<1>1. /\ version \notin stale /\ \A c \in CellsOf(l) : c \notin DOMAIN dirty
      /\ Send(r, request)
      /\ UNCHANGED <<rows, shown, stale, version, dirty, latest, entered>>
  BY DEF Comment, Patience, server, cache, editor, user
<1>2. /\ DOMAIN amounts = Displayed(l)
      /\ \A c \in Displayed(l) : amounts[c] = shown[version][c]
  BY DEF Restrict
<1>3. \A c \in Displayed(l) : c \in OfVersion(version) /\ shown[version][c] = entered[c]
  BY <1>1 DEF Displayed, GridInv, GridTypes, ShownAgrees
<1> HIDE DEF amounts
<1>4. /\ request.state = "sent" /\ request.kind = "comment" /\ request # Idle
      /\ request.version = version /\ request.amounts = amounts /\ Shaped(request)
  BY DEF Saving, Idle, Shaped
<1> HIDE DEF request
<1>5. version \in Versions
  BY DEF GridInv, GridTypes
<1> QED BY <1>1, <1>2, <1>3, <1>4, <1>5, SendKeeps

\* A deletion is sent.
LEMMA DeleteLineKeeps ==
  ASSUME GridInv, NEW r \in Requests, NEW l \in Lines, DeleteLine(r, l)
  PROVE  GridInv'
<1> DEFINE request == [kind |-> "delete", line |-> l, state |-> "sent"]
<1>1. /\ request.state = "sent" /\ request.kind = "delete" /\ request # Idle
      /\ Shaped(request)
  BY DEF Idle, Shaped
<1>2. /\ Send(r, request)
      /\ UNCHANGED <<rows, shown, stale, version, dirty, latest, entered>>
  BY DEF DeleteLine, server, cache, editor, user
<1> HIDE DEF request
<1> QED BY <1>1, <1>2, SendKeeps

\* A request fails, or its answer is handled without the buffer.
LEMMA AnswerKeeps ==
  ASSUME GridInv, NEW r \in Requests,
         Fail(r) \/ Tell(r) \/ (Succeed(r) /\ latest # r)
  PROVE  GridInv'
<1>1. latest # "none" => latest \in Requests /\ call[latest] # Idle
  BY DEF GridInv, SaveIsBuffer, Writes, Free
<1>2. DOMAIN call = Requests
  BY DEF GridInv, GridTypes
<1>3. CASE Fail(r)
  <2>1. /\ ~Free(r) /\ Answered(r, "failed")
        /\ UNCHANGED <<rows, shown, stale, version, dirty, latest, entered>>
    BY <1>3 DEF Fail, server, cache, editor, user
  <2>2. /\ DOMAIN call' = Requests /\ \A q \in Requests \ {r} : call'[q] = call[q]
        /\ call'[r].state = "failed" /\ call'[r] # Idle
        /\ call'[r].kind = call[r].kind /\ Shaped(call'[r])
        /\ call[r].kind # "delete" =>
             call'[r].version = call[r].version /\ call'[r].amounts = call[r].amounts
    BY <2>1, AnsweredFields
  <2>3. latest # "none" => call'[latest] # Idle
    BY <1>1, <2>2
  <2>4. call[r] # Idle
    BY <2>1 DEF Free
  <2> QED BY <2>1, <2>2, <2>3, <2>4, AnswersKeep
<1>4. CASE Tell(r) \/ (Succeed(r) /\ latest # r)
  <2>1. /\ Finish(r) /\ Forget(r) /\ stale \subseteq stale'
        /\ UNCHANGED <<rows, shown, version, dirty, entered>>
    BY <1>4 DEF Tell, Succeed, server, cache, editor, user
  <2>2. /\ DOMAIN call' = Requests /\ call'[r] = Idle
        /\ \A q \in Requests \ {r} : call'[q] = call[q]
    BY <1>2, <2>1 DEF Finish
  <2>3. latest' = "none" \/ (latest' = latest /\ latest # r)
    BY <2>1 DEF Forget
  <2> QED BY <1>1, <2>1, <2>2, <2>3, AnswersKeep
<1> QED BY <1>3, <1>4

\* The page is left or entered again, and nothing else happens.
LEMMA PageKeeps ==
  ASSUME GridInv, Leave \/ Return \/ UNCHANGED vars
  PROVE  GridInv'
<1>1. /\ UNCHANGED <<rows, shown, version, dirty, entered, call>> /\ stale \subseteq stale'
      /\ latest' = "none" \/ latest' = latest
  BY DEF Leave, Return, vars, server, cache, editor, user
<1>2. DOMAIN call' = Requests /\ (latest # "none" => call'[latest] # Idle)
  BY <1>1 DEF GridInv, GridTypes, SaveIsBuffer, Writes, Free
<1> QED BY <1>1, <1>2, AnswersKeep

\* The cells of a version start with the amount 0, in the rows and the cache.
LEMMA GridStarts ==
  ASSUME Init
  PROVE  GridInv
<1>1. /\ DOMAIN rows = Versions /\ shown = rows /\ version \in Versions
      /\ DOMAIN dirty = {} /\ DOMAIN call = Requests /\ latest = "none"
      /\ entered = [c \in Cells |-> 0]
  BY DEF Init, Nothing
<1>2. \A r \in Requests : call[r] = Idle
  BY DEF Init
<1>3. \A v \in Versions : /\ DOMAIN rows[v] = OfVersion(v)
                          /\ \A c \in OfVersion(v) : rows[v][c] = 0
  BY DEF Init, OfVersion
<1>4. \A c \in Cells : /\ Version(c) \in Versions /\ c \in OfVersion(Version(c))
                       /\ entered[c] = 0
  BY <1>1, GridAssumption DEF Version, Cells, OfVersion
<1>5. GridTypes
  BY <1>1, <1>2, <1>3 DEF GridTypes, Shaped, Writes, Free
<1>6. WholeLines /\ RowsAgree
  BY <1>3, <1>4 DEF WholeLines, RowsAgree
<1>7. EntriesAgree /\ SaveIsBuffer /\ DoneIsStored
  BY <1>1, <1>2 DEF EntriesAgree, SaveIsBuffer, DoneIsStored, Writes, Free
<1>8. ShownAgrees
  BY <1>1, <1>3, <1>4 DEF ShownAgrees, OfVersion
<1> QED BY <1>5, <1>6, <1>7, <1>8 DEF GridInv

\* The invariant holds throughout, for a user who waits.
THEOREM GridInvariant ==
  ASSUME ~Hasty
  PROVE  Spec => []GridInv
<1>1. Init => GridInv
  BY GridStarts
<1>2. GridInv /\ [Next]_vars => GridInv'
  <2> SUFFICES ASSUME GridInv, [Next]_vars
               PROVE  GridInv'
    OBVIOUS
  <2>1. ASSUME NEW c \in Cells, Type(c)
        PROVE  GridInv'
    BY <2>1, TypeKeeps
  <2>2. ASSUME NEW r \in Requests,
               \/ TimerFires(r) \/ Store(r) \/ Delete(r) \/ Fail(r) \/ Succeed(r) \/ Tell(r)
               \/ \E l \in Lines : Comment(r, l) \/ DeleteLine(r, l)
        PROVE  GridInv'
    BY <2>2, TimerKeeps, StoreKeeps, DeleteKeeps, AnswerKeeps, EmptyingKeeps, CommentKeeps,
       DeleteLineKeeps
  <2>3. ASSUME NEW v \in Versions, Switch(v)
        PROVE  GridInv'
    BY <2>3, SwitchKeeps
  <2>4. CASE Fetch
    BY <2>4, FetchKeeps
  <2>5. CASE Leave \/ Return \/ UNCHANGED vars
    BY <2>5, PageKeeps
  <2> QED BY <2>1, <2>2, <2>3, <2>4, <2>5 DEF Next
<1> QED BY <1>1, <1>2, PTL DEF Spec

\* Whatever fails or is answered late, and wherever the user goes meanwhile:
\* an amount entered is stored or counts as unsaved, as long as its line is
\* there (the buffer of opex-page.tsx and the bulk save of line-items.ts).
THEOREM NothingEnteredIsLost ==
  ASSUME ~Hasty
  PROVE  Spec => []EntriesAreKept
<1>1. GridInv => EntriesAreKept
  <2> SUFFICES ASSUME GridInv, NEW c \in Cells, c[1] \in Existing
               PROVE  Stored(c) \/ Waiting(c)
    BY DEF EntriesAreKept
  <2>1. c \in DOMAIN rows[Version(c)]
    BY ExistingHasRow DEF GridInv
  <2> QED BY <2>1 DEF GridInv, RowsAgree, EntriesAgree, Stored, Waiting
<1> QED BY <1>1, GridInvariant, PTL

\* What the page shows when all is quiet is what is stored, but for cells
\* that count as unsaved.
THEOREM QuietPageShowsRows ==
  ASSUME ~Hasty
  PROVE  Spec => []ShownIsStored
<1>1. GridInv => ShownIsStored
  <2> SUFFICES ASSUME GridInv, version \notin stale, NEW c \in DOMAIN shown[version],
                      c[1] \in Existing
               PROVE  \/ c \in DOMAIN dirty
                      \/ c \in DOMAIN rows[version] /\ shown[version][c] = rows[version][c]
    BY DEF ShownIsStored, Quiet
  <2>1. c \in Cells /\ Version(c) = version
    BY DEF GridInv, GridTypes, OfVersion
  <2>2. c \in DOMAIN rows[version]
    BY <2>1, ExistingHasRow DEF GridInv
  <2> QED BY <2>1, <2>2 DEF GridInv, RowsAgree, ShownAgrees
<1> QED BY <1>1, GridInvariant, PTL
=============================================================================
