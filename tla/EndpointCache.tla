---------------------------- MODULE EndpointCache ----------------------------
(***************************************************************************)
(* The catalogue of AI tool endpoints: the in-memory copy that URLMatcher  *)
(* refreshes from the database (business/urlmatcher.go, init.go) and the   *)
(* requests matched against it while it changes.                           *)
(*                                                                         *)
(* Actors: the administrator who edits the catalogue; the goroutine that   *)
(* calls RefreshEndpointsCache (once before the first request, then on a   *)
(* ticker); one goroutine per call of MatchURL.  The matching of paths is  *)
(* that of PathMatching.                                                   *)
(*                                                                         *)
(* A definition commented "Fault:" is a broken variant of the one below    *)
(* it, which a property is there to refute; no specification uses it.      *)
(***************************************************************************)
EXTENDS PathMatching, FiniteSets

CONSTANTS
  Rows,      \* the rows of ai_tool_endpoints there can be
  Calls,     \* the calls of MatchURL
  Queries,   \* what they ask for
  MaxFaults, \* bound on the loads a database error breaks
  MaxEdits   \* bound on the edits of the catalogue

(* id grows with created_at.  domain: the place of the domain, as it was   *)
(* typed, in the order of the database; host and star are what ToLower and *)
(* TrimSpace leave of it, star if that begins with "*.".  intact:          *)
(* rows.Scan can convert it.  metadata: is_wildcard, a catch-all of which  *)
(* only metadata is recorded.                                              *)
RowFields == {"id", "scheme", "domain", "host", "star", "paths", "method",
              "action", "metadata", "intact"}
ASSUME RowsAssumption ==
  /\ \A row \in Rows : /\ DOMAIN row = RowFields
                       /\ row.id \in Nat /\ row.domain \in Nat
                       /\ row.paths \subseteq Configured
  /\ \A a, b \in Rows :
       /\ a.id = b.id => a = b
       /\ a.domain = b.domain => a.host = b.host /\ a.star = b.star
ASSUME QueriesAssumption ==
  \A q \in Queries :
    DOMAIN q = {"scheme", "host", "path", "method"} /\ q.path \in Paths
ASSUME BoundsAssumption == MaxFaults \in Nat /\ MaxEdits \in Nat

VARIABLES
  active,   \* the rows with is_active in the database
  edits,    \* edits of them so far
  cache,    \* URLMatcher.cache, guarded by mu
  source,   \* history: the catalogue that the last load to end had queried
  load,     \* RefreshEndpointsCache: its phase, the rows to come and come
  faults,   \* loads broken so far
  ready,    \* the first load is over: requests are served
  call      \* call[c]: a request on its way through MatchURL; unread is a
            \* history: what the last load should have read and had not

vars == <<active, edits, cache, source, load, faults, ready, call>>

NoRow == [id |-> 0]
Outcomes == {"none", "recorded", "passed", "observed"}
CallPhases == {"new", "looked", "matched", "done"}
IdleLoad(got) == [phase |-> "idle", snapshot |-> {}, left |-> {}, got |-> got]

Intact(rows) == {row \in rows : row.intact}

Init ==
  /\ active \in SUBSET Rows /\ edits = 0
  /\ cache = {} /\ source = {}
  /\ load = IdleLoad({})
  /\ faults = 0
  /\ ready = FALSE
  /\ call \in [Calls -> {[phase |-> "new", query |-> q, candidates |-> {}, unread |-> {},
                          match |-> NoRow, outcome |-> "none"] : q \in Queries}]

-----------------------------------------------------------------------------
(* The catalogue and its refresh.                                          *)

Edit(row) ==
  /\ edits < MaxEdits
  /\ edits' = edits + 1
  /\ active' = IF row \in active THEN active \ {row} ELSE active \cup {row}
  /\ UNCHANGED <<cache, source, load, faults, ready, call>>

(* Only active rows of flow egress or both are selected. *)
LoadStarts ==
  /\ load.phase = "idle"
  /\ load' = [phase |-> "reading", snapshot |-> active, left |-> active, got |-> {}]
  /\ UNCHANGED <<active, edits, cache, source, faults, ready, call>>

(* The query fails: the cache stays as it was, also if it was never filled. *)
LoadFails ==
  /\ load.phase = "idle"
  /\ faults < MaxFaults
  /\ faults' = faults + 1
  /\ ready' = TRUE
  /\ UNCHANGED <<active, edits, cache, source, load, call>>

(* ORDER BY domain, created_at DESC: by the domain as it was typed. *)
Before(a, b) == a.domain < b.domain \/ (a.domain = b.domain /\ a.id > b.id)

Comes(row) == row \in load.left /\ \A o \in load.left \ {row} : Before(row, o)

(* Fault: the rows go into the live cache, one by one. *)
LoadRowInPlace(row) ==
  /\ load.phase = "reading"
  /\ Comes(row)
  /\ load' = [load EXCEPT !.left = @ \ {row},
                          !.got = IF row.intact THEN @ \cup {row} ELSE @]
  /\ cache' = IF row.intact THEN cache \cup {row} ELSE cache
  /\ UNCHANGED <<active, edits, source, faults, ready, call>>

(* rows.Next and rows.Scan; a row that Scan cannot convert is skipped. *)
LoadRow(row) ==
  /\ load.phase = "reading"
  /\ Comes(row)
  /\ load' = [load EXCEPT !.left = @ \ {row},
                          !.got = IF row.intact THEN @ \cup {row} ELSE @]
  /\ UNCHANGED <<active, edits, cache, source, faults, ready, call>>

Install ==
  /\ cache' = load.got
  /\ source' = load.snapshot
  /\ load' = IdleLoad({})
  /\ ready' = TRUE
  /\ UNCHANGED <<active, edits, call>>

(* Fault: what was loaded is merged with what was cached. *)
LoadEndsMerged ==
  /\ load.phase = "reading" /\ load.left = {}
  /\ cache' = cache \cup load.got
  /\ source' = load.snapshot
  /\ load' = IdleLoad({})
  /\ ready' = TRUE
  /\ UNCHANGED <<active, edits, faults, call>>

LoadEnds ==
  /\ load.phase = "reading" /\ load.left = {}
  /\ Install
  /\ UNCHANGED faults

(* The connection or the 30 s deadline breaks the iteration.  rows.Next    *)
(* returns FALSE and nobody asks rows.Err: what came so far is installed.  *)
LoadBreaks ==
  /\ load.phase = "reading" /\ load.left # {}
  /\ faults < MaxFaults
  /\ faults' = faults + 1
  /\ Install

-----------------------------------------------------------------------------
(* MatchURL.                                                               *)

Other(scheme) == IF scheme = "http" THEN "https" ELSE "http"

Under(scheme, host, star) ==
  {row \in cache : row.scheme = scheme /\ row.host = host /\ row.star = star}

(* The other scheme is tried when the first has no row at all; a key with  *)
(* "*." when neither has.  The suffix compared then still starts with the  *)
(* scheme, so that of all hosts only the bare domain matches.              *)
Candidates(q) ==
  LET base == Under(q.scheme, q.host, FALSE)
      alt == Under(Other(q.scheme), q.host, FALSE)
      stars == {row \in cache : row.star /\ row.host = q.host}
  IN IF base # {} THEN base ELSE IF alt # {} THEN alt ELSE stars

(* Under the read lock the candidates are copied. *)
Lookup(c) ==
  /\ ready
  /\ call[c].phase = "new"
  /\ call' = [call EXCEPT ![c].phase = "looked",
                          ![c].candidates = Candidates(call[c].query),
                          ![c].unread = Intact(source) \ cache]
  /\ UNCHANGED <<active, edits, cache, source, load, faults, ready>>

Fits(q, row) ==
  /\ MethodMatches(row.method, q.method)
  /\ PathMatches(q.path, row.paths, row.action)

Key(row) == <<row.scheme, row.host, row.star>>

(* Fault: the oldest row that fits is taken. *)
FirstOldest(q, candidates) ==
  {row \in candidates :
     /\ Fits(q, row)
     /\ \A o \in candidates \ {row} :
          Key(o) = Key(row) /\ Fits(q, o) => o.domain > row.domain \/ o.id > row.id}

(* First match wins.  The rows of one key are in the order in which they   *)
(* were loaded; keys with "*." come in the order of a map, that is in any. *)
First(q, candidates) ==
  {row \in candidates :
     /\ Fits(q, row)
     /\ \A o \in candidates \ {row} :
          Key(o) = Key(row) /\ Fits(q, o) => Before(row, o)}

(* Outside the lock.  ProcessRequest counts a request without a match as a *)
(* candidate for discovery.                                                *)
Match(c) ==
  /\ call[c].phase = "looked"
  /\ LET hits == First(call[c].query, call[c].candidates)
     IN \/ /\ hits = {}
           /\ call' = [call EXCEPT ![c].phase = "done", ![c].outcome = "observed"]
        \/ \E row \in hits :
             call' = [call EXCEPT ![c].phase = "matched", ![c].match = row]
  /\ UNCHANGED <<active, edits, cache, source, load, faults, ready>>

ToLower(action) == IF action = "Record" THEN "record" ELSE action

(* tenantToolSanctioned reads is_sanctioned, which goes into the message   *)
(* and decides nothing; ProcessRequest goes by the action in lower case.   *)
TenantAnswers(c) ==
  /\ call[c].phase = "matched"
  /\ call' = [call EXCEPT ![c].phase = "done",
                          ![c].outcome = IF ToLower(call[c].match.action) = "record"
                                         THEN "recorded" ELSE "passed"]
  /\ UNCHANGED <<active, edits, cache, source, load, faults, ready>>

(* Fault: the error becomes a verdict of its own. *)
TenantFailsAnew(c) ==
  /\ call[c].phase = "matched"
  /\ call' = [call EXCEPT ![c].phase = "done", ![c].outcome = "error"]
  /\ UNCHANGED <<active, edits, cache, source, load, faults, ready>>

(* The query fails: MatchURL returns no match and the error, of which      *)
(* ProcessRequest logs the error and acts on the missing match.            *)
TenantFails(c) ==
  /\ call[c].phase = "matched"
  /\ call' = [call EXCEPT ![c].phase = "done", ![c].outcome = "observed"]
  /\ UNCHANGED <<active, edits, cache, source, load, faults, ready>>

-----------------------------------------------------------------------------
Refresh == LoadStarts \/ LoadEnds \/ \E row \in Rows : LoadRow(row)
MatchURL(c) == Lookup(c) \/ Match(c) \/ TenantAnswers(c) \/ TenantFails(c)

Next ==
  \/ \E row \in Rows : Edit(row)
  \/ Refresh \/ LoadFails \/ LoadBreaks
  \/ \E c \in Calls : MatchURL(c)

Spec == Init /\ [][Next]_vars

(* The ticker keeps firing and the database answers in the end. *)
FairSpec == Spec /\ WF_vars(Refresh)

-----------------------------------------------------------------------------
(* Properties.                                                             *)

LoadStates == [phase: {"idle", "reading"}, snapshot: SUBSET Rows,
               left: SUBSET Rows, got: SUBSET Rows]
CallStates == [phase: CallPhases, query: Queries, candidates: SUBSET Rows,
               unread: SUBSET Rows, match: Rows \cup {NoRow}, outcome: Outcomes]

(* Every variable has its type. *)
TypeOK ==
  /\ active \subseteq Rows /\ cache \subseteq Rows /\ source \subseteq Rows
  /\ load \in LoadStates
  /\ faults \in 0..MaxFaults /\ edits \in 0..MaxEdits
  /\ ready \in BOOLEAN
  /\ call \in [Calls -> CallStates]

(* The cache never holds a row that was not active when the last load that *)
(* ended queried the catalogue: no mixture of two loads, no leftover, also *)
(* when loads fail or break off.                                           *)
CacheOfOneLoad == cache \subseteq Intact(source)

(* Without a database error the cache is that catalogue, whole: no request *)
(* ever meets a half-filled one.                                           *)
CacheWhole == faults = 0 => cache = Intact(source)

(* A configured path that covers the path of the request, as the comments  *)
(* of pathMatches have it for rows of this action.                         *)
Documented(q, row, cfg) ==
  IF ~IsPlain(cfg) THEN DocumentedRegex(q.path, cfg)
  ELSE IF row.action = "record" THEN DocumentedExact(q.path, cfg)
  ELSE DocumentedPrefix(q.path, cfg)

(* What is recorded is what the catalogue asks for.  The row is one to     *)
(* record, of the request's host and verb, and covers its path: the whole  *)
(* of it, save that a row whose action is not spelled in lower case covers *)
(* the paths below its own, too.  And no newer row of its key and domain   *)
(* that fits was passed over, neither one that the call met nor one that a *)
(* load that broke off never read; among several keys with "*.", and       *)
(* spellings of one domain, the newest need not win.                       *)
RecordsCatalogued ==
  \A c \in Calls : call[c].outcome = "recorded" =>
    LET row == call[c].match
        q == call[c].query
    IN /\ ToLower(row.action) = "record"
       /\ row.host = q.host
       /\ row.method \in {"*", "", q.method}
       /\ row.paths # {} => \E cfg \in row.paths : Documented(q, row, cfg)
       /\ \A o \in call[c].candidates \cup call[c].unread :
            (Key(o) = Key(row) /\ o.domain = row.domain /\ Fits(q, o)) => o.id <= row.id

(* all, or as much of it as comes first in the order of the load. *)
Beginning(some, all) ==
  some \subseteq all /\ \A row \in some, o \in all : Before(o, row) => o \in some

(* Inductive: what a load has read so far is what it had to, in its order. *)
IInv ==
  /\ load.phase = "reading" =>
       /\ load.left \subseteq load.snapshot
       /\ load.got = Intact(load.snapshot \ load.left)
       /\ Beginning(load.snapshot \ load.left, load.snapshot)
  /\ Beginning(cache, Intact(source))
  /\ CacheWhole

(* A load that had begun with the present catalogue and did not break, or  *)
(* any later one, brings the cache up to date: once the administrator has  *)
(* stopped editing, the cache comes to agree with the catalogue for good.  *)
CacheConverges == <>[][FALSE]_active => <>[](cache = Intact(active))

=============================================================================
