------------------------- MODULE EndpointCache_proofs -------------------------
(***************************************************************************)
(* What EndpointCache guarantees for every catalogue, every set of calls   *)
(* and any number of database errors.                                      *)
(***************************************************************************)
EXTENDS EndpointCache, PathMatching_proofs

LEMMA InitTypeOK == Init => TypeOK
<1> SUFFICES ASSUME Init PROVE TypeOK
  OBVIOUS
<1>1. call \in [Calls -> CallStates]
  <2>1. \A q \in Queries :
          [phase |-> "new", query |-> q, candidates |-> {}, unread |-> {},
           match |-> NoRow, outcome |-> "none"] \in CallStates
    BY DEF CallStates, CallPhases, Outcomes
  <2>2. QED BY <2>1 DEF Init
<1>2. load \in LoadStates
  BY DEF Init, IdleLoad, LoadStates
<1>3. faults \in 0..MaxFaults /\ edits \in 0..MaxEdits
  BY BoundsAssumption DEF Init
<1>4. QED BY <1>1, <1>2, <1>3 DEF Init, TypeOK

LEMMA CandidatesCached ==
  ASSUME TypeOK, NEW q \in Queries
  PROVE  Candidates(q) \subseteq Rows
BY DEF TypeOK, Candidates, Under

LEMMA NextTypeOK == TypeOK /\ [Next]_vars => TypeOK'
<1> SUFFICES ASSUME TypeOK, [Next]_vars PROVE TypeOK'
  OBVIOUS
<1> USE BoundsAssumption
<1>1. ASSUME NEW row \in Rows, Edit(row) PROVE TypeOK'
  BY <1>1 DEF TypeOK, Edit
<1>2. CASE LoadStarts
  BY <1>2 DEF TypeOK, LoadStarts, LoadStates
<1>3. CASE LoadFails
  BY <1>3 DEF TypeOK, LoadFails
<1>4. ASSUME NEW row \in Rows, LoadRow(row) PROVE TypeOK'
  <2>1. load' \in LoadStates
    BY <1>4 DEF TypeOK, LoadRow, LoadStates
  <2>2. QED BY <2>1, <1>4 DEF TypeOK, LoadRow
<1>5. ASSUME Install, faults' \in 0..MaxFaults PROVE TypeOK'
  BY <1>5 DEF TypeOK, Install, IdleLoad, LoadStates
<1>6. CASE LoadEnds
  BY <1>5, <1>6 DEF TypeOK, LoadEnds
<1>7. CASE LoadBreaks
  BY <1>5, <1>7 DEF TypeOK, LoadBreaks
<1>8. ASSUME NEW c \in Calls, MatchURL(c) PROVE TypeOK'
  <2> SUFFICES call' \in [Calls -> CallStates]
    BY <1>8 DEF TypeOK, MatchURL, Lookup, Match, TenantAnswers, TenantFails
  <2>0. call[c] \in CallStates /\ call[c].query \in Queries
    BY DEF TypeOK, CallStates
  <2>1. CASE Lookup(c)
    <3>1. Candidates(call[c].query) \subseteq Rows /\ Intact(source) \ cache \subseteq Rows
      BY <2>0, CandidatesCached DEF TypeOK, Intact
    <3>2. QED BY <2>1, <3>1, <2>0 DEF TypeOK, Lookup, CallStates, CallPhases
  <2>2. CASE Match(c)
    <3>1. \A row \in First(call[c].query, call[c].candidates) : row \in Rows
      BY <2>0 DEF First, CallStates
    <3>2. QED
      BY <2>2, <3>1, <2>0 DEF TypeOK, Match, CallStates, CallPhases, Outcomes
  <2>3. CASE TenantAnswers(c)
    BY <2>3, <2>0 DEF TypeOK, TenantAnswers, CallStates, CallPhases, Outcomes
  <2>4. CASE TenantFails(c)
    BY <2>4, <2>0 DEF TypeOK, TenantFails, CallStates, CallPhases, Outcomes
  <2>5. QED BY <1>8, <2>1, <2>2, <2>3, <2>4 DEF MatchURL
<1>9. CASE UNCHANGED vars
  BY <1>9 DEF TypeOK, vars
<1>10. QED
  BY <1>1, <1>2, <1>3, <1>4, <1>6, <1>7, <1>8, <1>9 DEF Next, Refresh

(* Every variable keeps its type (urlmatcher.go's cache, load and calls).  *)
THEOREM TypeCorrect == Spec => []TypeOK
<1>1. QED BY InitTypeOK, NextTypeOK, PTL DEF Spec

(* The order of the rows is strict. *)
LEMMA OneComesFirst ==
  ASSUME NEW a \in Rows, NEW b \in Rows, Before(a, b) PROVE ~Before(b, a)
<1>1. /\ a.id \in Nat /\ b.id \in Nat /\ a.domain \in Nat /\ b.domain \in Nat
  BY RowsAssumption
<1> QED BY <1>1 DEF Before

(* The rows that came are those that come first. *)
LEMMA ComesNext ==
  ASSUME NEW all \in SUBSET Rows, NEW left \in SUBSET all,
         Beginning(all \ left, all), NEW row \in left,
         \A o \in left \ {row} : Before(row, o)
  PROVE  Beginning(all \ (left \ {row}), all)
<1> SUFFICES ASSUME NEW r \in all \ (left \ {row}), NEW o \in all, Before(o, r),
                    o \in left \ {row}
             PROVE  FALSE
  BY DEF Beginning
<1>1. CASE r = row BY <1>1, OneComesFirst
<1>2. CASE r \in all \ left BY <1>2 DEF Beginning
<1> QED BY <1>1, <1>2

(* A refresh that is complete has read the intact rows of its snapshot.    *)
LEMMA NextIInv == TypeOK /\ IInv /\ [Next]_vars => IInv'
<1> SUFFICES ASSUME TypeOK, IInv, [Next]_vars PROVE IInv'
  OBVIOUS
<1> USE BoundsAssumption
<1>1. CASE UNCHANGED <<cache, source, load, faults>>
  BY <1>1 DEF IInv, CacheWhole
<1>2. CASE LoadStarts
  BY <1>2 DEF IInv, LoadStarts, CacheWhole, Intact, Beginning
<1>3. CASE LoadFails
  <2>1. faults' # 0
    BY <1>3 DEF LoadFails, TypeOK
  <2>2. QED BY <1>3, <2>1 DEF IInv, LoadFails, CacheWhole
<1>4. ASSUME NEW row \in Rows, LoadRow(row) PROVE IInv'
  <2>1. /\ load.phase = "reading" /\ row \in load.left
        /\ \A o \in load.left \ {row} : Before(row, o)
    BY <1>4 DEF LoadRow, Comes
  <2>2. /\ load'.left = load.left \ {row} /\ load'.phase = "reading"
        /\ load'.snapshot = load.snapshot
        /\ load'.got = IF row.intact THEN load.got \cup {row} ELSE load.got
    BY <1>4, <2>1 DEF LoadRow, TypeOK, LoadStates
  <2>3. load'.got = Intact(load'.snapshot \ load'.left)
    <3>1. \A r : r \in load'.snapshot \ load'.left
                  <=> r \in load.snapshot \ load.left \/ r = row
      BY <2>1, <2>2 DEF IInv
    <3>2. QED BY <2>1, <2>2, <3>1 DEF IInv, Intact
  <2>4. Beginning(load'.snapshot \ load'.left, load'.snapshot)
    <3>1. load.snapshot \in SUBSET Rows /\ load.left \in SUBSET load.snapshot
      BY <2>1 DEF IInv, TypeOK, LoadStates
    <3>2. Beginning(load.snapshot \ load.left, load.snapshot) BY <2>1 DEF IInv
    <3> QED BY <2>1, <2>2, <3>1, <3>2, ComesNext
  <2>5. UNCHANGED <<cache, source, faults>> BY <1>4 DEF LoadRow
  <2>6. load'.left \subseteq load'.snapshot BY <2>1, <2>2 DEF IInv
  <2>7. (Beginning(cache, Intact(source)) /\ CacheWhole)' BY <2>5 DEF IInv, CacheWhole
  <2> QED BY <2>3, <2>4, <2>6, <2>7 DEF IInv
<1>5. CASE LoadEnds
  <2>1. load.got = Intact(load.snapshot)
    BY <1>5 DEF LoadEnds, IInv
  <2>2. cache' = Intact(source') /\ load'.phase = "idle"
    BY <1>5, <2>1 DEF LoadEnds, Install, IdleLoad
  <2>3. QED BY <2>2 DEF IInv, CacheWhole, Beginning
<1>6. CASE LoadBreaks
  <2>1. Beginning(load.got, Intact(load.snapshot))
    BY <1>6 DEF LoadBreaks, IInv, Intact, Beginning
  <2>2. faults' # 0
    BY <1>6 DEF LoadBreaks, TypeOK
  <2>3. cache' = load.got /\ source' = load.snapshot /\ load'.phase = "idle"
    BY <1>6 DEF LoadBreaks, Install, IdleLoad
  <2>4. QED BY <2>1, <2>2, <2>3 DEF IInv, CacheWhole
<1>7. ASSUME NEW row \in Rows, Edit(row) PROVE IInv'
  BY <1>1, <1>7 DEF Edit
<1>8. ASSUME NEW c \in Calls, MatchURL(c) PROVE IInv'
  BY <1>1, <1>8 DEF MatchURL, Lookup, Match, TenantAnswers, TenantFails
<1>9. CASE UNCHANGED vars
  BY <1>1, <1>9 DEF vars
<1>10. QED
  BY <1>2, <1>3, <1>4, <1>5, <1>6, <1>7, <1>8, <1>9 DEF Next, Refresh

(* RefreshEndpointsCache never leaves a cache that mixes two loads: what   *)
(* is cached is what comes first in the order of one catalogue, also when  *)
(* the load broke off.                                                     *)
THEOREM Invariant == Spec => []IInv
<1>1. Init => IInv
  BY DEF Init, IInv, IdleLoad, CacheWhole, Intact, Beginning
<1>2. QED BY <1>1, NextIInv, TypeCorrect, PTL DEF Spec

(* Every cached row was active when the last load to end queried it.       *)
THEOREM NoMixture == Spec => []CacheOfOneLoad
<1>1. IInv => CacheOfOneLoad
  BY DEF IInv, CacheOfOneLoad, Beginning
<1>2. QED BY <1>1, Invariant, PTL

(* As long as no database call failed, the cache is that catalogue.        *)
THEOREM Complete == Spec => []CacheWhole
<1>1. IInv => CacheWhole
  BY DEF IInv
<1>2. QED BY <1>1, Invariant, PTL

-----------------------------------------------------------------------------
(* What a call has found.                                                  *)

(* A call that was answered with a row is answered with the first that     *)
(* fits, whatever the cache has become since its lookup, and nothing that  *)
(* comes before its candidates was missing from the cache.                 *)
Found(c) ==
  LET k == call[c] IN
  /\ k.outcome # "none" => k.phase = "done"
  /\ \A row \in k.candidates : row.host = k.query.host
  /\ \A row \in k.candidates, o \in k.unread : ~Before(o, row)
  /\ k.phase = "matched" => k.match \in First(k.query, k.candidates)
  /\ k.outcome = "recorded" =>
       /\ k.match \in First(k.query, k.candidates)
       /\ ToLower(k.match.action) = "record"

CallsFound == \A c \in Calls : Found(c)

LEMMA CandidatesOfHost ==
  ASSUME NEW q PROVE \A row \in Candidates(q) : row \in cache /\ row.host = q.host
BY DEF Candidates, Under

LEMMA FoundKept ==
  ASSUME NEW c \in Calls, Found(c), call'[c] = call[c] PROVE Found(c)'
BY DEF Found

LEMMA MatchURLKeeps ==
  ASSUME TypeOK, IInv, CallsFound, NEW c \in Calls, MatchURL(c) PROVE CallsFound'
<1>1. call \in [Calls -> CallStates] /\ call[c] \in CallStates /\ Found(c)
  BY DEF TypeOK, CallsFound
<1>2. \A d \in Calls : d # c => call'[d] = call[d]
  BY <1>1 DEF MatchURL, Lookup, Match, TenantAnswers, TenantFails
<1>3. Found(c)'
  <2>1. CASE Lookup(c)
    <3>1. call[c].outcome = "none" /\ call'[c] = [call[c] EXCEPT
            !.phase = "looked", !.candidates = Candidates(call[c].query),
            !.unread = Intact(source) \ cache]
      BY <1>1, <2>1 DEF Lookup, Found
    <3>2. /\ call'[c].outcome = "none" /\ call'[c].phase = "looked"
          /\ call'[c].candidates = Candidates(call[c].query)
          /\ call'[c].unread = Intact(source) \ cache
          /\ call'[c].query = call[c].query
      BY <1>1, <3>1 DEF CallStates
    <3>3. \A row \in cache, o \in Intact(source) \ cache : ~Before(o, row)
      BY DEF IInv, Beginning
    <3> QED BY <3>2, <3>3, CandidatesOfHost DEF Found
  <2>2. ASSUME Match(c), call'[c] = [call[c] EXCEPT !.phase = "done", !.outcome = "observed"]
        PROVE  Found(c)'
    BY <1>1, <2>2 DEF Found, CallStates
  <2>3. ASSUME NEW row \in First(call[c].query, call[c].candidates), call[c].phase = "looked",
               call'[c] = [call[c] EXCEPT !.phase = "matched", !.match = row]
        PROVE  Found(c)'
    <3>1. call[c].outcome = "none" BY <1>1, <2>3 DEF Found
    <3>2. /\ call'[c].outcome = "none" /\ call'[c].phase = "matched"
          /\ call'[c].candidates = call[c].candidates
          /\ call'[c].unread = call[c].unread
          /\ call'[c].query = call[c].query /\ call'[c].match = row
      BY <1>1, <2>3, <3>1 DEF CallStates
    <3> QED BY <1>1, <3>2 DEF Found
  <2>4. CASE Match(c) BY <1>1, <2>2, <2>3, <2>4 DEF Match
  <2>5. CASE TenantAnswers(c)
    <3>1. /\ call'[c].phase = "done"
          /\ call'[c].outcome = IF ToLower(call[c].match.action) = "record"
                                THEN "recorded" ELSE "passed"
          /\ call'[c].candidates = call[c].candidates
          /\ call'[c].unread = call[c].unread
          /\ call'[c].query = call[c].query /\ call'[c].match = call[c].match
          /\ call[c].phase = "matched"
      BY <1>1, <2>5 DEF TenantAnswers, CallStates
    <3> QED BY <1>1, <3>1 DEF Found
  <2>6. CASE TenantFails(c)
    BY <1>1, <2>6 DEF TenantFails, Found, CallStates
  <2> QED BY <2>1, <2>4, <2>5, <2>6 DEF MatchURL
<1> QED BY <1>2, <1>3, FoundKept DEF CallsFound

LEMMA NextKeepsFound == TypeOK /\ IInv /\ CallsFound /\ [Next]_vars => CallsFound'
<1> SUFFICES ASSUME TypeOK, IInv, CallsFound, [Next]_vars PROVE CallsFound' OBVIOUS
<1>1. CASE UNCHANGED call BY <1>1, FoundKept DEF CallsFound
<1>2. ASSUME NEW c \in Calls, MatchURL(c) PROVE CallsFound' BY <1>2, MatchURLKeeps
<1> QED
  BY <1>1, <1>2 DEF Next, Refresh, vars, Edit, LoadStarts, LoadEnds, LoadRow,
                    LoadFails, LoadBreaks, Install

(* A request is answered from the rows it met, first match first, while    *)
(* the cache is replaced under it; and of its key and domain it met the    *)
(* newest, also when the load had broken off.                              *)
THEOREM CallsInvariant == Spec => []CallsFound
<1>1. Init => CallsFound
  <2> SUFFICES ASSUME Init, NEW c \in Calls PROVE Found(c) BY DEF CallsFound
  <2>1. /\ call[c].phase = "new" /\ call[c].outcome = "none"
        /\ call[c].candidates = {} /\ call[c].unread = {}
    BY DEF Init
  <2> QED BY <2>1 DEF Found
<1> QED BY <1>1, NextKeepsFound, Invariant, TypeCorrect, PTL DEF Spec

(* What Fits says of one configured path, in the words of the comments.    *)
LEMMA CoversAsDocumented ==
  ASSUME NEW q \in Queries, NEW row \in Rows, NEW cfg \in row.paths,
         Covers(q.path, cfg, row.action)
  PROVE  Documented(q, row, cfg)
<1>1. cfg \in Configured /\ q.path \in Paths
  BY RowsAssumption, QueriesAssumption
<1>2. CASE ~IsPlain(cfg)
  <2>1. RegexMatch(q.path, cfg) BY <1>1, <1>2, PlainPath DEF Covers
  <2> QED BY <1>1, <1>2, <2>1, RegexInFull DEF Documented
<1>3. CASE IsPlain(cfg) /\ row.action = "record"
  BY <1>1, <1>3, RecordCovers DEF Documented
<1>4. CASE IsPlain(cfg) /\ row.action # "record"
  BY <1>1, <1>4, OthersCover DEF Documented
<1> QED BY <1>2, <1>3, <1>4

LEMMA FoundIsCatalogued == TypeOK /\ CallsFound => RecordsCatalogued
<1> SUFFICES ASSUME TypeOK, CallsFound, NEW c \in Calls, call[c].outcome = "recorded"
             PROVE  LET row == call[c].match
                        q == call[c].query
                    IN /\ ToLower(row.action) = "record"
                       /\ row.host = q.host
                       /\ row.method \in {"*", "", q.method}
                       /\ row.paths # {} => \E cfg \in row.paths : Documented(q, row, cfg)
                       /\ \A o \in call[c].candidates \cup call[c].unread :
                            (/\ Key(o) = Key(row)
                             /\ o.domain = row.domain
                             /\ Fits(q, o)) => o.id <= row.id
  BY DEF RecordsCatalogued
<1> DEFINE row == call[c].match
           q == call[c].query
           candidates == call[c].candidates
           unread == call[c].unread
<1>1. /\ row \in First(q, candidates) /\ ToLower(row.action) = "record"
      /\ \A o \in candidates : o.host = q.host
      /\ \A r \in candidates, o \in unread : ~Before(o, r)
  BY DEF CallsFound, Found
<1>2. candidates \subseteq Rows /\ unread \subseteq Rows /\ q \in Queries
  BY DEF TypeOK, CallStates
<1> HIDE DEF row, q, candidates, unread
<1>3. /\ row \in candidates /\ Fits(q, row)
      /\ \A o \in candidates \ {row} :
           Key(o) = Key(row) /\ Fits(q, o) => Before(row, o)
  BY <1>1 DEF First
<1>4. row.method \in {"*", "", q.method} BY <1>3 DEF Fits, MethodMatches
<1>5. ASSUME row.paths # {} PROVE \E cfg \in row.paths : Documented(q, row, cfg)
  <2>1. PICK cfg \in row.paths : Covers(q.path, cfg, row.action)
    BY <1>3, <1>5 DEF Fits, PathMatches
  <2>2. Documented(q, row, cfg) BY <1>2, <1>3, <2>1, CoversAsDocumented
  <2> QED BY <2>2
<1>6. ASSUME NEW o \in candidates \cup unread, Key(o) = Key(row),
             o.domain = row.domain, Fits(q, o)
      PROVE  o.id <= row.id
  <2>1. o.id \in Nat /\ row.id \in Nat /\ o.domain \in Nat
    BY <1>2, <1>3, RowsAssumption
  <2>2. CASE o \in candidates \ {row}
    <3>1. Before(row, o) BY <1>3, <1>6, <2>2
    <3> QED BY <1>6, <2>1, <3>1 DEF Before
  <2>3. CASE o \in unread
    <3>1. ~Before(o, row) BY <1>1, <1>3, <2>3
    <3> QED BY <1>6, <2>1, <3>1 DEF Before
  <2>4. CASE o = row BY <2>1, <2>4
  <2> QED BY <2>2, <2>3, <2>4
<1>7. row.host = q.host BY <1>1, <1>3
<1> QED BY <1>1, <1>4, <1>5, <1>6, <1>7 DEF row, q, candidates, unread

(* What is recorded is what the catalogue asks for: a row to record, of    *)
(* the host, the verb and the path of the request, and no newer one of its *)
(* key and domain that fits was passed over, whatever the load of the      *)
(* cache it met had come to.                                               *)
THEOREM RecordsTheCatalogued == Spec => []RecordsCatalogued
<1> QED BY FoundIsCatalogued, CallsInvariant, TypeCorrect, PTL

-----------------------------------------------------------------------------
(* Towards CacheConverges: what does not need fairness.                    *)

(* The cache agrees with the catalogue, and so will the load under way.    *)
Agrees ==
  /\ cache = Intact(active)
  /\ load.phase = "reading" => load.snapshot = active

(* A refresh that ends makes the cache the intact rows of the catalogue it *)
(* queried, whatever the cache was and however many loads had failed.      *)
THEOREM RefreshesWhole == Spec => [][LoadEnds => cache' = Intact(load.snapshot)]_vars
<1>1. IInv => [LoadEnds => cache' = Intact(load.snapshot)]_vars
  <2> SUFFICES ASSUME IInv, LoadEnds PROVE cache' = Intact(load.snapshot) OBVIOUS
  <2> QED BY DEF IInv, LoadEnds, Install
<1> QED BY <1>1, Invariant, PTL

(* Once it agrees with the catalogue, the cache keeps agreeing, over any   *)
(* number of refreshes, until a row is edited or a refresh breaks off: a   *)
(* refresh that was under way before an edit cannot undo a later one.      *)
THEOREM AgreesForGood ==
  Spec => [][Agrees => Agrees' \/ active' # active \/ LoadBreaks]_vars
<1>1. TypeOK /\ IInv /\ [Next]_vars =>
        [Agrees => Agrees' \/ active' # active \/ LoadBreaks]_vars
  <2> SUFFICES ASSUME TypeOK, IInv, [Next]_vars, Agrees, active' = active, ~LoadBreaks
               PROVE  Agrees'
    OBVIOUS
  <2>1. CASE UNCHANGED <<cache, load>> BY <2>1 DEF Agrees, Intact
  <2>2. CASE LoadStarts BY <2>2 DEF LoadStarts, Agrees, Intact
  <2>3. ASSUME NEW row \in Rows, LoadRow(row) PROVE Agrees'
    <3>1. load'.phase = load.phase /\ load'.snapshot = load.snapshot
      BY <2>3 DEF LoadRow, TypeOK, LoadStates
    <3> QED BY <2>3, <3>1 DEF LoadRow, Agrees, Intact
  <2>4. CASE LoadEnds
    <3>1. cache' = Intact(load.snapshot) /\ load.snapshot = active
      BY <2>4 DEF LoadEnds, Install, IInv, Agrees
    <3>2. load'.phase = "idle" BY <2>4 DEF LoadEnds, Install, IdleLoad
    <3> QED BY <3>1, <3>2 DEF Agrees, Intact
  <2>5. ASSUME NEW row \in Rows, Edit(row) PROVE Agrees'
    BY <2>1, <2>5 DEF Edit
  <2>6. CASE LoadFails BY <2>1, <2>6 DEF LoadFails
  <2>7. ASSUME NEW c \in Calls, MatchURL(c) PROVE Agrees'
    BY <2>1, <2>7 DEF MatchURL, Lookup, Match, TenantAnswers, TenantFails
  <2> QED BY <2>1, <2>2, <2>3, <2>4, <2>5, <2>6, <2>7 DEF Next, Refresh, vars
<1> QED BY <1>1, TypeCorrect, Invariant, PTL DEF Spec

(* The load that reads goes on to its next row, or ends.                   *)
NextRowOrEnd ==
  \/ load' = load \/ load'.phase = "idle"
  \/ /\ load'.phase = "reading" /\ load'.snapshot = load.snapshot
     /\ load'.left \subseteq load.left /\ load'.left # load.left

(* A load comes to its end: each row that comes is one less to come, and   *)
(* the edits made meanwhile, however many, do not lengthen it.             *)
THEOREM LoadShrinks == Spec => [][load.phase = "reading" => NextRowOrEnd]_vars
<1>1. TypeOK /\ [Next]_vars => [load.phase = "reading" => NextRowOrEnd]_vars
  <2> SUFFICES ASSUME TypeOK, [Next]_vars, load.phase = "reading" PROVE NextRowOrEnd
    OBVIOUS
  <2>1. CASE UNCHANGED load BY <2>1 DEF NextRowOrEnd
  <2>2. ASSUME NEW row \in Rows, LoadRow(row) PROVE NextRowOrEnd
    <3>1. /\ load'.phase = "reading" /\ load'.snapshot = load.snapshot
          /\ load'.left = load.left \ {row}
      BY <2>2 DEF LoadRow, TypeOK, LoadStates
    <3>2. row \in load.left BY <2>2 DEF LoadRow, Comes
    <3> QED BY <3>1, <3>2 DEF NextRowOrEnd
  <2>3. CASE LoadEnds \/ LoadBreaks
    BY <2>3 DEF LoadEnds, LoadBreaks, Install, IdleLoad, NextRowOrEnd
  <2>4. ~LoadStarts /\ ~LoadFails BY DEF LoadStarts, LoadFails
  <2>5. ASSUME NEW c \in Calls, MatchURL(c) PROVE NextRowOrEnd
    BY <2>1, <2>5 DEF MatchURL, Lookup, Match, TenantAnswers, TenantFails
  <2>6. ASSUME NEW row \in Rows, Edit(row) PROVE NextRowOrEnd BY <2>1, <2>6 DEF Edit
  <2> QED BY <2>1, <2>2, <2>3, <2>4, <2>5, <2>6 DEF Next, Refresh, vars
<1> QED BY <1>1, TypeCorrect, PTL DEF Spec
=============================================================================
