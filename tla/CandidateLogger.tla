---------------------------- MODULE CandidateLogger ----------------------------
(***************************************************************************)
(* business/candidate_logger.go: hits on domains without a catalogue row   *)
(* are counted in memory and, on a ticker, added to candidate_domains in   *)
(* the database.                                                           *)
(*                                                                         *)
(* Actors: the request goroutines, which call Observe; the one flushLoop   *)
(* goroutine; the process, which a signal ends at any time and a           *)
(* supervisor starts again.  A definition commented "Fault:" is a broken   *)
(* variant of the one below it, which a property is there to refute.       *)
(***************************************************************************)
EXTENDS Naturals, FiniteSets

CONSTANTS
  Domains,       \* the hosts requests go to
  Denied,        \* those the denylist matches
  ContentTypes,  \* the content types of the requests
  MaxHits        \* bound on the counted hits of one domain

ASSUME DomainsAssumption == Denied \subseteq Domains
ASSUME MaxHitsAssumption == MaxHits \in Nat

VARIABLES
  counts,     \* CandidateLogger.counts, guarded by mu; 0: not in the map
  snapshot,   \* what the flush in progress still has to write
  phase,      \* where flushLoop is: waiting for the ticker, or writing
  expired,    \* the 5 s deadline all upserts of one flush share is over
  table,      \* candidate_domains.request_count
  up,         \* the process runs
  seen,       \* history: hits that passed the pre-filter
  unstored,   \* history: hits whose upsert failed and was not applied
  erred,      \* history: domains a flush error was logged for
  gone        \* history: hits that were in memory when a process ended

logger == <<counts, snapshot, phase, expired>>
history == <<seen, unstored, erred, gone>>
vars == <<logger, table, up, history>>

Zero == [d \in Domains |-> 0]

Init ==
  /\ counts = Zero /\ snapshot = Zero
  /\ phase = "waiting" /\ expired = FALSE
  /\ table = Zero
  /\ up = TRUE
  /\ seen = Zero
  /\ unstored = Zero /\ erred = {} /\ gone = Zero

-----------------------------------------------------------------------------
(* candidatePreFilter, for a POST or PUT: the content types containing     *)
(* "application/" are kept before the drop list is looked at, which names  *)
(* two of them, javascript and form.                                       *)
Application == {"json", "javascript", "form"}

Plausible(ct) ==
  ct \in Application \cup {"event-stream", "multipart", "other", "none"}

Observe(d, ct) ==
  /\ Plausible(ct) /\ d \notin Denied
  /\ seen[d] < MaxHits
  /\ counts' = [counts EXCEPT ![d] = @ + 1]
  /\ seen' = [seen EXCEPT ![d] = @ + 1]
  /\ UNCHANGED <<snapshot, phase, expired, table, up, unstored, erred, gone>>

(* Fault: flush returns on a map that is not empty. *)
TakeSnapshotWhenEmpty ==
  /\ phase = "waiting" /\ counts = Zero
  /\ snapshot' = counts
  /\ counts' = Zero
  /\ phase' = "writing" /\ expired' = FALSE
  /\ UNCHANGED <<table, up, history>>

(* Fault: no new map is made. *)
TakeSnapshotNilMap ==
  /\ phase = "waiting" /\ counts # Zero
  /\ snapshot' = counts
  /\ counts' = <<>>
  /\ phase' = "writing" /\ expired' = FALSE
  /\ UNCHANGED <<table, up, history>>

(* The ticker fires: flush swaps the map for an empty one under the mutex  *)
(* (an empty map ends the flush at once).                                  *)
TakeSnapshot ==
  /\ phase = "waiting" /\ counts # Zero
  /\ snapshot' = counts
  /\ counts' = Zero
  /\ phase' = "writing" /\ expired' = FALSE
  /\ UNCHANGED <<table, up, history>>

(* One upsert of the loop over the snapshot, in map order. *)
Upsert(d) ==
  /\ phase = "writing" /\ ~expired
  /\ snapshot[d] > 0
  /\ table' = [table EXCEPT ![d] = @ + snapshot[d]]
  /\ snapshot' = [snapshot EXCEPT ![d] = 0]
  /\ UNCHANGED <<counts, phase, expired, up, history>>

(* Fault: a failed upsert puts its hits back to try them again. *)
UpsertFailsRetries(d) ==
  /\ phase = "writing"
  /\ snapshot[d] > 0
  /\ table' \in {table} \cup
       (IF expired THEN {} ELSE {[table EXCEPT ![d] = @ + snapshot[d]]})
  /\ counts' = [counts EXCEPT ![d] = @ + snapshot[d]]
  /\ snapshot' = [snapshot EXCEPT ![d] = 0]
  /\ erred' = erred \cup {d}
  /\ UNCHANGED <<phase, expired, up, seen, unstored, gone>>

(* Fault: the first failed upsert ends the flush. *)
UpsertFailsBreaks(d) ==
  /\ phase = "writing"
  /\ snapshot[d] > 0
  /\ unstored' = [e \in Domains |-> unstored[e] + snapshot[e]]
  /\ snapshot' = Zero
  /\ erred' = erred \cup {d}
  /\ UNCHANGED <<counts, phase, expired, table, up, seen, gone>>

(* An upsert that returns an error is logged, and its hits are forgotten.  *)
(* A connection or a deadline that dies under a sent statement leaves open *)
(* whether it was applied; with the deadline over, none is sent.           *)
UpsertFails(d) ==
  /\ phase = "writing"
  /\ snapshot[d] > 0
  /\ \/ /\ table' = table
        /\ unstored' = [unstored EXCEPT ![d] = @ + snapshot[d]]
     \/ /\ ~expired
        /\ table' = [table EXCEPT ![d] = @ + snapshot[d]]
        /\ UNCHANGED unstored
  /\ snapshot' = [snapshot EXCEPT ![d] = 0]
  /\ erred' = erred \cup {d}
  /\ UNCHANGED <<counts, phase, expired, up, seen, gone>>

DeadlinePasses ==
  /\ phase = "writing" /\ ~expired
  /\ expired' = TRUE
  /\ UNCHANGED <<counts, snapshot, phase, table, up, history>>

FlushEnds ==
  /\ phase = "writing" /\ snapshot = Zero
  /\ phase' = "waiting"
  /\ UNCHANGED <<counts, snapshot, expired, table, up, history>>

(* StartServer returns on a signal and main with it; nothing calls Stop. *)
ProcessEnds ==
  /\ up' = FALSE
  /\ gone' = [d \in Domains |-> gone[d] + counts[d] + snapshot[d]]
  /\ counts' = Zero /\ snapshot' = Zero
  /\ phase' = "waiting" /\ expired' = FALSE
  /\ UNCHANGED <<table, seen, unstored, erred>>

(* NewCandidateLogger: an empty map, and go flushLoop. *)
ProcessStarts ==
  /\ ~up
  /\ up' = TRUE
  /\ UNCHANGED <<logger, table, history>>

-----------------------------------------------------------------------------
Flush == TakeSnapshot \/ FlushEnds \/ \E d \in Domains : Upsert(d) \/ UpsertFails(d)

Next ==
  \/ /\ up
     /\ \/ \E d \in Domains, ct \in ContentTypes : Observe(d, ct)
        \/ Flush \/ DeadlinePasses \/ ProcessEnds
  \/ ProcessStarts

Spec == Init /\ [][Next]_vars

(* The ticker keeps firing and the flushLoop goroutine is scheduled. *)
FairSpec == Spec /\ WF_vars(up /\ Flush)

-----------------------------------------------------------------------------
Counters == [Domains -> Nat]

(* Every variable has its type. *)
TypeOK ==
  /\ counts \in Counters /\ snapshot \in Counters /\ table \in Counters
  /\ phase \in {"waiting", "writing"} /\ expired \in BOOLEAN /\ up \in BOOLEAN
  /\ seen \in Counters /\ unstored \in Counters /\ gone \in Counters
  /\ erred \subseteq Domains

(* Every hit is somewhere exactly once: in the map, in the flush under way, *)
(* in the table, refused by the database, or lost with a process.           *)
Conserved ==
  \A d \in Domains :
    seen[d] = counts[d] + snapshot[d] + table[d] + unstored[d] + gone[d]

(* The table never counts a hit twice, although a failed upsert may have    *)
(* been applied: that is why flush does not retry.                          *)
NeverOvercounts == \A d \in Domains : table[d] <= seen[d]

(* While no process has died, a domain without a logged flush error has all *)
(* of its hits in memory or in the table: nothing is dropped silently.      *)
LossIsLogged ==
  \A d \in Domains :
    (d \notin erred /\ gone[d] = 0)
      => table[d] + counts[d] + snapshot[d] = seen[d]

(* The recorded count of a domain never goes down, also over restarts.      *)
TableGrows == [][\A d \in Domains : table'[d] >= table[d]]_vars

(* A counted hit does not stay in memory for ever. *)
LeavesMemory ==
  \A d \in Domains : counts[d] > 0 ~> (counts[d] = 0)

(* Inductive, and what the two properties above follow from. *)
IInv ==
  /\ Conserved
  /\ \A d \in Domains : d \notin erred => unstored[d] = 0
  /\ phase = "waiting" => snapshot = Zero

=============================================================================
