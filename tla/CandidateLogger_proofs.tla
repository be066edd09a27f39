------------------------- MODULE CandidateLogger_proofs -------------------------
(* Proofs about CandidateLogger, for every set of domains and content types *)
(* and every bound on the hits.                                             *)
EXTENDS CandidateLogger, TLAPS

LEMMA ZeroTyped == Zero \in [Domains -> Nat] /\ \A d \in Domains : Zero[d] = 0
  BY DEF Zero

LEMMA TypeInit == Init => TypeOK
  BY ZeroTyped DEF Init, Counters, TypeOK

LEMMA TypeNext == TypeOK /\ [Next]_vars => TypeOK'
  <1> SUFFICES ASSUME TypeOK, [Next]_vars PROVE TypeOK'
    OBVIOUS
  <1> USE DEF TypeOK, Counters
  <1>1. ASSUME NEW d \in Domains, NEW ct \in ContentTypes, Observe(d, ct)
        PROVE  TypeOK'
    BY <1>1 DEF Observe
  <1>2. CASE TakeSnapshot
    BY <1>2, ZeroTyped DEF TakeSnapshot, history
  <1>3. ASSUME NEW d \in Domains, Upsert(d) PROVE TypeOK'
    BY <1>3 DEF Upsert, history
  <1>4. ASSUME NEW d \in Domains, UpsertFails(d) PROVE TypeOK'
    BY <1>4 DEF UpsertFails
  <1>5. CASE DeadlinePasses  BY <1>5 DEF DeadlinePasses, history
  <1>6. CASE FlushEnds       BY <1>6 DEF FlushEnds, history
  <1>7. CASE ProcessEnds
    <2>1. gone' \in [Domains -> Nat]
      BY <1>7 DEF ProcessEnds
    <2>2. QED BY <1>7, <2>1, ZeroTyped DEF ProcessEnds
  <1>8. CASE ProcessStarts   BY <1>8 DEF ProcessStarts, logger, history
  <1>9. CASE UNCHANGED vars  BY <1>9 DEF vars, logger, history
  <1>10. QED
    BY <1>1, <1>2, <1>3, <1>4, <1>5, <1>6, <1>7, <1>8, <1>9 DEF Next, Flush

(* Every counter stays a natural number. *)
THEOREM TypeCorrect == Spec => []TypeOK
  BY TypeInit, TypeNext, PTL DEF Spec

LEMMA InvNext == TypeOK /\ IInv /\ [Next]_vars => IInv'
  <1> SUFFICES ASSUME TypeOK, IInv, [Next]_vars PROVE IInv'
    OBVIOUS
  <1> USE DEF TypeOK, Counters, IInv, Conserved
  <1>1. ASSUME NEW d \in Domains, NEW ct \in ContentTypes, Observe(d, ct)
        PROVE  IInv'
    BY <1>1 DEF Observe
  <1>2. CASE TakeSnapshot
    BY <1>2, ZeroTyped DEF TakeSnapshot, history
  <1>3. ASSUME NEW d \in Domains, Upsert(d) PROVE IInv'
    BY <1>3 DEF Upsert, history
  <1>4. ASSUME NEW d \in Domains, UpsertFails(d) PROVE IInv'
    BY <1>4 DEF UpsertFails
  <1>5. CASE DeadlinePasses  BY <1>5 DEF DeadlinePasses, history
  <1>6. CASE FlushEnds       BY <1>6 DEF FlushEnds, history
  <1>7. CASE ProcessEnds
    BY <1>7, ZeroTyped DEF ProcessEnds
  <1>8. CASE ProcessStarts   BY <1>8 DEF ProcessStarts, logger, history
  <1>9. CASE UNCHANGED vars  BY <1>9 DEF vars, logger, history
  <1>10. QED
    BY <1>1, <1>2, <1>3, <1>4, <1>5, <1>6, <1>7, <1>8, <1>9 DEF Next, Flush

LEMMA InvInit == Init => IInv
  BY ZeroTyped DEF Init, IInv, Conserved

(* No hit is dropped or counted twice without a trace, whatever upserts fail *)
(* and whenever the process dies.                                            *)
THEOREM Invariant == Spec => []IInv
  BY TypeCorrect, InvInit, InvNext, PTL DEF Spec

(* The database never holds more hits of a domain than were observed.        *)
THEOREM NoOvercount == Spec => []NeverOvercounts
  <1>1. TypeOK /\ IInv => NeverOvercounts
    BY DEF TypeOK, Counters, IInv, Conserved, NeverOvercounts
  <1>2. QED BY <1>1, TypeCorrect, Invariant, PTL

(* A domain whose flushes were never logged as failed has lost no hit while  *)
(* no process died.                                                          *)
THEOREM LogsLosses == Spec => []LossIsLogged
  <1>1. TypeOK /\ IInv => LossIsLogged
    BY DEF TypeOK, Counters, IInv, Conserved, LossIsLogged
  <1>2. QED BY <1>1, TypeCorrect, Invariant, PTL

(* No step takes hits out of the table, a failed upsert or a crash included. *)
THEOREM TableNeverShrinks == Spec => TableGrows
  <1>1. TypeOK /\ [Next]_vars => [\A d \in Domains : table'[d] >= table[d]]_vars
    <2> SUFFICES ASSUME TypeOK, [Next]_vars, NEW d \in Domains
                 PROVE  table'[d] >= table[d]
      OBVIOUS
    <2> USE DEF TypeOK, Counters
    <2>1. ASSUME NEW e \in Domains, Upsert(e) PROVE table'[d] >= table[d]
      BY <2>1 DEF Upsert
    <2>2. ASSUME NEW e \in Domains, UpsertFails(e) PROVE table'[d] >= table[d]
      BY <2>2 DEF UpsertFails
    <2>3. CASE UNCHANGED table
      BY <2>3
    <2>4. QED
      BY <2>1, <2>2, <2>3
      DEF Next, Flush, Observe, TakeSnapshot, DeadlinePasses, FlushEnds,
          ProcessEnds, ProcessStarts, vars
  <1>2. QED BY <1>1, TypeCorrect, PTL DEF Spec, TableGrows

-----------------------------------------------------------------------------
(* Towards LeavesMemory: a flush comes to its end, for each of its steps     *)
(* takes a domain off the snapshot and nothing puts one back.                *)

Unwritten == {d \in Domains : snapshot[d] > 0}

(* A flush that writes takes one domain at a time off its snapshot, whether  *)
(* the database answers, fails or is late, and hits that are observed        *)
(* meanwhile go into the next flush.                                         *)
THEOREM FlushShrinks ==
  Spec => [][phase = "writing" =>
               /\ Unwritten' \subseteq Unwritten
               /\ Flush => phase' = "waiting" \/ \E d \in Unwritten : d \notin Unwritten'
            ]_vars
  <1>1. TypeOK /\ [Next]_vars =>
          [phase = "writing" =>
             /\ Unwritten' \subseteq Unwritten
             /\ Flush => phase' = "waiting" \/ \E d \in Unwritten : d \notin Unwritten'
          ]_vars
    <2> SUFFICES ASSUME TypeOK, [Next]_vars, phase = "writing"
                 PROVE  /\ Unwritten' \subseteq Unwritten
                        /\ Flush => \/ phase' = "waiting"
                                    \/ \E d \in Unwritten : d \notin Unwritten'
      OBVIOUS
    <2>1. ASSUME NEW d \in Domains, Upsert(d) \/ UpsertFails(d)
          PROVE  d \in Unwritten /\ Unwritten' = Unwritten \ {d}
      <3>1. snapshot[d] > 0 /\ snapshot' = [snapshot EXCEPT ![d] = 0]
        BY <2>1 DEF Upsert, UpsertFails
      <3>2. QED BY <3>1 DEF Unwritten, TypeOK, Counters
    <2>2. ASSUME UNCHANGED snapshot PROVE Unwritten' \subseteq Unwritten
      BY <2>2 DEF Unwritten
    <2>3. ASSUME ProcessEnds PROVE Unwritten' \subseteq Unwritten
      BY <2>3 DEF ProcessEnds, Unwritten, Zero
    <2>4. Unwritten' \subseteq Unwritten
      BY <2>1, <2>2, <2>3
      DEF Next, Flush, Observe, TakeSnapshot, FlushEnds, DeadlinePasses,
          ProcessStarts, vars, logger
    <2>5. Flush => \/ phase' = "waiting"
                   \/ \E d \in Unwritten : d \notin Unwritten'
      BY <2>1 DEF Flush, TakeSnapshot, FlushEnds
    <2>6. QED BY <2>4, <2>5
  <1>2. QED BY <1>1, TypeCorrect, PTL DEF Spec
=============================================================================
