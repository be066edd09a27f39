--------------------------- MODULE RecordingContract ---------------------------
(***************************************************************************)
(* What ICAPeg promises about recording, without its passes, goroutines    *)
(* and previews: a transaction is recorded at most once, with all of its   *)
(* body or as metadata only, and a refused transaction is never recorded.  *)
(* The transport may deliver a recording more than once, but then the same *)
(* one, and no more often than it tries.                                   *)
(***************************************************************************)
EXTENDS Naturals

CONSTANTS
  Reqs, Parts,
  Forms,      \* all there is to a recording but the body
  MaxCopies   \* how often the transport may deliver one recording

VARIABLES
  owed,      \* owed[r]: what may stand for the body of r in a recording
  log,       \* what was delivered: messages [req, body, form, copy]
  refused,   \* transactions refused by the business logic
  answered   \* transactions whose client got an answer

cvars == <<owed, log, refused, answered>>

Copies(r) == {m \in log : m.req = r}

Init ==
  /\ owed \in [Reqs -> SUBSET SUBSET Parts]
  /\ log = {} /\ refused = {} /\ answered = {}

(* Every copy after the first is one of the same recording. *)
Publish(r) ==
  /\ r \notin refused
  /\ \E b \in owed[r], f \in Forms, n \in 1..MaxCopies :
       /\ \A m \in Copies(r) : m.body = b /\ m.form = f /\ m.copy < n
       /\ log' = log \cup {[req |-> r, body |-> b, form |-> f, copy |-> n]}
  /\ UNCHANGED <<owed, refused, answered>>

(* A refusal is itself the answer that follows. *)
Refuse(r) ==
  /\ r \notin answered
  /\ Copies(r) = {}
  /\ refused' = refused \cup {r}
  /\ UNCHANGED <<owed, log, answered>>

Answer(r) ==
  /\ answered' = answered \cup {r}
  /\ UNCHANGED <<owed, log, refused>>

Next == \E r \in Reqs : Publish(r) \/ Refuse(r) \/ Answer(r)

Spec == Init /\ [][Next]_cvars
=============================================================================
