--------------------------- MODULE ServiceContract ---------------------------
(***************************************************************************)
(* What the request lifecycle expects of a service: a call of Processing   *)
(* on a whole body returns one outcome or panics, once; only the RESPMOD   *)
(* call may answer for a range; and the request is rewritten by the call   *)
(* that blocks it, if it is a REQMOD one, and by no other.                 *)
(***************************************************************************)
CONSTANT Calls

VARIABLES
  reqmod,     \* the calls for a request (the others are for a response)
  served,     \* served[c]: what became of the call
  rewritten   \* the calls whose request now points to the block page

contractVars == <<reqmod, served, rewritten>>

Outcomes == {"nomod", "range", "modified", "block", "bad", "timeout", "error"}

Possible(c) == IF c \in reqmod THEN Outcomes \ {"range"} ELSE Outcomes

Init ==
  /\ reqmod \subseteq Calls
  /\ served = [c \in Calls |-> "pending"]
  /\ rewritten = {}

Return(c, o) ==
  /\ served[c] = "pending"
  /\ o \in Possible(c)
  /\ served' = [served EXCEPT ![c] = o]
  /\ rewritten' = IF o = "block" /\ c \in reqmod THEN rewritten \cup {c}
                  ELSE rewritten
  /\ UNCHANGED reqmod

Panic(c) ==
  /\ served[c] = "pending"
  /\ served' = [served EXCEPT ![c] = "panicked"]
  /\ UNCHANGED <<reqmod, rewritten>>

Next == \E c \in Calls : Panic(c) \/ \E o \in Outcomes : Return(c, o)

Spec == Init /\ [][Next]_contractVars
=============================================================================
