-------------------------- MODULE MCCandidateLogger --------------------------
(* Instances of CandidateLogger for TLC. *)
EXTENDS CandidateLogger

(* One type of the drop list that is dropped, one that is kept first. *)
SomeTypes == {"json", "html"}
=============================================================================
