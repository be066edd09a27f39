--------------------------- MODULE MCPathMatching ---------------------------
(* pathMatches tried on every request path and configured path up to a     *)
(* bound: one behaviour per input, one step that computes the verdict.     *)
EXTENDS PathMatching

CONSTANTS
  MaxSegments,      \* bound on the segments of a path
  MaxAlternatives   \* bound on the alternatives of a configured path

ASSUME BoundsAssumption == MaxSegments \in Nat /\ MaxAlternatives \in Nat

VARIABLES requested, cfg, action, verdict

(* What Go's regexp makes of the segments: a dot is any character, ".*" any *)
(* run of them, and "{id}", no valid repetition, stands for itself.        *)
AsRegexp ==
  [s \in Segments |->
     CASE s = "v1.0" -> {<<"v1.0">>, <<"v1x0">>}
       [] s = ".*" -> PathsUpTo(MaxSegments)
       [] OTHER -> {<<s>>}]

vars == <<requested, cfg, action, verdict>>

Init ==
  /\ requested \in PathsUpTo(MaxSegments)
  /\ cfg \in Configurations(MaxSegments, MaxAlternatives)
  /\ action \in {"record", "redact"}
  /\ verdict = "none"

Decide ==
  /\ verdict = "none"
  /\ verdict' = IF PathMatches(requested, {cfg}, action) THEN "match" ELSE "miss"
  /\ UNCHANGED <<requested, cfg, action>>

Spec == Init /\ [][Decide]_vars

Decided == verdict # "none"

(* A row to record covers a path that is not of a placeholder pattern, if  *)
(* and only if it is the row's path: no prefix, no trailing segment        *)
(* (BUSINESS_LOGIC.md:158, "exact path for record").  A row of another     *)
(* action covers the paths below its own, too, on segment boundaries only: *)
(* /a/b is below /a, /ab is not.  A path with a metacharacter is excepted  *)
(* from both, a recorded "/v1.0" too: it is read as a regular expression,  *)
(* and covers v1x0; but only what an alternative of it, so read, matches   *)
(* from end to end (urlmatcher.go:223, "full-string match").               *)
PathRules ==
  Decided =>
    /\ action = "record" /\ IsPlain(cfg) =>
         (verdict = "match" <=> DocumentedExact(requested, cfg))
    /\ action # "record" /\ IsPlain(cfg) =>
         (verdict = "match" <=> DocumentedPrefix(requested, cfg))
    /\ verdict = "match" /\ IsRegexPattern(cfg) =>
         DocumentedRegex(requested, cfg)
=============================================================================
