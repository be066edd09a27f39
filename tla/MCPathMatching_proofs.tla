----------------------- MODULE MCPathMatching_proofs -------------------------
(* pathMatches keeps what its comments and BUSINESS_LOGIC.md promise, for  *)
(* paths of any length and regular expressions of any number of            *)
(* alternatives.                                                           *)
EXTENDS MCPathMatching, PathMatching_proofs

Inputs ==
  requested \in Paths /\ cfg \in Configured /\ action \in {"record", "redact"}

Verdicts ==
  /\ verdict \in {"none", "match", "miss"}
  /\ Decided => (verdict = "match" <=> Covers(requested, cfg, action))

IInv == Inputs /\ Verdicts

LEMMA BoundedPaths == ASSUME NEW n \in Nat PROVE PathsUpTo(n) \subseteq Paths
<1> SUFFICES ASSUME NEW k \in 0..n, NEW p \in [1..k -> Segments]
             PROVE  p \in Seq(Segments)
  BY DEF PathsUpTo, Paths
<1> QED OBVIOUS

LEMMA BoundedConfigurations ==
  ASSUME NEW n \in Nat, NEW m \in Nat
  PROVE  Configurations(n, m) \subseteq Configured
<1>1. SUFFICES ASSUME NEW k \in 1..m, NEW alts \in [1..k -> PathsUpTo(n)]
               PROVE  alts \in Seq(Paths) \ {<<>>}
  BY DEF Configurations, Configured
<1>2. alts \in [1..k -> Paths]
  <2>1. \A i \in 1..k : alts[i] \in Paths BY BoundedPaths
  <2> QED BY <2>1
<1>3. alts \in Seq(Paths) /\ Len(alts) = k BY <1>2
<1>4. Len(<<>>) = 0 OBVIOUS
<1> QED BY <1>3, <1>4

LEMMA OneConfigured ==
  PathMatches(requested, {cfg}, action) <=> Covers(requested, cfg, action)
BY DEF PathMatches

LEMMA InitEstablishes == Init => IInv
<1> SUFFICES ASSUME Init PROVE IInv OBVIOUS
<1>1. Inputs
  BY BoundsAssumption, BoundedPaths, BoundedConfigurations DEF Init, Inputs
<1>2. Verdicts BY DEF Init, Verdicts, Decided
<1> QED BY <1>1, <1>2 DEF IInv

LEMMA NextPreserves == IInv /\ [Decide]_vars => IInv'
<1> SUFFICES ASSUME IInv, [Decide]_vars PROVE IInv' OBVIOUS
<1>1. CASE Decide
  <2>1. /\ UNCHANGED <<requested, cfg, action>>
        /\ verdict' = IF Covers(requested, cfg, action) THEN "match" ELSE "miss"
    BY <1>1, OneConfigured DEF Decide
  <2>2. Inputs' BY <2>1 DEF IInv, Inputs
  <2>3. Covers(requested, cfg, action)' <=> Covers(requested, cfg, action)
    BY <2>1
  <2>4. Verdicts' BY <2>1, <2>3 DEF Verdicts, Decided
  <2> QED BY <2>2, <2>4 DEF IInv
<1>2. CASE UNCHANGED vars BY <1>2 DEF vars, IInv, Inputs, Verdicts, Decided
<1> QED BY <1>1, <1>2

(* The inputs stay as they were, and the verdict is that of pathMatches.   *)
LEMMA Invariant == Spec => []IInv
<1> QED BY InitEstablishes, NextPreserves, PTL DEF Spec

LEMMA Rules == IInv => PathRules
<1> SUFFICES ASSUME IInv, Decided PROVE PathRules BY DEF PathRules
<1>1. /\ requested \in Paths /\ cfg \in Configured
      /\ verdict = "match" <=> Covers(requested, cfg, action)
  BY DEF IInv, Inputs, Verdicts
<1>2. ASSUME action = "record", IsPlain(cfg)
      PROVE  verdict = "match" <=> DocumentedExact(requested, cfg)
  BY <1>1, <1>2, RecordCovers
<1>3. ASSUME action # "record", IsPlain(cfg)
      PROVE  verdict = "match" <=> DocumentedPrefix(requested, cfg)
  BY <1>1, <1>3, OthersCover
<1>4. ASSUME verdict = "match", IsRegexPattern(cfg)
      PROVE  DocumentedRegex(requested, cfg)
  BY <1>1, <1>4, RegexInFull DEF Covers
<1> QED BY <1>2, <1>3, <1>4 DEF PathRules

(* A plain row to record covers its own path only, a plain row of another  *)
(* action the paths below it on segment boundaries, and a path with a      *)
(* metacharacter only what one of its alternatives, read as a regular      *)
(* expression, matches from end to end.                                    *)
THEOREM KeepsPathRules == Spec => []PathRules
<1> QED BY Invariant, Rules, PTL
=============================================================================
