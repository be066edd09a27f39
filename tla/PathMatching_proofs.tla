------------------------- MODULE PathMatching_proofs -------------------------
(* What pathMatches does with one configured path, for paths of any length *)
(* and regular expressions with any number of alternatives.                *)
EXTENDS PathMatching, SequenceTheorems, TLAPS

LEMMA PlainPath ==
  ASSUME NEW cfg \in Configured
  PROVE  /\ cfg.alts[1] \in Paths /\ Len(cfg.alts) >= 1 /\ Len(cfg.alts) \in Nat
         /\ IsPlain(cfg) <=> ~IsRegexPattern(cfg)
         /\ IsPlain(cfg) => \A i \in 1..Len(cfg.alts[1]) :
                              cfg.alts[1][i] \notin Placeholders
<1>1. cfg.alts \in Seq(Paths) /\ cfg.alts # <<>> BY DEF Configured
<1>2. Len(cfg.alts) \in Nat /\ Len(cfg.alts) # 0 BY <1>1, EmptySeq
<1>3. cfg.alts[1] \in Paths
  <2>1. 1 \in 1..Len(cfg.alts) BY <1>2
  <2> QED BY <1>1, <2>1
<1>4. IsPlain(cfg) <=> ~IsRegexPattern(cfg)
  <2>1. \A n \in Nat : n # 0 => (n = 1 <=> ~(n > 1)) OBVIOUS
  <2>2. Len(cfg.alts) = 1 <=> ~(Len(cfg.alts) > 1) BY <1>2, <2>1, Zenon
  <2> QED BY <2>2, Zenon DEF IsPlain, IsRegexPattern
<1>5. IsPlain(cfg) =>
        \A i \in 1..Len(cfg.alts[1]) : cfg.alts[1][i] \notin Placeholders
  BY SegmentsAssumption DEF IsPlain
<1> QED BY <1>2, <1>3, <1>4, <1>5

LEMMA SamePath ==
  ASSUME NEW p \in Paths, NEW q \in Paths
  PROVE  p = q <=> Len(p) = Len(q) /\ \A i \in 1..Len(q) : q[i] = p[i]
BY SeqEqual DEF Paths

(* Compared segment by segment, paths without placeholders are equal; "/"  *)
(* splits into an empty segment, which no path has.                        *)
LEMMA SegmentsEqual ==
  ASSUME NEW p \in Paths, NEW q \in Paths,
         \A i \in 1..Len(q) : q[i] \notin Placeholders
  PROVE  PathSegmentMatch(p, q) <=> p = q
<1> DEFINE ps == Split(p)
           qs == Split(q)
<1>1. /\ Len(p) \in Nat /\ Len(q) \in Nat
      /\ \A i \in 1..Len(p) : p[i] \in Segments /\ p[i] # ""
      /\ \A i \in 1..Len(q) : q[i] \in Segments /\ q[i] # ""
  <2>1. p \in Seq(Segments) /\ q \in Seq(Segments) BY DEF Paths
  <2>2. Len(p) \in Nat /\ Len(q) \in Nat BY <2>1
  <2>3. (\A i \in 1..Len(p) : p[i] \in Segments) /\ \A i \in 1..Len(q) : q[i] \in Segments
    BY <2>1
  <2>4. \A s \in Segments : s # "" BY SegmentsAssumption, Zenon
  <2> QED BY <2>2, <2>3, <2>4
<1>2. "" \notin Placeholders BY SegmentsAssumption
<1>3. CASE p = <<>> /\ q = <<>>
  <2>1. ps = <<"">> /\ qs = <<"">> BY <1>3 DEF Split
  <2>2. Len(qs) = 1 /\ Len(ps) = 1 /\ \A i \in 1..1 : i = 1
    <3>1. Len(<<"">>) = 1 OBVIOUS
    <3>2. \A i \in 1..1 : i = 1 OBVIOUS
    <3> QED BY <2>1, <3>1, <3>2, Zenon
  <2>3. \A i \in 1..Len(qs) : SegmentMatch(ps[i], qs[i])
    BY <1>2, <2>1, <2>2 DEF SegmentMatch
  <2> QED BY <1>3, <2>2, <2>3 DEF PathSegmentMatch
<1>4. CASE p # <<>> /\ q # <<>>
  <2>1. ps = p /\ qs = q BY <1>4 DEF Split
  <2>2. PathSegmentMatch(p, q) <=>
          Len(p) = Len(q) /\ \A i \in 1..Len(q) : q[i] = p[i]
    BY <2>1 DEF PathSegmentMatch, SegmentMatch
  <2> QED BY <2>2, SamePath
<1>5. CASE p = <<>> /\ q # <<>>
  <2>1. ps = <<"">> /\ qs = q BY <1>5 DEF Split
  <2>2. 1 \in 1..Len(q)
    <3>1. Len(q) \in Nat \ {0} BY <1>5, EmptySeq, Zenon DEF Paths
    <3>2. \A n \in Nat \ {0} : 1 \in 1..n OBVIOUS
    <3> QED BY <3>1, <3>2, Zenon
  <2>3. ps[1] = "" /\ qs[1] # ""
    <3>1. <<"">>[1] = "" OBVIOUS
    <3>2. q[1] # "" BY <1>1, <2>2
    <3> QED BY <2>1, <3>1, <3>2, Zenon
  <2>4. ~SegmentMatch(ps[1], qs[1]) BY <2>3, Zenon DEF SegmentMatch
  <2>5. ~PathSegmentMatch(p, q) BY <2>1, <2>2, <2>4 DEF PathSegmentMatch
  <2> QED BY <1>5, <2>5
<1>6. CASE p # <<>> /\ q = <<>>
  <2>1. ps = p /\ qs = <<"">> BY <1>6 DEF Split
  <2>2. PathSegmentMatch(p, q) => Len(p) = 1 /\ p[1] = ""
    <3>1. Len(<<"">>) = 1 /\ <<"">>[1] = "" /\ 1 \in 1..1 OBVIOUS
    <3>2. Len(qs) = 1 /\ qs[1] = "" BY <2>1, <3>1, Zenon
    <3>3. PathSegmentMatch(p, q) => Len(ps) = 1 /\ SegmentMatch(ps[1], qs[1])
      BY <3>1, <3>2 DEF PathSegmentMatch
    <3>4. SegmentMatch(ps[1], qs[1]) => ps[1] = ""
      BY <1>2, <3>2, Zenon DEF SegmentMatch
    <3> QED BY <2>1, <3>3, <3>4, Zenon
  <2>3. ~(Len(p) = 1 /\ p[1] = "")
    <3>1. Len(p) = 1 => 1 \in 1..Len(p) OBVIOUS
    <3>2. Len(p) = 1 => p[1] # "" BY <1>1, <3>1, Zenon
    <3> QED BY <3>2, Zenon
  <2> QED BY <1>6, <2>2, <2>3
<1> QED BY <1>3, <1>4, <1>5, <1>6

(* The documentation's match, for a path that is neither a placeholder     *)
(* pattern nor a regular expression.                                       *)
LEMMA ExactIsEqual ==
  ASSUME NEW cfg \in Configured, IsPlain(cfg), NEW p \in Paths
  PROVE  DocumentedExact(p, cfg) <=> p = cfg.alts[1]
<1>1. /\ cfg.alts[1] \in Paths
      /\ \A i \in 1..Len(cfg.alts[1]) : cfg.alts[1][i] \notin Placeholders
  BY PlainPath
<1>2. \A i \in 1..Len(cfg.alts) : i = 1
  <2>1. Len(cfg.alts) = 1 BY DEF IsPlain
  <2> QED BY <2>1
<1>3. 1 \in 1..Len(cfg.alts)
  <2>1. Len(cfg.alts) = 1 BY DEF IsPlain
  <2> QED BY <2>1
<1>4. DocumentedExact(p, cfg) <=>
        /\ Len(cfg.alts[1]) = Len(p)
        /\ \A j \in 1..Len(p) :
             cfg.alts[1][j] \in Placeholders \/ cfg.alts[1][j] = p[j]
  BY <1>2, <1>3 DEF DocumentedExact
<1>5. DocumentedExact(p, cfg) <=>
        /\ Len(cfg.alts[1]) = Len(p)
        /\ \A j \in 1..Len(p) : cfg.alts[1][j] = p[j]
  BY <1>1, <1>4
<1>6. p = cfg.alts[1] <=>
        Len(p) = Len(cfg.alts[1])
          /\ \A i \in 1..Len(cfg.alts[1]) : cfg.alts[1][i] = p[i]
  BY <1>1, SamePath
<1> QED BY <1>5, <1>6

(* A regular expression matches in full or not at all. *)
LEMMA RegexInFull ==
  ASSUME NEW cfg \in Configured, NEW p \in Paths, RegexMatch(p, cfg)
  PROVE  DocumentedRegex(p, cfg)
BY DEF RegexMatch, DocumentedRegex

(* A plain row to record covers the path it configures, and no other.      *)
LEMMA RecordCovers ==
  ASSUME NEW cfg \in Configured, NEW p \in Paths, IsPlain(cfg)
  PROVE  Covers(p, cfg, "record") <=> DocumentedExact(p, cfg)
<1>1. cfg.alts[1] \in Paths /\ ~IsRegexPattern(cfg) BY PlainPath
<1>2. PathSegmentMatch(p, cfg.alts[1]) <=> p = cfg.alts[1]
  BY <1>1, PlainPath, SegmentsEqual
<1>3. Covers(p, cfg, "record") <=> p = cfg.alts[1]
  BY <1>1, <1>2 DEF Covers, LiteralMatch
<1> QED BY <1>3, ExactIsEqual

(* What a row of another action covers lies below its path. *)
LEMMA OthersCover ==
  ASSUME NEW cfg \in Configured, NEW p \in Paths, NEW action, action # "record",
         IsPlain(cfg)
  PROVE  Covers(p, cfg, action) <=> DocumentedPrefix(p, cfg)
<1> DEFINE q == cfg.alts[1]
<1>1. /\ q \in Paths /\ ~IsRegexPattern(cfg)
      /\ \A i \in 1..Len(q) : q[i] \notin Placeholders
      /\ Len(p) \in Nat /\ Len(q) \in Nat
  BY PlainPath DEF Paths
<1>2. \A n \in 0..Len(p) : SubSeq(p, 1, n) \in Paths /\ Len(SubSeq(p, 1, n)) = n
  <2> SUFFICES ASSUME NEW n \in 0..Len(p)
               PROVE  SubSeq(p, 1, n) \in Paths /\ Len(SubSeq(p, 1, n)) = n
    OBVIOUS
  <2>1. \A i \in 1..n : p[i] \in Segments BY DEF Paths
  <2>2. /\ SubSeq(p, 1, n) \in Seq(Segments)
        /\ Len(SubSeq(p, 1, n)) = IF 1 <= n THEN n - 1 + 1 ELSE 0
    BY <2>1, SubSeqProperties DEF Paths
  <2> QED BY <2>2 DEF Paths
<1>3. SubSeq(p, 1, Len(p)) = p
  <2>1. /\ Len(SubSeq(p, 1, Len(p))) = Len(p) /\ SubSeq(p, 1, Len(p)) \in Paths
    BY <1>1, <1>2
  <2>2. \A i \in 1..Len(p) : p[i] = SubSeq(p, 1, Len(p))[i] BY <1>1 DEF Paths
  <2> QED BY <2>1, <2>2, SamePath
<1>4. Covers(p, cfg, action) <=> p = q \/ StartsWith(p, q)
  <2>1. PathSegmentMatch(p, q) <=> p = q BY <1>1, SegmentsEqual
  <2> QED BY <1>1, <2>1 DEF Covers, LiteralMatch
<1>5. DocumentedPrefix(p, cfg) <=> \E n \in 0..Len(p) : SubSeq(p, 1, n) = q
  BY <1>2, ExactIsEqual DEF DocumentedPrefix
<1> HIDE DEF q
<1>6. (p = q \/ StartsWith(p, q)) <=> \E n \in 0..Len(p) : SubSeq(p, 1, n) = q
  <2>1. ASSUME p = q PROVE \E n \in 0..Len(p) : SubSeq(p, 1, n) = q
    <3>1. Len(p) \in 0..Len(p) BY <1>1
    <3> QED BY <1>3, <2>1, <3>1, Zenon
  <2>2. ASSUME StartsWith(p, q) PROVE \E n \in 0..Len(p) : SubSeq(p, 1, n) = q
    <3>1. Len(q) <= Len(p) /\ SubSeq(p, 1, Len(q)) = q
      BY <2>2, Zenon DEF StartsWith
    <3>2. Len(q) \in 0..Len(p) BY <1>1, <3>1
    <3> QED BY <3>1, <3>2, Zenon
  <2>3. ASSUME NEW n \in 0..Len(p), SubSeq(p, 1, n) = q PROVE StartsWith(p, q)
    <3>1. Len(q) = n BY <1>2, <2>3, Zenon
    <3>2. n <= Len(p) BY <1>1
    <3> QED BY <2>3, <3>1, <3>2, Zenon DEF StartsWith
  <2> QED BY <2>1, <2>2, <2>3
<1> QED BY <1>4, <1>5, <1>6
=============================================================================
