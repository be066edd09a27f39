----------------------------- MODULE PathMatching -----------------------------
(***************************************************************************)
(* pathMatches and methodMatches of business/urlmatcher.go: does a request *)
(* fall under a row of the endpoint catalogue?                             *)
(*                                                                         *)
(* A path is the sequence of its segments; the slashes at its ends, which  *)
(* pathMatches normalises, are left out, <<>> being "/".  A configured     *)
(* path is a sequence of such paths: one, or several for a regular         *)
(* expression with alternatives.  A segment with a metacharacter is known  *)
(* by what it matches there (Reading): "v1.0" also matches v1x0, and ".*"  *)
(* any run of segments.                                                    *)
(*                                                                         *)
(* A definition commented "Fault:" is a broken variant of the one below    *)
(* it, which a property is there to refute; nothing uses it.               *)
(***************************************************************************)
EXTENDS Naturals, Sequences

CONSTANTS
  Segments,      \* the segments of requested and of configured paths
  Placeholders,  \* those written {name}
  Meta,          \* those with a regular-expression metacharacter
  Reading        \* what a segment of a regular expression matches

Paths == Seq(Segments)

ASSUME SegmentsAssumption ==
  Placeholders \subseteq Meta /\ Meta \subseteq Segments /\ "" \notin Segments
ASSUME ReadingAssumption ==
  /\ Reading \in [Segments -> SUBSET Paths]
  /\ \A s \in Segments \ Meta : Reading[s] = {<<s>>}

(* cfg.alts: one path, or the alternatives of a regular expression.        *)
Configured == [alts: Seq(Paths) \ {<<>>}, rooted: BOOLEAN]

PathsUpTo(n) == UNION {[1..k -> Segments] : k \in 0..n}

(* rooted: the configured text starts with "/", or with what matches it.   *)
Configurations(n, alternatives) ==
  [alts: UNION {[1..k -> PathsUpTo(n)] : k \in 1..alternatives}, rooted: BOOLEAN]

StartsWith(path, prefix) ==
  /\ Len(prefix) <= Len(path)
  /\ SubSeq(path, 1, Len(prefix)) = prefix

(* strings.Split(strings.Trim(path, "/"), "/"): "/" has one, empty segment. *)
Split(path) == IF path = <<>> THEN <<"">> ELSE path

SegmentMatch(requested, configured) ==
  IF configured \in Placeholders THEN requested # ""
  ELSE requested = configured

PathSegmentMatch(requested, configured) ==
  LET req == Split(requested)
      cfg == Split(configured)
  IN /\ Len(req) = Len(cfg)
     /\ \A i \in 1..Len(cfg) : SegmentMatch(req[i], cfg[i])

(* The characters { and } are among those isRegexPattern looks for. *)
IsRegexPattern(cfg) ==
  \/ Len(cfg.alts) > 1
  \/ \E i \in 1..Len(cfg.alts[1]) : cfg.alts[1][i] \in Meta

(* The pattern, read as a regular expression, matches the whole path: the  *)
(* path can be cut into what each of the segments matches.                 *)
Spells(pattern, path) ==
  \E cut \in [0..Len(pattern) -> 0..Len(path)] :
    /\ cut[0] = 0 /\ cut[Len(pattern)] = Len(path)
    /\ \A i \in 1..Len(pattern) :
         /\ cut[i - 1] <= cut[i]
         /\ SubSeq(path, cut[i - 1] + 1, cut[i]) \in Reading[pattern[i]]

MatchesSomePrefix(pattern, path) ==
  \E n \in 0..Len(path) : Spells(pattern, SubSeq(path, 1, n))

(* FindStringIndex prefers the first alternative that matches, not the     *)
(* longest, and within it the longest match; a pattern without its leading *)
(* slash does not match at index 0.                                        *)
RegexMatch(requested, cfg) ==
  LET hits == {i \in 1..Len(cfg.alts) : MatchesSomePrefix(cfg.alts[i], requested)}
  IN /\ cfg.rooted
     /\ \E i \in hits : (\A j \in hits : i <= j) /\ Spells(cfg.alts[i], requested)

(* Fault: prefixes are compared for a recording, too. *)
LiteralMatchAnyPrefix(requested, path, action) ==
  PathSegmentMatch(requested, path) \/ StartsWith(requested, path)

LiteralMatch(requested, path, action) ==
  \/ PathSegmentMatch(requested, path)
  \/ IF action = "record" THEN requested = path ELSE StartsWith(requested, path)

(* One configured path of a row. *)
Covers(requested, cfg, action) ==
  IF IsRegexPattern(cfg) THEN RegexMatch(requested, cfg)
  ELSE LiteralMatch(requested, cfg.alts[1], action)

(* No configured path: every path matches. *)
PathMatches(requested, configured, action) ==
  configured # {} => \E cfg \in configured : Covers(requested, cfg, action)

MethodMatches(configured, requested) == configured \in {"*", ""} \/ configured = requested

-----------------------------------------------------------------------------
(* What the comments of urlmatcher.go promise (195-199, 223-224).          *)

IsPlain(cfg) ==
  Len(cfg.alts) = 1 /\ \A i \in 1..Len(cfg.alts[1]) : cfg.alts[1][i] \notin Meta

(* "placeholder patterns", "literal paths". *)
DocumentedExact(requested, cfg) ==
  \E i \in 1..Len(cfg.alts) :
    /\ Len(cfg.alts[i]) = Len(requested)
    /\ \A j \in 1..Len(requested) :
         cfg.alts[i][j] \in Placeholders \/ cfg.alts[i][j] = requested[j]

(* "full-string match", of a regular expression. *)
DocumentedRegex(requested, cfg) ==
  \E i \in 1..Len(cfg.alts) : Spells(cfg.alts[i], requested)

(* "prefix matching for non-record action". *)
DocumentedPrefix(requested, cfg) ==
  \E n \in 0..Len(requested) : DocumentedExact(SubSeq(requested, 1, n), cfg)

=============================================================================
