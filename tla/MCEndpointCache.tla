--------------------------- MODULE MCEndpointCache ---------------------------
(* Instances of EndpointCache for TLC: one host, known under both schemes. *)
EXTENDS EndpointCache

Literal(path) == [alts |-> <<path>>, rooted |-> TRUE]
Row(id, scheme, domain, paths, method, action, metadata, intact) ==
  [id |-> id, scheme |-> scheme, domain |-> domain, host |-> "tool",
   star |-> domain = 0, paths |-> paths, method |-> method, action |-> action,
   metadata |-> metadata, intact |-> intact]

(* Domains: 0 is "*.tool", 1 "Tool" and 2 "tool". *)
Capital == Row(1, "https", 1, {Literal(<<"chat">>)}, "POST", "Record", FALSE, TRUE)
CatchAll == Row(2, "https", 2, {}, "*", "record", TRUE, TRUE)
Broken == Row(3, "https", 2, {}, "POST", "record", FALSE, FALSE)
Star == Row(4, "https", 0, {Literal(<<"chat", "new">>)}, "POST", "record", FALSE, TRUE)
NewerStar == Row(5, "https", 0, {Literal(<<"chat">>)}, "POST", "redact", FALSE, TRUE)
HttpStar == Row(6, "http", 0, {}, "POST", "record", TRUE, TRUE)

Query(scheme, path, method) ==
  [scheme |-> scheme, host |-> "tool", path |-> path, method |-> method]

(* Looked up under the other scheme first, and last under the two keys     *)
(* with "*.", of which one has two rows.                                   *)
SixRows == {Capital, CatchAll, Broken, Star, NewerStar, HttpStar}
HttpQuery == {Query("http", <<"chat", "new">>, "POST")}

AsRegexp == [s \in Segments |-> {<<s>>}]

=============================================================================
