------------------------ MODULE MCIdentityResolution -------------------------
(* Instances of IdentityResolution for TLC. *)
EXTENDS IdentityResolution

(* Two spellings of one account. *)
TwoNames == {"bob", "bob@corp"}
OneAccount == [u \in TwoNames |-> "bob"]

Headers(username, auth, sub) ==
  [address |-> "", username |-> username, auth |-> auth, sub |-> sub]
Tunnel(address, username) ==
  [address |-> address, username |-> username, auth |-> "", sub |-> ""]

SomeShapes == {Tunnel("a1", "bob"), Tunnel("a2", ""),
               Headers("bob@corp", "", ""), Headers("", "bob", "bob@corp")}
SomeSetups ==
  [enforced: BOOLEAN, tenant: {TRUE}, whois: {TRUE}, ldap: {TRUE}]
  \cup [enforced: {FALSE}, tenant: {FALSE}, whois: BOOLEAN, ldap: {FALSE}]
=============================================================================
