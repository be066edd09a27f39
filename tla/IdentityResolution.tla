-------------------------- MODULE IdentityResolution --------------------------
(***************************************************************************)
(* Who sent a request: the first half of ProcessRequest, from the headers  *)
(* to the validated tenant and user (business/identity.go,                 *)
(* ldap_enricher.go, tenant.go).                                           *)
(*                                                                         *)
(* Actors: one goroutine per call of ProcessRequest; the whois service,    *)
(* Active Directory and the database, which answer late, wrongly or not;   *)
(* the clock.  The calls share two caches.  Both are checked under a       *)
(* mutex, searched outside it, and written under it again.                 *)
(*                                                                         *)
(* A definition commented "Fault:" is a broken variant of the one below    *)
(* it, which a property is there to refute; no specification uses it.      *)
(***************************************************************************)
EXTENDS Naturals

CONSTANTS
  Calls,      \* the calls of ProcessRequest
  Addresses,  \* the inner addresses of the tunnel
  Users,      \* the names users have
  Account,    \* Account[u]: u without its "@" suffix
  Shapes,     \* what the headers of a request may say
  Setups,     \* how the server may be set up
  Bucket,     \* whois: the span of time that shares one cache key
  Expiry,     \* whois: how long an entry counts
  Patience,   \* whois: the deadline of a request
  TTL,        \* LDAP: how long an entry counts
  MaxTime     \* bound on the clock

NoLease == "no lease"

(* address: X-Client-IP as the proxy sent it; the client's own is deleted. *)
(* username, auth: its two user headers; sub: that of a bearer token.      *)
Shape == [address: Addresses \cup {""}, username: Users \cup {""},
          auth: Users \cup {""}, sub: Users \cup {""}]

(* enforced: URAI_TUNNEL_ENFORCED; tenant: TENANT_ID is set; whois, ldap:  *)
(* these services are configured.                                          *)
Setup == [enforced: BOOLEAN, tenant: BOOLEAN, whois: BOOLEAN, ldap: BOOLEAN]

ASSUME NamesAssumption ==
  /\ "" \notin Users \cup Addresses /\ NoLease \notin Users
  /\ Account \in [Users -> Users]
ASSUME ShapesAssumption == Shapes \subseteq Shape /\ Setups \subseteq Setup
ASSUME TimesAssumption ==
  /\ Bucket \in Nat \ {0} /\ Expiry \in Nat /\ Patience \in Nat
  /\ TTL \in Nat /\ MaxTime \in Nat

Times == 0..MaxTime
Slots == Addresses \X Times

(* about: the moment the question was put about.  A lease may come without *)
(* a user, or a tenant, as nobody checks what was decoded.                 *)
Answers == [address: Addresses \cup {""}, user: Users \cup {NoLease, ""},
            tenant: BOOLEAN, about: Times]
NoAnswer == [address |-> "", user |-> "", tenant |-> FALSE, about |-> 0]

Phases == {"new", "whois", "asking", "enrich", "searching",
           "tenant", "user", "stamp", "done"}
Identities == [user: Users \cup {""}, name: Users \cup {""},
               source: {"", "whois", "headers"}, tenant: {"", "env", "lease"}]
Nobody == [user |-> "", name |-> "", source |-> "", tenant |-> ""]

VARIABLES
  now,       \* the clock
  setup,     \* the server's environment (never changes)
  whois,     \* whoisCache, one slot per key; an expiry in the past: no entry
  ldap,      \* LDAPEnricher.cache: the expiry of an account's attributes
  activity,  \* users whose last_activity_at was set
  call       \* call[c]: where a call is and what it found out.  heard: a
             \* history of the whois answer it went by

vars == <<now, setup, whois, ldap, activity, call>>

Init ==
  /\ now = 0
  /\ setup \in Setups
  /\ whois = [slot \in Slots |-> [answer |-> NoAnswer, expiry |-> 0]]
  /\ ldap = [u \in Users |-> 0]
  /\ activity = {}
  /\ call \in [Calls ->
       {[shape |-> s, phase |-> "new", ts |-> 0,
         heard |-> [address |-> "", age |-> 0], id |-> Nobody,
         outcome |-> "none"] : s \in Shapes}]

-----------------------------------------------------------------------------
(* ExtractIdentity.                                                        *)

Rejected(k) == [k EXCEPT !.phase = "done", !.outcome = "rejected"]

(* Only a user of whois or of X-Client-Username has a name to enrich.      *)
Identified(k, id) ==
  [k EXCEPT !.id = id,
            !.phase = IF id.name # "" /\ setup.ldap THEN "enrich" ELSE "tenant"]

FirstOf(a, b) == IF a # "" THEN a ELSE b

(* Proxy headers come first, the subject of a token last. *)
FromHeaders(k) ==
  IF setup.tenant
  THEN Identified(k, [user |-> FirstOf(k.shape.username,
                                       FirstOf(k.shape.auth, k.shape.sub)),
                      name |-> k.shape.username,
                      source |-> "headers", tenant |-> "env"])
  ELSE Rejected(k)

LeaseTenant(answer) ==
  IF answer.tenant THEN "lease" ELSE IF setup.tenant THEN "env" ELSE ""

Apart(t, u) == IF t < u THEN u - t ELSE t - u

Heard(k, answer) ==
  [k EXCEPT !.heard = [address |-> answer.address, age |-> Apart(k.ts, answer.about)]]

(* Fault: a lease that is over is not looked at. *)
FromWhoisAny(k, answer) ==
  Identified(Heard(k, answer), [user |-> answer.user, name |-> answer.user,
                                source |-> "whois", tenant |-> LeaseTenant(answer)])

(* An address without a lease is blocked. *)
FromWhois(k, answer) ==
  IF answer.user = NoLease THEN Rejected(Heard(k, answer))
  ELSE Identified(Heard(k, answer), [user |-> answer.user, name |-> answer.user,
                                     source |-> "whois", tenant |-> LeaseTenant(answer)])

(* Fault: the header identity stands in for whois on an enforced tunnel.   *)
WithoutWhoisLenient(k) == FromHeaders(k)

(* A whois error: no identity on an enforced tunnel, else that of headers. *)
WithoutWhois(k) == IF setup.enforced THEN Rejected(k) ELSE FromHeaders(k)

Becomes(c, k) == call' = [call EXCEPT ![c] = k]

Begin(c) ==
  /\ call[c].phase = "new"
  /\ IF call[c].shape.address = ""
     THEN Becomes(c, FromHeaders(call[c]))
     ELSE Becomes(c, [call[c] EXCEPT !.phase = "whois", !.ts = now])
  /\ UNCHANGED <<now, setup, whois, ldap, activity>>

-----------------------------------------------------------------------------
(* lookupWhois.                                                            *)

(* Fault: the time is left out of the key. *)
SlotOfAddress(k) == <<k.shape.address, 0>>

Slot(k) == <<k.shape.address, k.ts \div Bucket>>

WhoisLookup(c) ==
  LET k == call[c]
      entry == whois[Slot(k)]
  IN /\ k.phase = "whois"
     /\ Becomes(c, IF ~setup.whois THEN WithoutWhois(k)
                   ELSE IF now < entry.expiry THEN FromWhois(k, entry.answer)
                   ELSE [k EXCEPT !.phase = "asking"])
     /\ UNCHANGED <<now, setup, whois, ldap, activity>>

(* 200 or 404: the lease the address had when the request came, or none. *)
WhoisAnswers(c) ==
  LET k == call[c]
  IN /\ k.phase = "asking"
     /\ \E user \in Users \cup {NoLease, ""}, tenant \in BOOLEAN :
          LET answer == [address |-> k.shape.address, user |-> user,
                         tenant |-> tenant, about |-> k.ts]
          IN /\ user = NoLease => ~tenant
             /\ whois' = [whois EXCEPT ![Slot(k)] = [answer |-> answer,
                                                     expiry |-> now + Expiry]]
             /\ Becomes(c, FromWhois(k, answer))
     /\ UNCHANGED <<now, setup, ldap, activity>>

(* Fault: a failed request is made again, without end. *)
WhoisFailsRetries(c) ==
  /\ call[c].phase = "asking"
  /\ Becomes(c, [call[c] EXCEPT !.phase = "whois"])
  /\ UNCHANGED <<now, setup, whois, ldap, activity>>

(* The deadline, any other status, or an answer that does not parse. *)
WhoisFails(c) ==
  /\ call[c].phase = "asking"
  /\ Becomes(c, WithoutWhois(call[c]))
  /\ UNCHANGED <<now, setup, whois, ldap, activity>>

-----------------------------------------------------------------------------
(* LDAPEnricher.Enrich.                                                    *)

Enriched(k) == [k EXCEPT !.phase = "tenant"]

LdapLookup(c) ==
  LET k == call[c]
  IN /\ k.phase = "enrich"
     /\ Becomes(c, IF now < ldap[Account[k.id.name]] THEN Enriched(k)
                   ELSE [k EXCEPT !.phase = "searching"])
     /\ UNCHANGED <<now, setup, whois, ldap, activity>>

(* The search, found or not, is stored over whatever was stored meanwhile, *)
(* by a search that began later also.                                      *)
LdapAnswers(c) ==
  LET k == call[c]
  IN /\ k.phase = "searching"
     /\ ldap' = [ldap EXCEPT ![Account[k.id.name]] = now + TTL]
     /\ Becomes(c, Enriched(k))
     /\ UNCHANGED <<now, setup, whois, activity>>

(* Enrichment is optional: the call goes on without attributes. *)
LdapFails(c) ==
  /\ call[c].phase = "searching"
  /\ Becomes(c, Enriched(call[c]))
  /\ UNCHANGED <<now, setup, whois, ldap, activity>>

-----------------------------------------------------------------------------
(* ValidateTenantAndUser.                                                  *)

Accepted(k) == [k EXCEPT !.phase = "done", !.outcome = "accepted"]

TenantFound(c) ==
  /\ call[c].phase = "tenant"
  /\ call[c].id.tenant # ""
  /\ Becomes(c, IF call[c].id.user = "" THEN Accepted(call[c])
                ELSE [call[c] EXCEPT !.phase = "user"])
  /\ UNCHANGED <<now, setup, whois, ldap, activity>>

(* No tenant id, no such tenant, or a database error. *)
TenantRejects(c) ==
  /\ call[c].phase = "tenant"
  /\ Becomes(c, Rejected(call[c]))
  /\ UNCHANGED <<now, setup, whois, ldap, activity>>

(* Whatever the lookup of the user comes to, the call is accepted. *)
UserLookedUp(c) ==
  /\ call[c].phase = "user"
  /\ \/ Becomes(c, Accepted(call[c]))
     \/ Becomes(c, [call[c] EXCEPT !.phase = "stamp"])
  /\ UNCHANGED <<now, setup, whois, ldap, activity>>

(* A user that was found; a failed statement may have been carried out.    *)
ActivityStamped(c) ==
  /\ call[c].phase = "stamp"
  /\ activity' \in {activity, activity \cup {call[c].id.user}}
  /\ Becomes(c, Accepted(call[c]))
  /\ UNCHANGED <<now, setup, whois, ldap>>

-----------------------------------------------------------------------------
(* Looking into a cache takes no time, and a whois request not more than   *)
(* Patience.  A search in the directory has no deadline of its own.        *)
Tick ==
  /\ now < MaxTime
  /\ \A c \in Calls :
       /\ call[c].phase \notin {"whois", "enrich"}
       /\ call[c].phase = "asking" => now < call[c].ts + Patience
  /\ now' = now + 1
  /\ UNCHANGED <<setup, whois, ldap, activity, call>>

LdapEnds(c) == LdapAnswers(c) \/ LdapFails(c)
Goes(c) ==
  \/ WhoisLookup(c) \/ WhoisAnswers(c) \/ WhoisFails(c)
  \/ LdapLookup(c)
  \/ TenantFound(c) \/ TenantRejects(c) \/ UserLookedUp(c) \/ ActivityStamped(c)

Next ==
  \/ Tick
  \/ \E c \in Calls : Begin(c) \/ Goes(c) \/ LdapEnds(c)

Spec == Init /\ [][Next]_vars

(* Goroutines are scheduled; whois and database requests have deadlines.   *)
FairSpec == Spec /\ \A c \in Calls : WF_vars(Goes(c))

-----------------------------------------------------------------------------
(* Properties.                                                             *)

CallStates ==
  [shape: Shapes, phase: Phases, ts: Times,
   heard: [address: Addresses \cup {""}, age: Times], id: Identities,
   outcome: {"none", "accepted", "rejected"}]

(* Every variable has its type. *)
TypeOK ==
  /\ now \in Times /\ setup \in Setups
  /\ whois \in [Slots -> [answer: Answers, expiry: Nat]]
  /\ ldap \in [Users -> Nat]
  /\ activity \subseteq Users
  /\ call \in [Calls -> CallStates]

(* A request is attributed, or blocked for want of a lease, by an answer   *)
(* about its own address and about its own bucket of time.  (A cached      *)
(* answer counts until Expiry after it came, which may be longer; it is    *)
(* the bucket in the key that forgets it.)                                 *)
AttributionFresh ==
  \A c \in Calls : call[c].heard.address # "" =>
    /\ call[c].heard.address = call[c].shape.address
    /\ call[c].heard.age < Bucket

(* On an enforced tunnel no request is accepted without the lease of its   *)
(* address, whatever fails (identity.go:138, "no identity = no             *)
(* attribution").  That the lease names a user is another matter.          *)
EnforcedAttribution ==
  \A c \in Calls :
    (setup.enforced /\ call[c].shape.address # "" /\ call[c].outcome = "accepted")
      => call[c].id.source = "whois" /\ call[c].heard.address # ""

(* Every call that has begun is decided, unless Active Directory never     *)
(* answers it.                                                             *)
Resolves ==
  \A c \in Calls :
    \/ []<>(call[c].phase = "new")
    \/ <>(call[c].phase = "done")
    \/ <>[](call[c].phase = "searching")
=============================================================================
