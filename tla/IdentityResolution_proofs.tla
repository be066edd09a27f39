----------------------- MODULE IdentityResolution_proofs -----------------------
(* Type correctness and the safety properties of IdentityResolution, for   *)
(* every number of calls and every choice of the times.                    *)
EXTENDS IdentityResolution, TLAPS

(* What a call went by, and where it can be when. *)
Lately(k) == /\ k.heard.address = k.shape.address
             /\ k.heard.age < Bucket

(* What a call has found out agrees with how far it is. *)
Ordered(k) ==
  /\ k.phase \in {"new", "whois", "asking"} => k.heard.address = ""
  /\ k.phase \in {"whois", "asking"} => k.shape.address # ""
  /\ k.phase \in {"enrich", "searching"} => k.id.name # ""
  /\ k.phase \in {"user", "stamp"} => k.id.user # ""
  /\ k.phase # "done" <=> k.outcome = "none"

(* Past whois on an enforced tunnel, only the answer of whois counts. *)
Attributed(k) ==
  (setup.enforced /\ k.shape.address # "" /\ k.outcome # "rejected"
     /\ k.phase \notin {"new", "whois", "asking"})
    => k.id.source = "whois" /\ k.heard.address # ""

CallOK(k) ==
  /\ Ordered(k)
  /\ k.heard.address # "" => Lately(k)
  /\ Attributed(k)

(* An entry of the whois cache is about the address and the bucket of its  *)
(* key.                                                                    *)
WhoisOK ==
  \A a \in Addresses, t \in Times : whois[<<a, t>>].expiry > 0 =>
    /\ whois[<<a, t>>].answer.address = a
    /\ whois[<<a, t>>].answer.about \div Bucket = t

IInv ==
  /\ TypeOK
  /\ WhoisOK
  /\ \A c \in Calls : CallOK(call[c])

-----------------------------------------------------------------------------
(* Buckets of time.                                                        *)

LEMMA BucketIsTime ==
  ASSUME NEW t \in Times
  PROVE  t \div Bucket \in Times
<1>1. t \in Nat /\ t <= MaxTime /\ MaxTime \in Nat /\ Bucket \in Nat /\ Bucket > 0
  BY TimesAssumption DEF Times
<1>2. t \div Bucket \in Nat /\ t \div Bucket <= t BY <1>1
<1> QED BY <1>1, <1>2 DEF Times

LEMMA BucketBounds ==
  ASSUME NEW B \in Nat, B > 0, NEW t \in Nat
  PROVE  B * (t \div B) <= t /\ t < B * (t \div B) + B
OBVIOUS

(* Two moments of one bucket are less than a bucket apart. *)
LEMMA OneBucket ==
  ASSUME NEW t \in Times, NEW u \in Times, t \div Bucket = u \div Bucket
  PROVE  Apart(t, u) \in Times /\ Apart(t, u) < Bucket
<1>1. t \in Nat /\ u \in Nat /\ Bucket \in Nat /\ Bucket > 0
  BY TimesAssumption DEF Times
<1>2. u - t < Bucket /\ t - u < Bucket BY <1>1, BucketBounds
<1> QED BY <1>1, <1>2, TimesAssumption DEF Apart, Times

-----------------------------------------------------------------------------
(* The ways a call goes on, one by one.                                    *)

LEMMA RejectedOK ==
  ASSUME TypeOK, NEW k \in CallStates, CallOK(k)
  PROVE  Rejected(k) \in CallStates /\ CallOK(Rejected(k))
<1>1. Rejected(k) \in CallStates BY DEF Rejected, CallStates, Phases
<1>2. /\ Rejected(k).phase = "done" /\ Rejected(k).outcome = "rejected"
      /\ Rejected(k).heard = k.heard
      /\ Rejected(k).shape = k.shape /\ Rejected(k).id = k.id
  BY DEF Rejected, CallStates
<1> QED BY <1>1, <1>2 DEF CallOK, Ordered, Attributed, Lately

LEMMA IdentifiedOK ==
  ASSUME TypeOK, NEW k \in CallStates, NEW id \in Identities,
         k.outcome = "none",
         k.heard.address # "" => Lately(k),
         setup.enforced /\ k.shape.address # "" =>
           id.source = "whois" /\ k.heard.address # ""
  PROVE  Identified(k, id) \in CallStates /\ CallOK(Identified(k, id))
<1> DEFINE n == Identified(k, id)
<1>1. n \in CallStates
  <2>1. CASE id.name # "" /\ setup.ldap
    BY <2>1 DEF Identified, CallStates, Phases
  <2>2. CASE ~(id.name # "" /\ setup.ldap)
    BY <2>2 DEF Identified, CallStates, Phases
  <2> QED BY <2>1, <2>2
<1>2. /\ n.id = id /\ n.heard = k.heard
      /\ n.shape = k.shape /\ n.outcome = k.outcome
      /\ n.phase \in {"enrich", "tenant"}
      /\ n.phase = "enrich" => id.name # ""
  BY DEF Identified, CallStates
<1> HIDE DEF n
<1>3. CallOK(n) BY <1>1, <1>2 DEF CallOK, Ordered, Attributed, Lately
<1> QED BY <1>1, <1>3 DEF n

LEMMA FromHeadersOK ==
  ASSUME TypeOK, NEW k \in CallStates, CallOK(k),
         k.phase \in {"new", "whois", "asking"},
         k.shape.address = "" \/ ~setup.enforced
  PROVE  FromHeaders(k) \in CallStates /\ CallOK(FromHeaders(k))
<1> DEFINE user == FirstOf(k.shape.username, FirstOf(k.shape.auth, k.shape.sub))
           id == [user |-> user, name |-> k.shape.username,
                  source |-> "headers", tenant |-> "env"]
<1>1. k.shape \in Shape BY ShapesAssumption DEF CallStates
<1>2. user \in Users \cup {""} /\ k.shape.username \in Users \cup {""}
  BY <1>1 DEF Shape, FirstOf
<1>3. id \in Identities BY <1>2 DEF Identities
<1>4. CASE setup.tenant
  <2>1. FromHeaders(k) = Identified(k, id) BY <1>4 DEF FromHeaders
  <2> HIDE DEF id
  <2>2. k.outcome = "none" /\ k.heard.address = ""
    BY DEF CallOK, Ordered, Attributed
  <2> QED BY <2>1, <2>2, <1>3, IdentifiedOK
<1>5. CASE ~setup.tenant BY <1>5, RejectedOK DEF FromHeaders
<1> QED BY <1>4, <1>5

LEMMA WithoutWhoisOK ==
  ASSUME TypeOK, NEW k \in CallStates, CallOK(k), k.phase \in {"whois", "asking"}
  PROVE  WithoutWhois(k) \in CallStates /\ CallOK(WithoutWhois(k))
BY RejectedOK, FromHeadersOK DEF WithoutWhois

LEMMA FromWhoisOK ==
  ASSUME TypeOK, NEW k \in CallStates, CallOK(k), k.phase \in {"whois", "asking"},
         NEW answer \in Answers, answer.address = k.shape.address,
         answer.about \div Bucket = k.ts \div Bucket
  PROVE  FromWhois(k, answer) \in CallStates /\ CallOK(FromWhois(k, answer))
<1> DEFINE h == Heard(k, answer)
           id == [user |-> answer.user, name |-> answer.user,
                  source |-> "whois", tenant |-> LeaseTenant(answer)]
<1>1. k.ts \in Times /\ answer.about \in Times BY DEF CallStates, Answers
<1>2. /\ Apart(k.ts, answer.about) \in Times
      /\ Apart(k.ts, answer.about) < Bucket
  BY <1>1, OneBucket
<1>3. h \in CallStates BY <1>2 DEF Heard, CallStates, Answers
<1>4. /\ h.heard.address = k.shape.address
      /\ h.heard.age = Apart(k.ts, answer.about)
      /\ h.shape = k.shape /\ h.phase = k.phase /\ h.outcome = k.outcome
  BY DEF Heard, CallStates
<1> HIDE DEF h
<1>5. /\ k.shape.address # "" /\ k.outcome = "none"
  BY DEF CallOK, Ordered, Attributed
<1>6. Lately(h) BY <1>2, <1>4 DEF Lately
<1>7. CASE answer.user = NoLease
  <2>1. Rejected(h) \in CallStates BY <1>3 DEF Rejected, CallStates, Phases
  <2>2. /\ Rejected(h).phase = "done" /\ Rejected(h).outcome = "rejected"
        /\ Rejected(h).heard = h.heard
        /\ Rejected(h).shape = h.shape
    BY <1>3 DEF Rejected, CallStates
  <2>3. CallOK(Rejected(h)) BY <2>2, <1>4, <1>5, <1>6 DEF CallOK, Ordered, Attributed, Lately
  <2> QED BY <2>1, <2>3, <1>7 DEF FromWhois, h
<1>8. CASE answer.user # NoLease
  <2>1. id \in Identities BY <1>8 DEF Identities, Answers, LeaseTenant
  <2>2. id.source = "whois" OBVIOUS
  <2>3. FromWhois(k, answer) = Identified(h, id) BY <1>8 DEF FromWhois, h
  <2> HIDE DEF id
  <2> QED BY <2>1, <2>2, <2>3, <1>3, <1>4, <1>5, <1>6, IdentifiedOK
<1> QED BY <1>7, <1>8

(* A call only changes its phase. *)
LEMMA MovedOK ==
  ASSUME TypeOK, NEW k \in CallStates, CallOK(k), NEW p \in Phases,
         \/ k.phase = "whois" /\ p = "asking"
         \/ k.phase = "enrich" /\ p = "searching"
         \/ k.phase \in {"enrich", "searching"} /\ p = "tenant"
         \/ k.phase = "tenant" /\ p = "user" /\ k.id.user # ""
         \/ k.phase = "user" /\ p = "stamp"
  PROVE  [k EXCEPT !.phase = p] \in CallStates /\ CallOK([k EXCEPT !.phase = p])
<1> DEFINE n == [k EXCEPT !.phase = p]
<1>1. n \in CallStates BY DEF CallStates
<1>2. /\ n.phase = p /\ n.id = k.id /\ n.heard = k.heard
      /\ n.shape = k.shape /\ n.outcome = k.outcome
  BY DEF CallStates
<1> HIDE DEF n
<1>3. Ordered(k) /\ Attributed(k) BY DEF CallOK
<1>4. Ordered(n) BY <1>2, <1>3 DEF Ordered
<1>5. Lately(n) <=> Lately(k) BY <1>2 DEF Lately
<1>6. Attributed(n) BY <1>2, <1>3 DEF Attributed, Ordered
<1>7. CallOK(n) BY <1>2, <1>4, <1>5, <1>6 DEF CallOK
<1> QED BY <1>1, <1>7 DEF n

LEMMA AcceptedOK ==
  ASSUME TypeOK, NEW k \in CallStates, CallOK(k), k.phase \in {"tenant", "user", "stamp"}
  PROVE  Accepted(k) \in CallStates /\ CallOK(Accepted(k))
<1> DEFINE n == Accepted(k)
<1>1. n \in CallStates BY DEF Accepted, CallStates, Phases
<1>2. /\ n.phase = "done" /\ n.outcome = "accepted"
      /\ n.id = k.id /\ n.heard = k.heard /\ n.shape = k.shape
  BY DEF Accepted, CallStates
<1> HIDE DEF n
<1>3. Ordered(k) /\ Attributed(k) BY DEF CallOK
<1>4. Ordered(n) BY <1>2 DEF Ordered
<1>5. Lately(n) <=> Lately(k) BY <1>2 DEF Lately
<1>6. k.outcome = "none" BY <1>3 DEF Ordered
<1>7. Attributed(n) BY <1>2, <1>3, <1>6 DEF Attributed
<1>8. CallOK(n) BY <1>2, <1>4, <1>5, <1>7 DEF CallOK
<1> QED BY <1>1, <1>8 DEF n

-----------------------------------------------------------------------------
(* The steps.                                                              *)

LEMMA CallType ==
  ASSUME IInv, NEW c \in Calls
  PROVE  call[c] \in CallStates /\ CallOK(call[c]) /\ TypeOK
BY DEF IInv, TypeOK

(* A step of one call. *)
LEMMA OneCall ==
  ASSUME IInv, NEW c \in Calls, NEW k \in CallStates,
         Becomes(c, k), CallOK(k), UNCHANGED <<now, setup>>,
         whois' \in [Slots -> [answer: Answers, expiry: Nat]], WhoisOK',
         ldap' \in [Users -> Nat], activity' \subseteq Users
  PROVE  IInv'
<1>1. call \in [Calls -> CallStates] BY DEF IInv, TypeOK
<1>2. /\ call' \in [Calls -> CallStates] /\ call'[c] = k
      /\ \A d \in Calls : d # c => call'[d] = call[d]
  BY <1>1 DEF Becomes
<1>3. TypeOK' BY <1>2 DEF IInv, TypeOK
<1>4. \A d \in Calls : CallOK(call[d])'
  <2> SUFFICES ASSUME NEW d \in Calls PROVE CallOK(call[d])' OBVIOUS
  <2>1. CASE d = c BY <2>1, <1>2 DEF CallOK, Ordered, Attributed, Lately
  <2>2. CASE d # c
    <3>1. CallOK(call[d]) BY DEF IInv
    <3>2. call'[d] = call[d] BY <1>2, <2>2
    <3> QED BY <3>1, <3>2 DEF CallOK, Ordered, Attributed, Lately
  <2> QED BY <2>1, <2>2
<1> QED BY <1>3, <1>4 DEF IInv

LEMMA CachesStay ==
  ASSUME IInv, UNCHANGED <<now, whois, ldap, activity>>
  PROVE  /\ whois' \in [Slots -> [answer: Answers, expiry: Nat]] /\ WhoisOK'
         /\ ldap' \in [Users -> Nat] /\ activity' \subseteq Users
BY DEF IInv, TypeOK, WhoisOK

(* Most steps: the caches are left alone, the call goes on as above. *)
LEMMA CallGoesOn ==
  ASSUME IInv, NEW c \in Calls, NEW k \in CallStates, CallOK(k), Becomes(c, k),
         UNCHANGED <<now, setup, whois, ldap, activity>>
  PROVE  IInv'
BY CachesStay, OneCall

LEMMA BeginKeeps ==
  ASSUME IInv, NEW c \in Calls, Begin(c)
  PROVE  IInv'
<1> DEFINE k == call[c]
           n == [k EXCEPT !.phase = "whois", !.ts = now]
<1>1. k \in CallStates /\ CallOK(k) /\ TypeOK BY CallType
<1>2. k.phase = "new" /\ UNCHANGED <<now, setup, whois, ldap, activity>>
  BY DEF Begin
<1>3. CASE k.shape.address = ""
  BY <1>1, <1>2, <1>3, FromHeadersOK, CallGoesOn DEF Begin
<1>4. CASE k.shape.address # ""
  <2>1. Becomes(c, n) BY <1>4 DEF Begin
  <2>2. n \in CallStates BY <1>1 DEF TypeOK, CallStates, Phases
  <2>3. /\ n.phase = "whois" /\ n.heard = k.heard
        /\ n.shape = k.shape /\ n.outcome = k.outcome /\ n.id = k.id
    BY <1>1 DEF CallStates
  <2> HIDE DEF n
  <2>4. Ordered(k) BY <1>1 DEF CallOK
  <2>5. Ordered(n) BY <1>2, <1>4, <2>3, <2>4 DEF Ordered
  <2>6. n.heard.address = "" /\ Attributed(n)
    BY <1>2, <2>3, <2>4 DEF Ordered, Attributed
  <2>7. CallOK(n) BY <2>5, <2>6 DEF CallOK
  <2> QED BY <1>2, <2>1, <2>2, <2>7, CallGoesOn
<1> QED BY <1>3, <1>4

(* The slot of a call is one of the cache. *)
LEMMA SlotType ==
  ASSUME IInv, NEW c \in Calls, call[c].phase \in {"whois", "asking"}
  PROVE  /\ call[c].shape.address \in Addresses
         /\ call[c].ts \in Times /\ call[c].ts \div Bucket \in Times
         /\ Slot(call[c]) \in Slots
<1>1. call[c] \in CallStates /\ CallOK(call[c]) BY CallType
<1>2. call[c].shape.address \in Addresses
  BY <1>1, ShapesAssumption DEF CallStates, Shape, CallOK, Ordered, Attributed
<1>3. call[c].ts \in Times BY <1>1 DEF CallStates
<1>4. call[c].ts \div Bucket \in Times BY <1>3, BucketIsTime
<1> QED BY <1>2, <1>3, <1>4 DEF Slot, Slots

LEMMA WhoisLookupKeeps ==
  ASSUME IInv, NEW c \in Calls, WhoisLookup(c)
  PROVE  IInv'
<1> DEFINE k == call[c]
           entry == whois[Slot(k)]
<1>1. k \in CallStates /\ CallOK(k) /\ TypeOK BY CallType
<1>2. k.phase = "whois" /\ UNCHANGED <<now, setup, whois, ldap, activity>>
  BY DEF WhoisLookup
<1>3. CASE ~setup.whois
  <2>1. Becomes(c, WithoutWhois(k)) BY <1>3 DEF WhoisLookup
  <2> QED BY <1>1, <1>2, <2>1, WithoutWhoisOK, CallGoesOn
<1>4. CASE setup.whois /\ now < entry.expiry
  <2>1. Becomes(c, FromWhois(k, entry.answer)) BY <1>4 DEF WhoisLookup
  <2>2. /\ k.shape.address \in Addresses /\ k.ts \div Bucket \in Times
        /\ Slot(k) \in Slots /\ Slot(k) = <<k.shape.address, k.ts \div Bucket>>
    BY <1>2, SlotType DEF Slot
  <2>3. entry \in [answer: Answers, expiry: Nat] /\ now \in Nat
    BY <1>1, <2>2 DEF TypeOK, Times
  <2>4. entry.expiry > 0 BY <1>4, <2>3
  <2>5. /\ entry.answer \in Answers
        /\ entry.answer.address = k.shape.address
        /\ entry.answer.about \div Bucket = k.ts \div Bucket
    BY <2>2, <2>3, <2>4 DEF IInv, WhoisOK
  <2> QED BY <1>1, <1>2, <2>1, <2>5, FromWhoisOK, CallGoesOn
<1>5. CASE setup.whois /\ ~(now < entry.expiry)
  <2>1. Becomes(c, [k EXCEPT !.phase = "asking"]) BY <1>5 DEF WhoisLookup
  <2>2. "asking" \in Phases BY DEF Phases
  <2> QED BY <1>1, <1>2, <2>1, <2>2, MovedOK, CallGoesOn
<1> QED BY <1>3, <1>4, <1>5

LEMMA WhoisAnswersKeeps ==
  ASSUME IInv, NEW c \in Calls, WhoisAnswers(c)
  PROVE  IInv'
<1> DEFINE k == call[c]
<1>1. k \in CallStates /\ CallOK(k) /\ TypeOK BY CallType
<1>0. now + Expiry \in Nat BY <1>1, TimesAssumption DEF TypeOK, Times
<1>2. k.phase = "asking" /\ UNCHANGED <<now, setup, ldap, activity>>
  BY DEF WhoisAnswers
<1>3. PICK user \in Users \cup {NoLease, ""}, tenant \in BOOLEAN :
        LET answer == [address |-> k.shape.address, user |-> user,
                       tenant |-> tenant, about |-> k.ts]
        IN /\ whois' = [whois EXCEPT ![Slot(k)] = [answer |-> answer,
                                                   expiry |-> now + Expiry]]
           /\ Becomes(c, FromWhois(k, answer))
  BY DEF WhoisAnswers
<1> DEFINE answer == [address |-> k.shape.address, user |-> user,
                      tenant |-> tenant, about |-> k.ts]
           entry == [answer |-> answer, expiry |-> now + Expiry]
<1>4. /\ k.shape.address \in Addresses /\ k.ts \in Times
      /\ Slot(k) \in Slots /\ Slot(k) = <<k.shape.address, k.ts \div Bucket>>
  BY <1>2, SlotType DEF Slot
<1>5. answer \in Answers BY <1>4 DEF Answers
<1>6. answer.address = k.shape.address /\ answer.about = k.ts OBVIOUS
<1>7. entry \in [answer: Answers, expiry: Nat] /\ entry.answer = answer
  <2> HIDE DEF answer
  <2> QED BY <1>5, <1>0
<1>8. whois' = [whois EXCEPT ![Slot(k)] = entry] /\ Becomes(c, FromWhois(k, answer))
  BY <1>3
<1> HIDE DEF answer, entry
<1>9. whois' \in [Slots -> [answer: Answers, expiry: Nat]]
  BY <1>1, <1>7, <1>8 DEF TypeOK
<1>10. WhoisOK'
  <2> SUFFICES ASSUME NEW a \in Addresses, NEW t \in Times,
                      whois'[<<a, t>>].expiry > 0
               PROVE  /\ whois'[<<a, t>>].answer.address = a
                      /\ whois'[<<a, t>>].answer.about \div Bucket = t
    BY DEF WhoisOK
  <2>1. <<a, t>> \in Slots BY DEF Slots
  <2>2. CASE <<a, t>> = Slot(k)
    <3>1. whois'[<<a, t>>] = entry BY <1>1, <1>8, <2>1, <2>2 DEF TypeOK
    <3>2. <<a, t>> = <<k.shape.address, k.ts \div Bucket>> BY <1>4, <2>2, Zenon
    <3>3. a = k.shape.address /\ t = k.ts \div Bucket BY <3>2, Zenon
    <3> QED BY <3>1, <3>3, <1>6, <1>7
  <2>3. CASE <<a, t>> # Slot(k)
    <3>1. whois'[<<a, t>>] = whois[<<a, t>>] BY <1>1, <1>8, <2>1, <2>3 DEF TypeOK
    <3> QED BY <3>1 DEF IInv, WhoisOK
  <2> QED BY <2>2, <2>3
<1>11. FromWhois(k, answer) \in CallStates /\ CallOK(FromWhois(k, answer))
  BY <1>1, <1>2, <1>5, <1>6, FromWhoisOK
<1>12. ldap' \in [Users -> Nat] /\ activity' \subseteq Users
  BY <1>2 DEF IInv, TypeOK
<1> QED BY <1>2, <1>8, <1>9, <1>10, <1>11, <1>12, OneCall

LEMMA WhoisFailsKeeps ==
  ASSUME IInv, NEW c \in Calls, WhoisFails(c)
  PROVE  IInv'
BY CallType, WithoutWhoisOK, CallGoesOn DEF WhoisFails

-----------------------------------------------------------------------------
(* The steps of Active Directory, of the tenant and of the clock.          *)

LEMMA EnrichedOK ==
  ASSUME TypeOK, NEW k \in CallStates, CallOK(k), k.phase \in {"enrich", "searching"}
  PROVE  Enriched(k) \in CallStates /\ CallOK(Enriched(k))
<1>1. "tenant" \in Phases BY DEF Phases
<1> QED BY <1>1, MovedOK DEF Enriched

LEMMA LdapLookupKeeps ==
  ASSUME IInv, NEW c \in Calls, LdapLookup(c)
  PROVE  IInv'
<1> DEFINE k == call[c]
<1>1. k \in CallStates /\ CallOK(k) /\ TypeOK BY CallType
<1>2. k.phase = "enrich" /\ UNCHANGED <<now, setup, whois, ldap, activity>>
  BY DEF LdapLookup
<1>3. CASE Becomes(c, Enriched(k)) BY <1>1, <1>2, <1>3, EnrichedOK, CallGoesOn
<1>4. CASE Becomes(c, [k EXCEPT !.phase = "searching"])
  <2>1. "searching" \in Phases BY DEF Phases
  <2> QED BY <1>1, <1>2, <1>4, <2>1, MovedOK, CallGoesOn
<1> QED BY <1>3, <1>4 DEF LdapLookup

LEMMA LdapAnswersKeeps ==
  ASSUME IInv, NEW c \in Calls, LdapAnswers(c)
  PROVE  IInv'
<1> DEFINE k == call[c]
<1>1. k \in CallStates /\ CallOK(k) /\ TypeOK BY CallType
<1>2. /\ k.phase = "searching" /\ UNCHANGED <<now, setup, whois, activity>>
      /\ ldap' = [ldap EXCEPT ![Account[k.id.name]] = now + TTL]
      /\ Becomes(c, Enriched(k))
  BY DEF LdapAnswers
<1>3. now + TTL \in Nat BY <1>1, TimesAssumption DEF TypeOK, Times
<1>4. ldap' \in [Users -> Nat] BY <1>1, <1>2, <1>3 DEF TypeOK
<1>5. /\ whois' \in [Slots -> [answer: Answers, expiry: Nat]] /\ WhoisOK'
      /\ activity' \subseteq Users
  BY <1>2 DEF IInv, TypeOK, WhoisOK
<1> QED BY <1>1, <1>2, <1>4, <1>5, EnrichedOK, OneCall

LEMMA LdapFailsKeeps ==
  ASSUME IInv, NEW c \in Calls, LdapFails(c)
  PROVE  IInv'
BY CallType, EnrichedOK, CallGoesOn DEF LdapFails

LEMMA TenantFoundKeeps ==
  ASSUME IInv, NEW c \in Calls, TenantFound(c)
  PROVE  IInv'
<1>1. "user" \in Phases BY DEF Phases
<1>2. call[c].phase = "tenant" /\ UNCHANGED <<now, setup, whois, ldap, activity>>
  BY DEF TenantFound
<1>3. CASE call[c].id.user = ""
  <2>1. Becomes(c, Accepted(call[c])) BY <1>3 DEF TenantFound
  <2> QED BY <1>2, <2>1, CallType, AcceptedOK, CallGoesOn
<1>4. CASE call[c].id.user # ""
  <2>1. Becomes(c, [call[c] EXCEPT !.phase = "user"]) BY <1>4 DEF TenantFound
  <2> QED BY <1>1, <1>2, <1>4, <2>1, CallType, MovedOK, CallGoesOn
<1> QED BY <1>3, <1>4

LEMMA TenantRejectsKeeps ==
  ASSUME IInv, NEW c \in Calls, TenantRejects(c)
  PROVE  IInv'
BY CallType, RejectedOK, CallGoesOn DEF TenantRejects

LEMMA UserLookedUpKeeps ==
  ASSUME IInv, NEW c \in Calls, UserLookedUp(c)
  PROVE  IInv'
<1>1. "stamp" \in Phases BY DEF Phases
<1>2. call[c].phase = "user" /\ UNCHANGED <<now, setup, whois, ldap, activity>>
  BY DEF UserLookedUp
<1>3. CASE Becomes(c, Accepted(call[c])) BY <1>2, <1>3, CallType, AcceptedOK, CallGoesOn
<1>4. CASE Becomes(c, [call[c] EXCEPT !.phase = "stamp"])
  BY <1>1, <1>2, <1>4, CallType, MovedOK, CallGoesOn
<1> QED BY <1>3, <1>4 DEF UserLookedUp

LEMMA ActivityStampedKeeps ==
  ASSUME IInv, NEW c \in Calls, ActivityStamped(c)
  PROVE  IInv'
<1> DEFINE k == call[c]
<1>1. k \in CallStates /\ CallOK(k) /\ TypeOK BY CallType
<1>2. /\ k.phase = "stamp" /\ UNCHANGED <<now, setup, whois, ldap>>
      /\ Becomes(c, Accepted(k)) /\ activity' \in {activity, activity \cup {k.id.user}}
  BY DEF ActivityStamped
<1>3. k.id.user \in Users BY <1>1, <1>2 DEF CallOK, Ordered, CallStates, Identities
<1>4. activity' \subseteq Users BY <1>1, <1>2, <1>3 DEF TypeOK
<1>5. /\ whois' \in [Slots -> [answer: Answers, expiry: Nat]] /\ WhoisOK'
      /\ ldap' \in [Users -> Nat]
  BY <1>2 DEF IInv, TypeOK, WhoisOK
<1> QED BY <1>1, <1>2, <1>4, <1>5, AcceptedOK, OneCall

LEMMA TickKeeps ==
  ASSUME IInv, Tick
  PROVE  IInv'
<1>1. /\ now \in Nat /\ now + 1 \in Times
      /\ now' = now + 1 /\ UNCHANGED <<setup, whois, ldap, activity, call>>
  BY TimesAssumption DEF Tick, IInv, TypeOK, Times
<1>2. TypeOK' BY <1>1 DEF IInv, TypeOK
<1>3. WhoisOK' BY <1>1 DEF IInv, WhoisOK
<1>5. \A c \in Calls : CallOK(call[c])'
  BY <1>1 DEF IInv, CallOK, Ordered, Attributed, Lately
<1> QED BY <1>2, <1>3, <1>5 DEF IInv

LEMMA InitEstablishes == Init => IInv
<1> SUFFICES ASSUME Init PROVE IInv OBVIOUS
<1>1. 0 \in Times /\ 0 \in Nat BY TimesAssumption DEF Times
<1>2. NoAnswer \in Answers BY <1>1 DEF NoAnswer, Answers
<1>3. Nobody \in Identities BY DEF Nobody, Identities
<1>4. \A c \in Calls :
        \E s \in Shapes :
          call[c] = [shape |-> s, phase |-> "new", ts |-> 0,
                     heard |-> [address |-> "", age |-> 0], id |-> Nobody,
                     outcome |-> "none"]
  BY DEF Init
<1>5. \A c \in Calls : call[c] \in CallStates /\ CallOK(call[c])
  <2> TAKE c \in Calls
  <2>1. PICK s \in Shapes :
          call[c] = [shape |-> s, phase |-> "new", ts |-> 0,
                     heard |-> [address |-> "", age |-> 0], id |-> Nobody,
                     outcome |-> "none"]
    BY <1>4
  <2> DEFINE idle == [address |-> "", age |-> 0]
             k == [shape |-> s, phase |-> "new", ts |-> 0, heard |-> idle,
                   id |-> Nobody, outcome |-> "none"]
  <2>2. call[c] = k BY <2>1
  <2>3. idle \in [address: Addresses \cup {""}, age: Times] /\ idle.address = ""
    BY <1>1
  <2> HIDE DEF idle
  <2>4. k \in CallStates BY <1>1, <1>3, <2>3 DEF CallStates, Phases
  <2>5. k.phase = "new" /\ k.outcome = "none" /\ k.heard = idle
    OBVIOUS
  <2> HIDE DEF k
  <2>6. CallOK(k) BY <2>3, <2>5 DEF CallOK, Ordered, Attributed
  <2> QED BY <2>2, <2>4, <2>6
<1>6. TypeOK
  <2>1. call \in [Calls -> CallStates] BY <1>5, Zenon DEF Init
  <2>2. whois \in [Slots -> [answer: Answers, expiry: Nat]]
    BY <1>1, <1>2 DEF Init
  <2>3. ldap \in [Users -> Nat] BY <1>1 DEF Init
  <2> QED BY <2>1, <2>2, <2>3, <1>1 DEF Init, TypeOK
<1>7. WhoisOK
  <2>1. \A a \in Addresses, t \in Times : whois[<<a, t>>].expiry = 0
    BY DEF Init, Slots
  <2> QED BY <2>1 DEF WhoisOK
<1> QED BY <1>5, <1>6, <1>7 DEF IInv

LEMMA NextPreserves == IInv /\ [Next]_vars => IInv'
<1> SUFFICES ASSUME IInv, [Next]_vars PROVE IInv' OBVIOUS
<1>1. CASE Tick BY <1>1, TickKeeps
<1>2. CASE \E c \in Calls : Begin(c) \/ Goes(c) \/ LdapEnds(c)
  <2>1. PICK c \in Calls : Begin(c) \/ Goes(c) \/ LdapEnds(c) BY <1>2
  <2>2. CASE Begin(c) BY <2>2, BeginKeeps
  <2>3. CASE Goes(c)
    BY <2>3, WhoisLookupKeeps, WhoisAnswersKeeps, WhoisFailsKeeps, LdapLookupKeeps,
       TenantFoundKeeps, TenantRejectsKeeps, UserLookedUpKeeps,
       ActivityStampedKeeps DEF Goes
  <2>4. CASE LdapEnds(c) BY <2>4, LdapAnswersKeeps, LdapFailsKeeps DEF LdapEnds
  <2> QED BY <2>1, <2>2, <2>3, <2>4
<1>3. CASE UNCHANGED vars
  <2>1. UNCHANGED <<now, setup, whois, ldap, activity, call>> BY <1>3 DEF vars
  <2>2. TypeOK' BY <2>1 DEF IInv, TypeOK
  <2>3. WhoisOK' BY <2>1 DEF IInv, WhoisOK
  <2>4. \A c \in Calls : CallOK(call[c])'
    BY <2>1 DEF IInv, CallOK, Ordered, Attributed, Lately
  <2> QED BY <2>2, <2>3, <2>4 DEF IInv
<1> QED BY <1>1, <1>2, <1>3 DEF Next

-----------------------------------------------------------------------------
(* The theorems.                                                           *)

(* The inductive invariant: what a call has found out agrees with how far  *)
(* it is, and every cache entry is about the key it is stored under.       *)
THEOREM Invariant == Spec => []IInv
BY InitEstablishes, NextPreserves, PTL DEF Spec

(* Every variable has its type. *)
THEOREM TypeCorrect == Spec => []TypeOK
<1>1. IInv => TypeOK BY DEF IInv
<1> QED BY <1>1, Invariant, PTL

(* ExtractIdentity goes by an answer about the request's own address and   *)
(* its own bucket of time, whatever the other calls put into whoisCache.   *)
THEOREM AttributesByFreshAnswer == Spec => []AttributionFresh
<1>1. IInv => AttributionFresh
  BY DEF IInv, CallOK, Lately, AttributionFresh
<1> QED BY <1>1, Invariant, PTL

(* An enforced tunnel accepts nothing without a lease (lookupWhois fails   *)
(* closed).                                                                *)
THEOREM EnforcesAttribution == Spec => []EnforcedAttribution
<1>1. IInv => EnforcedAttribution
  BY DEF IInv, CallOK, Ordered, Attributed, EnforcedAttribution
<1> QED BY <1>1, Invariant, PTL

-----------------------------------------------------------------------------
(* Towards Resolves: no call goes in circles.                              *)

StepsLeft(phase) ==
  CASE phase = "new" -> 8
    [] phase = "whois" -> 7
    [] phase = "asking" -> 6
    [] phase = "enrich" -> 5
    [] phase = "searching" -> 4
    [] phase = "tenant" -> 3
    [] phase = "user" -> 2
    [] phase = "stamp" -> 1
    [] OTHER -> 0

Steps(c) == Begin(c) \/ Goes(c) \/ LdapEnds(c)

LEMMA Onwards ==
  ASSUME NEW k \in CallStates
  PROVE  /\ FromHeaders(k).phase \in {"enrich", "tenant", "done"}
         /\ WithoutWhois(k).phase \in {"enrich", "tenant", "done"}
         /\ \A answer : FromWhois(k, answer).phase \in {"enrich", "tenant", "done"}
<1>1. ASSUME NEW n, DOMAIN n = DOMAIN k
      PROVE  /\ Rejected(n).phase = "done"
             /\ \A id : Identified(n, id).phase \in {"enrich", "tenant"}
  BY <1>1 DEF Rejected, Identified, CallStates
<1>2. FromHeaders(k).phase \in {"enrich", "tenant", "done"}
  BY <1>1 DEF FromHeaders
<1>3. WithoutWhois(k).phase \in {"enrich", "tenant", "done"}
  BY <1>1, <1>2 DEF WithoutWhois
<1>4. \A answer : FromWhois(k, answer).phase \in {"enrich", "tenant", "done"}
  <2> TAKE answer
  <2>1. DOMAIN Heard(k, answer) = DOMAIN k BY DEF Heard, CallStates
  <2> QED BY <1>1, <2>1 DEF FromWhois
<1> QED BY <1>2, <1>3, <1>4

LEMMA StepsOn ==
  ASSUME TypeOK, NEW c \in Calls, Steps(c)
  PROVE  /\ StepsLeft(call'[c].phase) < StepsLeft(call[c].phase)
         /\ \A d \in Calls : d # c => call'[d] = call[d]
<1> DEFINE k == call[c]
<1>1. call \in [Calls -> CallStates] /\ k \in CallStates BY DEF TypeOK
<1>2. \A n : Becomes(c, n) =>
        call'[c] = n /\ \A d \in Calls : d # c => call'[d] = call[d]
  BY <1>1 DEF Becomes
<1>3. PICK n : Becomes(c, n)
  BY DEF Steps, Begin, Goes, LdapEnds, WhoisLookup, WhoisAnswers, WhoisFails,
         LdapLookup, LdapAnswers, LdapFails, TenantFound, TenantRejects, UserLookedUp,
         ActivityStamped, Becomes
<1>4. \/ k.phase = "new" /\ call'[c].phase \in {"enrich", "tenant", "done", "whois"}
      \/ k.phase = "whois" /\ call'[c].phase \in {"enrich", "tenant", "done", "asking"}
      \/ k.phase = "asking" /\ call'[c].phase \in {"enrich", "tenant", "done"}
      \/ k.phase = "enrich" /\ call'[c].phase \in {"tenant", "searching"}
      \/ k.phase = "searching" /\ call'[c].phase = "tenant"
      \/ k.phase = "tenant" /\ call'[c].phase \in {"done", "user"}
      \/ k.phase = "user" /\ call'[c].phase \in {"done", "stamp"}
      \/ k.phase = "stamp" /\ call'[c].phase = "done"
  <2>0. /\ FromHeaders(k).phase \in {"enrich", "tenant", "done"}
        /\ WithoutWhois(k).phase \in {"enrich", "tenant", "done"}
        /\ \A answer : FromWhois(k, answer).phase \in {"enrich", "tenant", "done"}
    BY <1>1, Onwards
  <2>1. CASE Begin(c)
    <3>1. [k EXCEPT !.phase = "whois", !.ts = now].phase = "whois"
      BY <1>1 DEF CallStates
    <3>2. /\ k.phase = "new"
          /\ \/ Becomes(c, FromHeaders(k))
             \/ Becomes(c, [k EXCEPT !.phase = "whois", !.ts = now])
      BY <2>1 DEF Begin
    <3>3. \/ call'[c] = FromHeaders(k)
          \/ call'[c] = [k EXCEPT !.phase = "whois", !.ts = now]
      BY <1>2, <3>2
    <3>4. call'[c].phase \in {"enrich", "tenant", "done", "whois"}
      BY <2>0, <3>1, <3>3, Zenon
    <3> QED BY <3>2, <3>4
  <2>2. CASE WhoisLookup(c)
    <3>1. [k EXCEPT !.phase = "asking"].phase = "asking" BY <1>1 DEF CallStates
    <3>2. /\ k.phase = "whois"
          /\ \/ Becomes(c, WithoutWhois(k))
             \/ Becomes(c, [k EXCEPT !.phase = "asking"])
             \/ \E answer : Becomes(c, FromWhois(k, answer))
      BY <2>2 DEF WhoisLookup
    <3>3. \/ call'[c] = WithoutWhois(k)
          \/ call'[c] = [k EXCEPT !.phase = "asking"]
          \/ \E answer : call'[c] = FromWhois(k, answer)
      BY <1>2, <3>2
    <3>4. call'[c].phase \in {"enrich", "tenant", "done", "asking"}
      BY <2>0, <3>1, <3>3, Zenon
    <3> QED BY <3>2, <3>4
  <2>3. CASE WhoisAnswers(c)
    <3>1. k.phase = "asking" /\ \E answer : Becomes(c, FromWhois(k, answer))
      BY <2>3 DEF WhoisAnswers
    <3> QED BY <1>2, <2>0, <3>1
  <2>4. CASE WhoisFails(c) BY <1>2, <2>0, <2>4 DEF WhoisFails
  <2>5. Enriched(k).phase = "tenant" BY <1>1 DEF Enriched, CallStates
  <2>6. CASE LdapLookup(c)
    <3>1. [k EXCEPT !.phase = "searching"].phase = "searching"
      BY <1>1 DEF CallStates
    <3> QED BY <1>2, <2>5, <2>6, <3>1 DEF LdapLookup
  <2>7. CASE LdapAnswers(c) BY <1>2, <2>5, <2>7 DEF LdapAnswers
  <2>8. CASE LdapFails(c) BY <1>2, <2>5, <2>8 DEF LdapFails
  <2>9. Accepted(k).phase = "done" /\ Rejected(k).phase = "done"
        /\ [k EXCEPT !.phase = "user"].phase = "user"
        /\ [k EXCEPT !.phase = "stamp"].phase = "stamp"
    BY <1>1 DEF Accepted, Rejected, CallStates
  <2>10. CASE TenantFound(c) BY <1>2, <2>9, <2>10 DEF TenantFound
  <2>11. CASE TenantRejects(c) BY <1>2, <2>9, <2>11 DEF TenantRejects
  <2>12. CASE UserLookedUp(c) BY <1>2, <2>9, <2>12 DEF UserLookedUp
  <2>13. CASE ActivityStamped(c) BY <1>2, <2>9, <2>13 DEF ActivityStamped
  <2> QED
    BY <2>1, <2>2, <2>3, <2>4, <2>6, <2>7, <2>8, <2>10, <2>11, <2>12, <2>13
    DEF Steps, Goes, LdapEnds
<1> HIDE DEF k
<1>5. StepsLeft(call'[c].phase) < StepsLeft(k.phase) BY <1>4 DEF StepsLeft
<1> QED BY <1>2, <1>3, <1>5 DEF k

(* A call is decided within eight steps of its own, whatever the services  *)
(* answer and whatever the other calls do to the caches: no lookup is made *)
(* twice, and a failed one not repeated.                                   *)
THEOREM GoesForward ==
  Spec => [][\A c \in Calls :
               /\ StepsLeft(call'[c].phase) <= StepsLeft(call[c].phase)
               /\ Steps(c) => StepsLeft(call'[c].phase) < StepsLeft(call[c].phase)
            ]_vars
<1>1. TypeOK /\ [Next]_vars =>
        [\A c \in Calls :
           /\ StepsLeft(call'[c].phase) <= StepsLeft(call[c].phase)
           /\ Steps(c) => StepsLeft(call'[c].phase) < StepsLeft(call[c].phase)]_vars
  <2> SUFFICES ASSUME TypeOK, [Next]_vars, NEW c \in Calls
               PROVE  /\ StepsLeft(call'[c].phase) <= StepsLeft(call[c].phase)
                      /\ Steps(c) => StepsLeft(call'[c].phase) < StepsLeft(call[c].phase)
    OBVIOUS
  <2>1. \A phase : StepsLeft(phase) \in Nat BY DEF StepsLeft
  <2>2. CASE Steps(c) BY <2>1, <2>2, StepsOn
  <2>3. ASSUME ~Steps(c) PROVE call'[c] = call[c]
    BY <2>3, StepsOn DEF Next, Steps, Tick, vars
  <2> QED BY <2>1, <2>2, <2>3
<1> QED BY <1>1, TypeCorrect, PTL DEF Spec
=============================================================================
