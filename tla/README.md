# A TLA+ model of ICAPeg

ICAPeg (`src/`) is an ICAP server: a web proxy hands it requests (REQMOD) and
responses (RESPMOD), a service scans them, and this branch of ICAPeg adds a
business layer that recognises calls of AI tools, records them on an SQS queue
and counts the hosts it does not know.  The modules here model what decides
whether a transaction is answered, answered correctly, and recorded correctly.
Source paths below are relative to `src/`.

## 1. Inventory

| Component | State it keeps | Operations | Talks to |
|---|---|---|---|
| ICAP connection (`icap/server.go`, `request.go`, `chunked.go`) | the buffered stream, the request in service, one or two chunked readers | read a request, read a preview, read the rest, recover from a panic, close | the client; the handler |
| Response writer (`icap/response.go`) | `wroteHeader`, the unflushed reply | WriteHeader, 100 Continue, finishRequest | the connection |
| Request lifecycle (`api/icap-request.go`) | the ICAPRequest: its flags `businessLogicApplied` and `pendingRecording`, the body and its copy | refuse, OPTIONS, shadow, the two policy passes, scan, preview, reply | services, business layer, writer |
| Recording (`business/handler.go`, `sqs.go`) | one goroutine per recording, the SQS queue | ProcessRequest, store attachments in S3, enqueue | catalogue, tenant, identity, SQS, S3 |
| Endpoint catalogue (`business/urlmatcher.go`, `init.go`) | the cache behind an RWMutex, refreshed every five minutes | RefreshEndpointsCache, MatchURL, pathMatches | the database |
| Candidate discovery (`business/candidate_logger.go`) | a map of counts behind a mutex | Observe, flush | the database |
| Identity, enrichment (`business/identity.go`, `ldap_enricher.go`) | two caches with expiry | ExtractIdentity, lookupWhois, Enrich | whois service, LDAP |
| Tenant validation (`business/tenant.go`) | none | two queries | the database |
| Scanning services (`service/services/*`) | per-vendor configuration, ClamAV's result goroutine | Processing | ClamAV, hash lookup |
| Extension and size policy (`service/services-utilities`) | none | CheckTheExtension, size limits, block pages | services |
| Service registry, configuration (`service/service.go`, `config/`) | `AppCfg`, one `sync.Once` per vendor | GetService, Init | all |
| Content types (`service/services-utilities/ContentTypes`) | none | take payloads out of and put them back into bodies | services |
| Routing, server, logging, database pool, ICAP client library, block page server | see section 8 | | |

What is hard in it:

* **Two passes around 100 Continue.**  The policy runs on the preview, then
  again on the whole body.  Two flags decide in which pass a transaction is
  refused, counted or recorded.
* **Detached goroutines on shared objects.**  A recorder reads the
  `http.Request` that the service goes on to rewrite; a shadowed service is
  processed while the connection already reads the next request from the same
  buffer.
* **Stream framing.**  The chunked reader stops in front of a CRLF that may or
  may not have been fetched already, and its private buffer is thrown away.
* **Partial failure.**  SQS, S3 and the database may fail or time out between
  any two steps; a failed statement may have been applied; an attempt to send a
  message may have been accepted, and the SDK makes another; a row iteration may
  break off.
* **Calls without a deadline.**  Reading from the client, searching Active
  Directory, sending a file to clamd and storing one in S3 may take for ever.
* **Counts in memory** that a flush, a deadline or the end of the process can
  lose or double.
* **A cache that is replaced while requests use it.**
* **A wait that is not a wait.**  ClamAV's call sleeps five seconds and then looks
  at what a goroutine of its own may or may not have written.
* **Configuration shared by name.**  Each vendor reads its section once, for
  whichever of its services a map iteration meets first.
* **Bodies taken apart and rebuilt.**  A file is cut out of a form or a JSON
  document, scanned, and put back by looking for it a second time.

What makes the components correct: each transaction is accounted for once, with
its whole body and never after a refusal; it gets exactly one reply, in the end,
which never changes; the body a handler sees is its own client's; the stream is
in step between requests; hits are conserved; the cache is one load of the
catalogue and catches up with it; a recorded request is one the catalogue says
to record; a file is treated as the list that names its type says, and after a
scan as the scanner says; what is found clean goes on as it came.

## 2. The modules and the code

| Module | Models | Composes |
|---|---|---|
| `RequestLifecycle` | `RespAndReqMods`, `RequestProcessing`, `shadowService`, `preview`, `optionsMode`, `ProcessRequest`, `processRecordAction`, `respWriter.WriteHeader`, `finishRequest` | refines `RecordingContract` |
| `RecordingContract` | the promise: recorded at most once (in how many equal copies the transport may choose), wholly or as metadata, never when refused | |
| `CandidateLogger` | `Observe`, `flushLoop`, `flush`, `candidatePreFilter`, the end and start of the process | |
| `IcapConnection` | `conn.serve`, `readRequest`, `ReadRequest`, `chunkedReader`, 100 Continue, `recover` | |
| `PathMatching` | `pathMatches`, `pathSegmentMatch`, `isRegexPattern`, `regexFullMatch`, `methodMatches` | |
| `EndpointCache` | `RefreshEndpointsCache`, its ticker, `MatchURL`, `tenantToolSanctioned` | extends `PathMatching` |
| `IdentityResolution` | `ExtractIdentity`, `lookupWhois`, `Enrich`, `ValidateTenantAndUser` | |
| `ExtensionPolicy` | `CheckTheExtension`, `ifFileExtIsX`, `InitExtsArr`, `GetMimeExtension`, the checks of `config.Init` on the three lists | |
| `ContentTypes` | `GetContentType`, `GetFileFromRequest` and `BodyAfterScanning` of its three implementations | |
| `ScanService` | `Processing` of echo, clhashlookup and clamav, ClamAV's goroutine, `InitServiceConfig`, `GetService` | extends the two above, refines `ServiceContract` |
| `ServiceContract` | the promise that `RequestLifecycle` relies on where it chooses the outcome of a service | |
| `RequestLifecycle_proofs`, `CandidateLogger_proofs`, `EndpointCache_proofs`, `IcapConnection_proofs`, `IdentityResolution_proofs`, `PathMatching_proofs`, `MCPathMatching_proofs`, `ScanService_proofs` | theorems, those about ExtensionPolicy and ContentTypes in `ScanService_proofs` | extend theirs |
| `MCRequestLifecycle`, ... | instances for TLC | extend theirs |

A definition commented "Fault:" is a variant with a plausible bug, beside the
definition it would break; it belongs to no specification and is there to show
that a property can fail.

**RequestLifecycle.**  A body is the set of its parts `1..size`, of which the
client sends `1..offered` before it waits for 100 Continue.  `pc[r]` is where
the goroutine is: `new`, `read` (or `drained`, in a shadowed service, after a 200
consumed the body), `policy`, `scan`, `continue`, `rest`, `reply`, `end`.
`req[r]` are the fields of ICAPRequest that survive from pass to pass.  The
verdict of ProcessRequest (reject, observe, ignore, record, wildcard) and the
outcome of a service's Processing are chosen freely, as identity, catalogue,
tenant and scanner may decide; `HeaderRace` is the abort of the Go runtime when
the recorder ranges over the header map that a service writes to.  A recorder is
a small process of its own: `launched`, `headers` while it ranges over the header
map, `storing` while it uploads attachments, `sending`, then `sent` or `dropped`.
An enqueue is a sequence of at most `MaxAttempts` attempts of the AWS SDK.  One that
fails (`AttemptFails`) may have been accepted by SQS, so that `EnqueueFails` (the last
attempt, the deadline, or a message too large) leaves open how often the message was
sent.  The queue tells the copies of a message apart and counts them.
`Waits(r)` and `Stores(k)` are the states in which a goroutine is in a call
without a deadline.  `link[r].cut` is a client that leaves in mid-body, `input[r].whole`
the absence of the torn CRLF of IcapConnection.  The body a service modifies and
the parsing of headers are left out.

**IcapConnection.**  The stream is a sequence of tokens: a request's header, a
chunk, the "0" line, the CRLF behind it.  A read from the socket returns any
non-empty prefix of what has arrived.  `client.torn`, chosen at the start, says
whether it may end between "0" and its CRLF; `Undisturbed` are the connections
where it does not and no request is refused or shadowed.  `base` is the connection's bufio.Reader, `reader[r].buf` the
private one of a chunked reader, which is dropped with its contents at the end
of the run.  An empty line parses as a chunk of size 0, as in
`parseHexUint`.  The fate of a request (served, refused, shadowed, a panicking
handler) stands for what RequestLifecycle details.  The client has one request
outstanding at a time (`info/EXTRACTED-RFC.md:72-73`: connections are reused,
pipelining is optional).  A handler panics before it reads the rest of the body or
after (ClamAV, `clamav.go:161`).  A panic leaves the connection neither flushed nor
closed until the garbage collector finalizes the socket (`Finalize`).  `HeldUp` are
the states in which the handler is in a call without a deadline of its own.

**CandidateLogger.**  Every map is a counter per domain.  A failed upsert leaves
open whether it was applied, unless the shared deadline had already expired.
The end of the process loses what is in memory, as nothing calls `Stop`.
Histories: `seen`, `unstored`, `erred`, `gone`.

**PathMatching, EndpointCache.**  A path is a sequence of segments.  A segment
with a metacharacter is known by what it matches when it is read as a regular
expression, which the constant `Reading` says: "v1.0" also matches v1x0, and ".*" any
run of segments.  An expression is one or more alternatives of such segments, of
which Go prefers the first that matches, and within it the longest match (greedy
repetitions only).  What is left out: lazy repetitions, groups across slashes,
expressions that do not compile, and matches that end inside a segment.  A
row has its domain as it was typed, by which the database orders the rows, and as
the lower-case key under which they are cached; `intact` says whether `rows.Scan` can
convert it.  `ToLower` of the action is what ProcessRequest goes by, so that a "Record" row is
recorded, while pathMatches compares the action as it is written.  A refresh reads a snapshot row by row and installs it at its end; a
load may fail at the query or break off between rows.  A wildcard domain `*.host`
matches only the bare host, because the suffix the code compares still begins
with the scheme.  The administrator edits rows at any time.  Histories: `source`, the
catalogue the last load queried, and `unread`, what of it a call could not meet as
the load had broken off.

**IdentityResolution.**  A call of ProcessRequest from its headers to its
validated tenant.  The whois cache has a slot per address and bucket of time, as
its key has, the LDAP cache one per account; an expiry that is over stands for
no entry.  The services answer at any time within their deadlines, or fail.
The service is asked about the moment the request came, and is taken to
answer about that moment; a lease may come without a user, for nobody checks what
was decoded.  Looking into a cache takes no time.  What the attributes say is left
out.  The two statements about a user, lookup and UPDATE, are steps of their own.
History: `heard`, the answer a call went by.  The outcome is the verdict `reject` of
RequestLifecycle, or any other one.

**ExtensionPolicy, ContentTypes.**  The lists are sequences of extensions, `Any`
is the asterisk.  `Promised` is the README's rule, against which
`CheckTheExtension` over the array of `InitExtsArr` is checked and proved.  A
body is what the three implementations of ContentType tell apart: the header,
whether its text is base64 or an object with a `Base64` key, the parts of a form,
and `exact`, whether encoding what was decoded would give the same bytes.

**ScanService.**  A call of Processing on a whole message, from the registry to
its outcome: `new`, `begun`, then `lookup` in clhashlookup, or `send` and `wait` in
clamav, then `done` or `panicked`.  `loaded[v]` is the service whose section
vendor `v` goes by.  `scan[c]` is the channel of ScanStream with the variables
`result` and `scanFinished` that the goroutine writes and the call reads after its
sleep; the goroutine outlives the call.  `rewritten` are the requests that
ReqModErrPage has pointed at the block page.  What RequestLifecycle chooses freely
as the outcome of a service is what `ServiceContract` allows, and ScanService
implements that contract.  History: `answer`.

## 3. Runs

| Run | Instance | Question |
|---|---|---|
| `lifecycle` | one transaction, bodies of up to two parts, all 344 shapes, two attempts of an enqueue; 251,042 states | safety, refinement of RecordingContract, liveness |
| `candidates` | three domains, one of them denied, up to three hits each; 14,508 states | conservation of hits, liveness |
| `conn` | two requests of any shape and fate, up to two chunks, segments cut anywhere; 443,967 states | bodies and answers are never mixed up, the stream stays in step, clients are not left waiting |
| `paths_exact` | all paths and configurations of up to two of five segments (two of them literal, "v1.0", ".*" and a placeholder) and two alternatives; 246,016 states | pathMatches against its documentation |
| `cache` | six rows of one host: two spellings of its name under one key, a "Record" row, a catch-all, an unreadable row, two keys with an asterisk, of which one has two rows; one call, one fault, one edit; 235,767 states | one-load cache, what is recorded, convergence |
| `identity` | two calls, tunnel and header requests, five ways to set the server up, three instants; 1,304,801 states | whom a request is attributed to, and that it is decided |
| `scan` | one call; five services of four vendors, nine configurations, three payloads, six forms; 9,332 states | policy, verdict and body of what a service returns, refinement of ServiceContract, that a call ends |

Bounds, and why they suffice.  `MaxBody = 2` separates an empty preview, a proper
one and a whole body; transactions share nothing but the queue, so one of them
meets every interleaving of its own goroutines, and the theorems cover any
number.  `MaxChunks = 2` and `Requests = 2` let a leftover of one request
meet the next; *InStep* says that an undisturbed connection then is as it was
before, so a third request meets nothing that the second did not.  `MaxHits = 3` lets a hit arrive
before, during and after a flush.  `MaxSegments = 2` and `MaxAlternatives = 2` give
proper prefixes and two alternatives of which either is a prefix of the other.
`MaxAttempts = 2` lets the SDK send again what SQS has accepted already.
`MaxFaults = 1` breaks a load at each of its points; convergence does not depend
on how many faults came before, only that they end.  `MaxEdits = 1` changes each row
before, during and after each load; as any set of rows may be active at first, that is
every catalogue and every change of one row.  In `identity`, `Bucket = 2` lets
two instants share a key and the third not; `Expiry = 3` is longer than the bucket
and `TTL = 2` shorter than the run, so that entries outlive one and expire by the
other; two calls meet in each cache at any point of each other's search.  In `scan` calls
share nothing but `loaded`, which does not change once it is complete, so one call
is enough; the theorems cover any number.  The configurations have the catch-all in
each of the three lists, lists that config.Init refuses, and two services of one
vendor with different lists.

Deadlock is not checked for `conn`, `paths_exact`, `identity` and `scan`: the
script of a client, or the calls, end there.  `RequestLifecycle` has an explicit `Quiet` step for the end,
so its deadlock check finds transactions that stop elsewhere.

What the properties say:

* *AccountedOnce*: over both passes a transaction is recorded once or counted
  once, never both.  *RejectedNeverRecorded*: no recorder was started for what
  the second pass refuses.  *RecordedBodyWhole*: no preview is recorded as a
  body.  *DeferralResolved*: no recording stays pending.  *OneHeader*,
  *ReplyIsFinal*: the reply.  *OriginalReturnedWhole*: what a service leaves
  unmodified comes back as a 204, or whole for a client without 204, a byte range
  excepted (section 5).  *Answered*, *RecorderEnds*: progress, unless a call without
  a deadline holds the goroutine for ever.  *KeepsContract*: the refinement; a
  transaction is recorded once, and what SQS gets more than one of are equal copies
  of one message, at most as many as there are attempts.
* *NeverOvercounts*, *LossIsLogged*, *LeavesMemory*: hits.
* *BodyOwn*, *AnswersMatch*: whatever segments the stream comes in, a handler's
  body is a prefix of what its own client sent, and an answer is to the last
  question.  *BodyWhole*, *InStep*, *KeepsConnection*: what holds in addition
  while a connection is undisturbed.  *Settles*: nobody waits for ever but for a
  handler in a call without a deadline, or a client that owes the rest of a body.
* *PathRules*: plain record rows match exactly, other plain rows by whole leading
  segments, and a path with a metacharacter, read as a regular expression, matches
  a path as a whole or not at all.
* *CacheOfOneLoad*, *CacheWhole*: no request meets a mixture of two loads, nor a
  half-filled cache while the database is well.  *RecordsCatalogued*: a recorded
  request has a row to record of its host, its verb and, as documented, its path; and
  no newer row of the same key and domain that fits it was passed over, neither one
  the request met nor one a load that broke off never read.
  *CacheConverges*: once editing stops, cache and catalogue agree for good.
* *AttributionFresh*: no request is attributed by the answer for another address
  or another bucket of time.  *EnforcedAttribution*: on an enforced tunnel nothing
  is accepted without a lease, whatever fails.  *Resolves*: every call is decided,
  unless Active Directory never answers.
* *PolicyRespected*: the list that names a file's type decides, whatever the order
  of the lists, and no file to be scanned passes unscanned.  *VerdictHonoured*: the
  outcome of a scan is that of the scanner.  *PassesUnchanged*: a message that
  passes has the body it came with, if that body survives the rebuilding.
  *KeepsServiceContract*: the refinement.  *Ends*: a call returns or panics, unless
  sending its file to clamd never ends.

## 4. Fairness

* Goroutines (`Process`, `Finish`, `Record`, `LoopNext`, each `ReaderNext`): the Go
  scheduler is preemptive.  A goroutine is not fair while it is in a call that has no
  deadline, and the properties except one that stays there for ever:
  * it reads what a client has yet to send, for `Server.ReadTimeout` is never given a
    value: `Waits` of RequestLifecycle, *Answered* excepts `[]Waits(r)`; `OwesRest` of
    IcapConnection, which *Settles* excepts;
  * it is in ProcessRequest, where an LDAP bind and search have none (only dialling
    does, `business/ldap_enricher.go:86`), or in a service, where sending to clamd has
    none (`clamav.go:141`): `Waits` again, `HeldUp` of IcapConnection;
  * it stores attachments, for `PutObject` (`business/handler.go:164`) gets neither a
    context nor a deadline: `Stores`, which *RecorderEnds* excepts.
* Statements of the database and a whole enqueue, with all its attempts, have
  deadlines of five seconds, and the load of the catalogue one of thirty.
* Nothing is asked of the client: it asks, sends its rest, reads and leaves when it
  likes, or never.
* `Flush` and `Refresh`: the tickers keep firing.  Upserts may fail for ever,
  *LeavesMemory* holds all the same; a load is broken at most `MaxFaults` times,
  which is the assumption that the database answers in the end.
* `Goes` of IdentityResolution: whois requests and database statements have
  deadlines.  A search in Active Directory has none (only dialling does,
  `business/ldap_enricher.go:86`), so `LdapEnds` is not fair and *Resolves* excepts
  a call that searches for ever.
* `InitServiceConfig` and `Step` of ScanService: code that runs, the end of the hash
  lookup's deadline and of ClamAV's sleep.  `Lookup` and `Clamd` are not fair: neither
  service need answer.  Sending a file to clamd has no deadline
  (`service/services/clamav/clamav.go:141`), so *Ends* excepts a call that sends for ever.
* `LoopNext` includes `Finalize`: the garbage collector runs eventually.

## 5. Where the code departs from what it says

Five runs are expected to end in a violation; each checks one sentence of the
repository.

| Run | Said | Done |
|---|---|---|
| `shadow_truncates` | README.md:206: a shadowed service returns the original message | with a preview, the preview (`api/icap-request.go:500`) |
| `recorded_target` | BUSINESS_LOGIC.md:244: the recorded URL is the requested one | the recorder reads it after the block page may have replaced it (`business/handler.go:360`) |
| `conn_torn_body` | chunked.go:23: io.EOF at the final 0-length chunk | also at an empty line: a torn CRLF ends the rest of a body before it begins |
| `config_shared` | README.md:231: the types the service rejects | a service may go by the section of another of its vendor (`service/services/echo/config.go:37`) |
| `clamav_late` | config.toml:102: waits `timeout` for the scan | sleeps five seconds whatever the timeout, then panics on a nil error (`clamav.go:161`) |

Others were met while modelling and are in the model, or visible in the code,
without a run of their own:

* the final flush that candidate_logger.go:63 announces never happens, for nothing
  calls Stop (`server/server.go:105`);
* `rows.Err` is not asked, so an iteration that breaks off installs its first rows
  (urlmatcher.go:111; 77 says it loads all active rows);
* echo rebuilds what it is to return as it came (README.md:316): the parts of a form
  lose their own headers, JSON is written anew, inexact base64 is normalised;
* a rejected request without `return_400` gets a block page with 200 where README.md:292 speaks of 400;
* an ERROR of clamd, and a channel that closes without a result, pass as clean
  (clamav.go:172); so does an answer of the hash lookup that does not decode
  (clhashlookup.go:233);
* the snapshot for a shadowed service's recorder may be empty, for the 200 has
  drained the body (`api/icap-request.go:127`; handler.go:320-323 means to avoid it);
  its goroutine also competes with the connection for the stream, and may take
  the next request's header off it and drop it, which leaves that client
  waiting: *Settles* excepts shadowed services for this reason;
* a byte range is lost to a client that does not allow 204: for a 206 response clamav
  and clhashlookup return their HttpMsg as it is (`clamav.go:39-43`,
  `clhashlookup.go:40-44`), which WriteHeader does not know (`icap/response.go:86`), so that
  the reply is a 200 with a null body (`api/icap-request.go:366`), where
  `info/EXTRACTED-RFC.md:221` says the server "MUST return the entire message back".  It is
  the one exception of *OriginalReturnedWhole* (`LosesRange`);
* SQS may get several copies of a recording: an attempt that fails may have been
  accepted, and the SDK makes another (`business/sqs.go:133`).  They are equal, and
  carry no identifier by which a reader could tell;
* one stored attachment drops the raw body, also of parts that were not stored
  (handler.go:444);
* types containing `application/` skip the "Explicit drop list" that names two of
  them (candidate_logger.go:107, 113);
* a 404 or 405 leaves the body in the stream, and the connection is closed over
  it (`api/icap-request.go:88`); *InStep* and *KeepsConnection* therefore speak of undisturbed connections;
* a failing tenant query makes MatchURL return no match, so that a host of the
  catalogue is counted as unknown (handler.go:284; 285 says "No catalog match");
* a database error while the tenant is validated refuses the request
  (business/tenant.go:39; BUSINESS_LOGIC.md lets it continue with a warning);
* `{id}` in a configured path makes it a regular expression, in which it stands
  for itself (urlmatcher.go:192; 198 promises placeholders).  The placeholder
  branch of `SegmentMatch` is thus never reached from `Covers`;
* a dot makes a configured path a regular expression: a row to record "/v1.0" also
  covers /v1x0 (urlmatcher.go:192, 217), where BUSINESS_LOGIC.md:158 says "exact path
  for record"; and "/api/*" covers /api, and no path below it.  *PathRules* excepts
  paths with a metacharacter for this reason;
* of several alternatives of a regular expression, the leftmost that matches a
  prefix decides (urlmatcher.go:229);
* the other scheme is tried only if the first has no row at all (urlmatcher.go:290);
* `is_monitored` is never read (urlmatcher.go:155; BUSINESS_LOGIC.md:64);
* a newer catch-all row hides older, more specific rows of the same host;
* the rows are ordered by the domain as it was typed (urlmatcher.go:101) and cached
  under it in lower case (121): of the rows of one key the newest need not come
  first, if its domain is spelled in two ways.  *RecordsCatalogued* speaks of one
  spelling;
* the action of a row is compared as it is written (urlmatcher.go:242) and in lower
  case in ProcessRequest (handler.go:301): a "Record" row records by the prefix rule,
  which the run `cache` has a row for;
* a whois answer without a user is accepted (identity.go:83-91, 149), also on an
  enforced tunnel: the request then goes on as nobody's;
* an older search in Active Directory may be stored over a newer one, and the age of
  its attributes counts from the end of the search (ldap_enricher.go:69-78);
* the denylist of domains is compared with a host that keeps its port
  (candidate_logger.go:125);
* the size check of SQS divides by 1024 before it compares, so up to a KiB too much
  passes (sqs.go:99); a chunk size of more than 16 digits wraps (chunked.go:167).
  Neither arithmetic is modelled.

## 6. Proofs

All proofs are checked by TLAPS, for every value of the constants that satisfies
the named assumptions: in RequestLifecycle `MaxBodyAssumption`,
`MaxAttemptsAssumption` and `InputsAssumption`; in CandidateLogger `DomainsAssumption` and `MaxHitsAssumption`;
in PathMatching, MCPathMatching and EndpointCache `SegmentsAssumption` (a placeholder
has a metacharacter, and no segment is empty), `ReadingAssumption` (a segment
without one matches itself), `BoundsAssumption`, `RowsAssumption` (rows are told apart
by their age, and domains by their place in the order) and `QueriesAssumption` (what a
row configures and a request asks for are paths, of any length); in IcapConnection `BoundsAssumption`
and `ShapesAssumption`; in IdentityResolution `NamesAssumption`, `ShapesAssumption`
and `TimesAssumption`; in ExtensionPolicy, ContentTypes and ScanService
`ExtensionsAssumption`, `PayloadsAssumption`, `NamesAssumption`,
`ServicesAssumption`, `ConfigurationsAssumption`, `JobsAssumption`,
`SizeAssumption` and `NotLoadedAssumption`.

Every safety invariant and action property of a passing run is the statement of a
theorem.

**RequestLifecycle.**  None of the properties is inductive alone.  `IInv` is:

* *PolicyInv*: before the policy was applied, or while a recording is pending,
  the transaction has neither been counted nor refused, and no recorder exists;
  while the body is partial there is no recorder; at most one pass started one.
* *BodyInv*: in a sound transaction (no torn preview, no client lost in mid-body,
  not shadowed), the body and its copy are whole as soon as `partial` is false
  and the goroutine is past reading, and a recorder holds the whole body until
  attachments or metadata-only recording empty it.
* *ReplyInv*: exactly as many headers were written as the handler has ended, and
  the reply of a service that was asked is the one its outcome calls for.
* *QueueInv*: a message is what its recorder built, and its copies are numbered up
  to what SQS accepted of it, which is no more than the attempts made.

The induction has one lemma per group of actions and one per part of IInv.  From
it follow `AccountsOnce`, `RecordsWhole`, `RefusedUnrecorded`, `WritesOneHeader`,
`ResolvesDeferral`, `ReturnsOriginalWhole`, the action property `RepliesFinal`,
and `KeepsRecordingContract`: each step is a Publish, a Refuse, an Answer or a
stutter of RecordingContract.

**CandidateLogger.**  `Conserved` equates, per domain, hits seen with hits in
memory, in the flush, in the table, refused by the database and lost with a
process.  With `unstored = 0` for domains without a logged error, and an empty
snapshot between flushes, it is inductive and gives `NoOvercount`, `LogsLosses`
and `TableNeverShrinks`.

**EndpointCache.**  While a load reads, what it got is the intact part of what it
has consumed of its snapshot, and that comes before all the rest in the order of the
database; so the cache is the *Beginning* of one load, which it is the whole of unless
the load broke off.  Hence `NoMixture` and `Complete`.  `CallsFound` says what a call in
flight goes by: its candidates are the rows of its key in a cache it met, its row is
the first of them that fits, and of the rows the load had yet to read none comes
before it.  With `CoversAsDocumented` (what pathMatches covers, its comments say it
does) this gives `RecordsTheCatalogued`, for catalogues of any size.  Of *CacheConverges* two parts need no fairness: a load that ends installs the
whole catalogue it queried, whatever failed before (`RefreshesWhole`), and a cache
that agrees with the catalogue keeps agreeing, until an edit or a load that breaks
off (`AgreesForGood`).

**PathMatching.**  The lemmas of `PathMatching_proofs` say what each branch of
pathMatches amounts to: comparing a plain path segment by segment is equality
(`SegmentsEqual`, `ExactIsEqual`), a regular expression that matches has an
alternative that matches from end to end (`RegexInFull`), a plain row to record covers
its own path only (`RecordCovers`), and any other plain row the paths that its own is a prefix of, in
whole segments (`OthersCover`).  `KeepsPathRules` is *PathRules*
for paths of any length, any number of alternatives, and whatever segments match.

**IcapConnection.**  `IInv` orders the stream and says who reads it.  Client and
server take turns (`Turns`, *AnswersMatch*): while the client waits, either the
server is at its request, whose answers alone are on their way, or the header is
still on its way.  A header that is on its way is that of the last request, and
only that request follows it (`OfferLast`).  A reader at work has the rest of its
run of chunks in its buffer or before it in the stream, at most one reader has
not fetched all of its run, and none while the loop could start another
(`RunsWhole`, and `RestWhole` for the rest behind a preview); a body nobody has
begun to read is all there still (`Unread`), and behind a preview no chunk comes
before the 100 Continue (`PreviewLast`).  So the next chunk a reader takes is the next chunk of its own
request, which is `OwnBodies`, and `MatchingAnswers` comes with it: for any number
of requests, bodies of any size, and segments that end anywhere, a torn CRLF, a
client that leaves and a shadowed request included.

While the connection is undisturbed and the client is there, much more is true, and
*Calm* says it: `Alone` (only the request in service has a reader), `Ahead` (in the
stream and the buffers is exactly what the place of the loop calls for: nothing, an
offer, a run, or what is left of one), `Held` (a 0 line was never fetched without its
CRLF), `Replies` and `Ends`.  It is inductive with `IInv`; a reader that meets a 0 line
thus finds its CRLF in the same buffer, and drops both.  Hence `ReadsWholeBodies`,
`LeavesNothing` and `ClosesForCause`.

`NobodyStarves` holds of disturbed connections also, if no service is shadowed: a
waiting client has an answer to read, or the connection is closed, or the guard of
some step of the loop or of a reader holds (`ServerMoves`).  Its invariant, `Supplied`,
says what each side owes the other: the header of a request that is waited for is
in the stream (`HeaderThere`), or its final answer on its way (`AnswerThere`); a reader
of the rest has a 0 line to come, or the client has a 100 Continue to read
(`RestThere`); only the request in service has a reader (`OneReader`); and the stream
never ends between "0" and CRLF, so that what was sent can be fetched.  This is
*Settles* without its fairness: neither side ever waits for the other in vain, but for
what a handler itself waits for.
With a shadowed service it is false (section 5), and `NoShadow` excludes nothing else.

**IdentityResolution.**  The invariant says of each entry of the whois cache whose
it is and since when (`WhoisOK`: it is an answer to its own address, from its own
bucket), and of each call that what it heard came in the order of the code
(`Ordered`), from those entries (`Attributed`) and recently enough (`Lately`).  A lookup
of one call may be overtaken by another's entry under the same key; the entries
carry enough for that not to matter.  From it follow `AttributesByFreshAnswer` and
`EnforcesAttribution`.

**ExtensionPolicy.**  `DecidesAsPromised`: for lists that config.Init accepts,
CheckTheExtension over the order of InitExtsArr finds the list the README promises,
whatever the extensions.

**ContentTypes.**  `RoundTrip`: a canonical body is itself again after its file was
taken out and put back; in a form, because the first part that bears the two
names of the file is the one it was taken from.

**ScanService.**  The invariant (`CallInv`) ties the phase of a call to what it has
done: before it is done nothing has come of it, once it has begun its vendor is
loaded, a call that looks up, sends or waits has a file that is due for scanning,
a finished scan is a closed channel; and once it is done its outcome is fine.  With the two theorems above it gives `RespectsPolicy`, `HonoursVerdict`,
`LeavesBodies` and `ImplementsServiceContract`: each step is a Return, a Panic or a
stutter of ServiceContract.

**Towards liveness.**  TLAPS cannot reason about fairness or ENABLED here, so
*Answered*, *RecorderEnds*, *LeavesMemory*, *Settles*, *CacheConverges*, *Resolves* and *Ends*
are only model-checked.  What they rest on is proved as action properties: a
transaction takes at most nine steps and a recorder four more than its attempts, a call of
identity resolution eight, one of Processing four (`GoesForward` of
`RequestLifecycle_proofs`, `IdentityResolution_proofs` and `ScanService_proofs`), each
step of a flush takes a domain off its snapshot (`FlushShrinks`), and each row of a load
one off those to come (`LoadShrinks`); nothing that others
do, and no failure, gives a step back.  With `RefreshesWhole`, `AgreesForGood` and
`NobodyStarves` what is left to TLC is that the steps are taken: fairness, and that
the actions are enabled where they are fair.

## 7. Order of the work, and what is left

1. RequestLifecycle, RecordingContract and their proofs: done.
2. CandidateLogger and its proofs: done.
3. IcapConnection and its proofs, of the undisturbed connection and of
   `NobodyStarves` also: done.
4. PathMatching, EndpointCache and their proofs: done.
5. IdentityResolution and its proofs: done.
6. ExtensionPolicy, ContentTypes, ServiceContract, ScanService and their proofs: done.
7. The variants behind the liveness properties: done, but for a bound on the steps
   of a connection.
8. The size arithmetic of SQS and of chunk headers is left.

## 8. Not modelled, and why

* Routing (`icap/mux.go`, `bridge.go`): one pattern is registered, the rest has no
  caller.
* The ICAP client library (`icap-client/`): not linked into the server.
* Database pool, logging, environment, constants, the block page server: settings
  and output without state of their own.
* Formats: header syntax, JSON of messages, HTML of block pages, MIME and base64
  coding, file names, log lines.
* Memory order: `result` and `scanFinished` of ClamAV are shared without a lock.  The
  model lets the call see them in the order they are written, which Go does not
  promise.
* The configuration that is read again whenever a REQMOD block page is built
  (`general-functions.go:201`): a changed file would change the page only.
