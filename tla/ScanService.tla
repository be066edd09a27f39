----------------------------- MODULE ScanService -----------------------------
(***************************************************************************)
(* The scanning services: how the vendors' settings are loaded, and what   *)
(* Processing of echo, clhashlookup and clamav does with a whole message   *)
(* (service/).  A call on a preview returns 100 Continue at once; that is  *)
(* part of RequestLifecycle.                                               *)
(*                                                                         *)
(* The actors are the calls, the goroutine that each ClamAV call starts    *)
(* for its result, clamd and the hash lookup service.                      *)
(*                                                                         *)
(* A definition commented "Fault:" is a broken variant of the one below    *)
(* it, which a property is there to refute; no specification uses it.      *)
(***************************************************************************)
EXTENDS ExtensionPolicy, ContentTypes, Integers

CONSTANTS
  Calls,           \* the calls of Processing
  Services,        \* the services of config.toml
  VendorOf,        \* the vendor of each
  Configurations,  \* the sections config.toml may have, by service
  Jobs,            \* the messages that arrive
  SizeOf           \* the length of each payload

Vendors == {"echo", "clhashlookup", "clamav", "unknown"}
Modes == {"REQMOD", "RESPMOD"}

(* original: return_original_if_max_file_size_exceeded; lenient: the       *)
(* environment's <service>.bypass_on_api_error.                            *)
Sections == [reqMode: BOOLEAN, respMode: BOOLEAN, exts: ListsOfSections,
             limit: Int, original: BOOLEAN, reject400: BOOLEAN,
             lenient: BOOLEAN]

(* config.Init ends the process over any other section. *)
Accepted(section) ==
  /\ section.reqMode \/ section.respMode
  /\ section.limit >= 0
  /\ ValidLists(section.exts)

(* connect: the HTTP method is CONNECT; range: the HTTP status is 206. *)
Job == [service: Services, mode: Modes, connect: BOOLEAN, range: BOOLEAN,
        body: Bodies, marks: Marks]

WellFormedJob(j) ==
  /\ WellFormedBody(j.body)
  /\ j.mode = "REQMOD" => ~j.range
  /\ j.mode = "REQMOD" /\ j.connect =>
       j.body.header = "other" /\ j.body.payload = Nothing
  /\ j.mode = "RESPMOD" =>
       j.body.header = "other" /\ ~j.body.base64 /\ ~j.body.key

ASSUME ServicesAssumption == VendorOf \in [Services -> Vendors]
ASSUME ConfigurationsAssumption == Configurations \subseteq [Services -> Sections]
ASSUME JobsAssumption ==
  Jobs \subseteq Job /\ \A j \in Jobs : WellFormedJob(j)
ASSUME SizeAssumption == SizeOf \in [Payloads -> Nat]

NotLoaded == "not loaded"
ASSUME NotLoadedAssumption == NotLoaded \notin Services

Outcomes == {"nomod", "range", "modified", "block", "bad", "timeout", "error"}
Phases == {"new", "begun", "lookup", "send", "wait", "done", "panicked"}
Answers == {"none", "malicious", "other", "failed", "late"}
Statuses == {"none", "FOUND", "OK", "ERROR"}

NoBody == [header |-> "other", compressed |-> FALSE, key |-> FALSE,
           base64 |-> FALSE, exact |-> TRUE, payload |-> Nothing,
           parts |-> <<>>]

VARIABLES
  settings,   \* the sections of config.toml (never changes)
  job,        \* job[c]: the message and the service asked for (never changes)
  loaded,     \* loaded[v]: the service whose section vendor v goes by
  pc,         \* pc[c]: where the call is
  reply,      \* reply[c]: its outcome, and the body the client ends up with
  rewritten,  \* the calls whose http.Request ReqModErrPage has rewritten
  answer,     \* answer[c]: what came of the hash lookup (history)
  scan        \* scan[c]: the channel of ScanStream, result and scanFinished

vars == <<settings, job, loaded, pc, reply, rewritten, answer, scan>>
inputs == <<settings, job>>

Vendor(c) == VendorOf[job[c].service]
Conf(c) == settings[loaded[Vendor(c)]]
Reqmod(c) == job[c].mode = "REQMOD"

Allowed(j, sections) ==
  IF j.mode = "REQMOD" THEN sections[j.service].reqMode
  ELSE sections[j.service].respMode

Init ==
  /\ settings \in {k \in Configurations : \A s \in Services : Accepted(k[s])}
  /\ job \in [Calls -> Jobs]
  /\ \A c \in Calls : Allowed(job[c], settings)
  /\ loaded = [v \in Vendors |-> NotLoaded]
  /\ pc = [c \in Calls |-> "new"]
  /\ reply = [c \in Calls |-> [outcome |-> "none", body |-> NoBody]]
  /\ rewritten = {}
  /\ answer = [c \in Calls |-> "none"]
  /\ scan = [c \in Calls |->
               [chan |-> "none", result |-> "none", finished |-> FALSE]]

-----------------------------------------------------------------------------
(* NewICAPRequest goes over the services in the order of a Go map, and     *)
(* InitServiceConfig reads the section of the first of each vendor, once.  *)
InitServiceConfig(s) ==
  /\ VendorOf[s] # "unknown"
  /\ loaded[VendorOf[s]] = NotLoaded
  /\ \E c \in Calls : pc[c] = "new"
  /\ loaded' = [loaded EXCEPT ![VendorOf[s]] = s]
  /\ UNCHANGED <<inputs, pc, reply, rewritten, answer, scan>>

AllLoaded == \A s \in Services :
  VendorOf[s] # "unknown" => loaded[VendorOf[s]] # NotLoaded

GetService(c) ==
  /\ pc[c] = "new"
  /\ AllLoaded
  /\ Vendor(c) # "unknown"
  /\ pc' = [pc EXCEPT ![c] = "begun"]
  /\ UNCHANGED <<inputs, loaded, reply, rewritten, answer, scan>>

(* A nil service, whose first method call panics. *)
GetNoService(c) ==
  /\ pc[c] = "new"
  /\ AllLoaded
  /\ Vendor(c) = "unknown"
  /\ pc' = [pc EXCEPT ![c] = "panicked"]
  /\ UNCHANGED <<inputs, loaded, reply, rewritten, answer, scan>>

-----------------------------------------------------------------------------
(* How a call returns.                                                     *)

Return(c, outcome, body) ==
  /\ pc' = [pc EXCEPT ![c] = "done"]
  /\ reply' = [reply EXCEPT ![c] = [outcome |-> outcome, body |-> body]]

Leave(c, outcome) ==
  /\ Return(c, outcome, NoBody)
  /\ UNCHANGED rewritten

(* 204: a request comes back from OrgRequest, a response with its file. *)
LeaveUnmodified(c) ==
  /\ Return(c, "nomod", job[c].body)
  /\ UNCHANGED rewritten

(* Fault: the request is rewritten before it is known to be one. *)
BlockRewritten(c) ==
  /\ Return(c, "block", NoBody)
  /\ rewritten' = rewritten \cup {c}

(* A page in the place of a response, or ReqModErrPage on the request. *)
Block(c) ==
  /\ Return(c, "block", NoBody)
  /\ rewritten' = IF Reqmod(c) THEN rewritten \cup {c} ELSE rewritten

(* RequestProcessing has the body in a buffer: copying it cannot fail. *)
File(c) ==
  IF Reqmod(c) THEN GetFileFromRequest(job[c].body) ELSE job[c].body.payload

ReturningHttpMessage(c) ==
  IF Reqmod(c) THEN BodyAfterScanning(job[c].body, File(c)) ELSE job[c].body

-----------------------------------------------------------------------------
(* The part of Processing that the three vendors share.                    *)

(* echo looks at the method of a response, too, and not at its status. *)
Ranged(c) == Vendor(c) # "echo" /\ ~Reqmod(c) /\ job[c].range
Connects(c) == job[c].connect /\ (Reqmod(c) \/ Vendor(c) = "echo")

PartOfRange(c) ==
  /\ pc[c] = "begun"
  /\ Ranged(c)
  /\ Leave(c, "range")
  /\ UNCHANGED <<inputs, loaded, answer, scan>>

Tunnel(c) ==
  /\ pc[c] = "begun"
  /\ ~Ranged(c) /\ Connects(c)
  /\ Return(c, "modified", job[c].body)
  /\ UNCHANGED <<inputs, loaded, rewritten, answer, scan>>

Examined(c) == pc[c] = "begun" /\ ~Ranged(c) /\ ~Connects(c)

Extension(c) == GetMimeExtension(job[c].marks)
ListOf(c) == CheckTheExtension(Extension(c), Conf(c).exts)

Reject(c) ==
  /\ Examined(c)
  /\ ListOf(c) = "reject"
  /\ IF Conf(c).reject400 THEN Leave(c, "bad") ELSE Block(c)
  /\ UNCHANGED <<inputs, loaded, answer, scan>>

Bypass(c) ==
  /\ Examined(c)
  /\ ListOf(c) = "bypass"
  /\ LeaveUnmodified(c)
  /\ UNCHANGED <<inputs, loaded, answer, scan>>

TooLarge(c) == Conf(c).limit # 0 /\ Conf(c).limit < SizeOf[File(c)]

IfMaxFileSizeExc(c) ==
  /\ Examined(c)
  /\ ListOf(c) = "process"
  /\ TooLarge(c)
  /\ IF Conf(c).original THEN LeaveUnmodified(c) ELSE Block(c)
  /\ UNCHANGED <<inputs, loaded, answer, scan>>

Scannable(c) == Examined(c) /\ ListOf(c) = "process" /\ ~TooLarge(c)

-----------------------------------------------------------------------------
(* echo.                                                                   *)

Echo(c) ==
  /\ Scannable(c)
  /\ Vendor(c) = "echo"
  /\ Return(c, "modified", ReturningHttpMessage(c))
  /\ UNCHANGED <<inputs, loaded, rewritten, answer, scan>>

-----------------------------------------------------------------------------
(* clhashlookup: one GET under a deadline.                                 *)

SendFileToScan(c) ==
  /\ Scannable(c)
  /\ Vendor(c) = "clhashlookup"
  /\ pc' = [pc EXCEPT ![c] = "lookup"]
  /\ UNCHANGED <<inputs, loaded, reply, rewritten, answer, scan>>

Heard(c, a) == answer' = [answer EXCEPT ![c] = a]

KnownMalicious(c) ==
  /\ pc[c] = "lookup"
  /\ Heard(c, "malicious")
  /\ Block(c)
  /\ UNCHANGED <<inputs, loaded, scan>>

(* No such key, or nothing that decodes: no error is looked at. *)
NotKnown(c) ==
  /\ pc[c] = "lookup"
  /\ Heard(c, "other")
  /\ LeaveUnmodified(c)
  /\ UNCHANGED <<inputs, loaded, scan>>

LookupFails(c) ==
  /\ pc[c] = "lookup"
  /\ Heard(c, "failed")
  /\ IF Conf(c).lenient THEN LeaveUnmodified(c) ELSE Leave(c, "bad")
  /\ UNCHANGED <<inputs, loaded, scan>>

(* Fault: the request has no deadline. *)
LookupNeverExpires(c) ==
  /\ pc[c] = "lookup"
  /\ FALSE
  /\ UNCHANGED vars

(* "context deadline exceeded". *)
LookupExpires(c) ==
  /\ pc[c] = "lookup"
  /\ Heard(c, "late")
  /\ IF Conf(c).lenient THEN LeaveUnmodified(c) ELSE Leave(c, "timeout")
  /\ UNCHANGED <<inputs, loaded, scan>>

-----------------------------------------------------------------------------
(* clamav.                                                                 *)

ScanStream(c) ==
  /\ Scannable(c)
  /\ Vendor(c) = "clamav"
  /\ pc' = [pc EXCEPT ![c] = "send"]
  /\ UNCHANGED <<inputs, loaded, reply, rewritten, answer, scan>>

ClamdRefuses(c) ==
  /\ pc[c] = "send"
  /\ Leave(c, "error")
  /\ UNCHANGED <<inputs, loaded, answer, scan>>

(* clamd has the file: the result goroutine starts and the call sleeps. *)
ClamdTakes(c) ==
  /\ pc[c] = "send"
  /\ pc' = [pc EXCEPT ![c] = "wait"]
  /\ scan' = [scan EXCEPT ![c].chan = "open"]
  /\ UNCHANGED <<inputs, loaded, reply, rewritten, answer>>

(* The goroutine, which outlives the call: a result, if clamd sends one... *)
ClamdReports(c) ==
  /\ scan[c].chan = "open"
  /\ \E s \in Statuses \ {"none"} :
       scan' = [scan EXCEPT ![c].chan = "reported", ![c].result = s]
  /\ UNCHANGED <<inputs, loaded, pc, reply, rewritten, answer>>

(* ...and the end of the channel, when the connection ends. *)
ClamdHangsUp(c) ==
  /\ scan[c].chan \in {"open", "reported"}
  /\ scan' = [scan EXCEPT ![c].chan = "closed", ![c].finished = TRUE]
  /\ UNCHANGED <<inputs, loaded, pc, reply, rewritten, answer>>

(* Fault: the five seconds are taken for the end of the scan. *)
WakeUpAnyway(c) ==
  /\ pc[c] = "wait"
  /\ IF scan[c].result = "FOUND" THEN Block(c) ELSE LeaveUnmodified(c)
  /\ UNCHANGED <<inputs, loaded, answer, scan>>

(* Fault: clamd's own word is the outcome. *)
WakeUpVerbatim(c) ==
  /\ pc[c] = "wait"
  /\ scan[c].finished
  /\ Leave(c, scan[c].result)
  /\ UNCHANGED <<inputs, loaded, answer, scan>>

(* Five seconds later.  Whatever is not FOUND passes. *)
WakeUp(c) ==
  /\ pc[c] = "wait"
  /\ scan[c].finished
  /\ IF scan[c].result = "FOUND" THEN Block(c) ELSE LeaveUnmodified(c)
  /\ UNCHANGED <<inputs, loaded, answer, scan>>

(* Five seconds later, and no result: err is nil, and err.Error() panics. *)
WakeUpTooEarly(c) ==
  /\ pc[c] = "wait"
  /\ ~scan[c].finished
  /\ pc' = [pc EXCEPT ![c] = "panicked"]
  /\ UNCHANGED <<inputs, loaded, reply, rewritten, answer, scan>>

-----------------------------------------------------------------------------
Step(c) ==
  \/ GetService(c) \/ GetNoService(c)
  \/ PartOfRange(c) \/ Tunnel(c)
  \/ Reject(c) \/ Bypass(c) \/ IfMaxFileSizeExc(c)
  \/ Echo(c) \/ SendFileToScan(c) \/ ScanStream(c)
  \/ LookupExpires(c) \/ WakeUp(c) \/ WakeUpTooEarly(c)
Lookup(c) == KnownMalicious(c) \/ NotKnown(c) \/ LookupFails(c)
Clamd(c) ==
  \/ ClamdRefuses(c) \/ ClamdTakes(c) \/ ClamdReports(c) \/ ClamdHangsUp(c)

Next ==
  \/ \E s \in Services : InitServiceConfig(s)
  \/ \E c \in Calls : Step(c) \/ Lookup(c) \/ Clamd(c)

Spec == Init /\ [][Next]_vars

(* Goroutines are scheduled, and the lookup's deadline and ClamAV's sleep  *)
(* end.  Neither the lookup service nor clamd need ever answer.            *)
FairSpec ==
  /\ Spec
  /\ \A s \in Services : WF_vars(InitServiceConfig(s))
  /\ \A c \in Calls : WF_vars(Step(c))

-----------------------------------------------------------------------------
(* Properties.                                                             *)

(* Every variable has its type. *)
TypeOK ==
  /\ settings \in Configurations
  /\ job \in [Calls -> Jobs]
  /\ loaded \in [Vendors -> Services \cup {NotLoaded}]
  /\ pc \in [Calls -> Phases]
  /\ reply \in [Calls -> [outcome: Outcomes \cup {"none"}, body: Bodies]]
  /\ rewritten \subseteq Calls
  /\ answer \in [Calls -> Answers]
  /\ scan \in [Calls -> [chan: {"none", "open", "reported", "closed"},
                         result: Statuses, finished: BOOLEAN]]

(* The call got as far as its extension. *)
Judged(c) ==
  /\ pc[c] = "done"
  /\ ~Ranged(c) /\ ~Connects(c)

Scanned(c) == answer[c] # "none" \/ scan[c].chan # "none"

(* Whatever the order of the lists, the one that names a file's extension, *)
(* or else the one with the asterisk, decides what becomes of the file     *)
(* (README.md:243-251); and a file to be processed passes unscanned only   *)
(* if it is too large and the section says to return it.                   *)
PolicyRespected ==
  \A c \in Calls : Judged(c) =>
    LET list == Promised(Extension(c), Conf(c).exts)
    IN /\ list = "reject" => ~Scanned(c) /\ reply[c].outcome \in {"bad", "block"}
       /\ list = "bypass" => ~Scanned(c) /\ reply[c].outcome = "nomod"
       /\ list = "process" /\ reply[c].outcome = "nomod" =>
            Scanned(c) \/ (TooLarge(c) /\ Conf(c).original)

(* The outcome of a scan is that of the scanner: what clamd had reported   *)
(* FOUND when the wait was over, or the lookup knew as malicious, is       *)
(* blocked, and nothing else is; an error of the lookup lets a file pass   *)
(* only if the environment says so.                                        *)
VerdictHonoured ==
  \A c \in Calls :
    /\ pc[c] = "done" /\ scan[c].chan # "none" =>
         reply[c].outcome = IF scan[c].result = "FOUND" THEN "block" ELSE "nomod"
    /\ answer[c] # "none" =>
         /\ answer[c] = "malicious" <=> reply[c].outcome = "block"
         /\ answer[c] \in {"failed", "late"} /\ ~Conf(c).lenient =>
              reply[c].outcome \in {"bad", "timeout"}

(* A message that is let through keeps the bytes of its body, provided     *)
(* that echo, which takes every body apart and rebuilds it, gets one that  *)
(* survives this.                                                          *)
PassesUnchanged ==
  \A c \in Calls :
    /\ reply[c].outcome = "nomod" => reply[c].body = job[c].body
    /\ reply[c].outcome = "modified" /\ Canonical(job[c].body) =>
         reply[c].body = job[c].body

(* The choice of an outcome in RequestLifecycle: how a call ends.          *)
Contract == INSTANCE ServiceContract WITH
  reqmod <- {c \in Calls : Reqmod(c)},
  served <- [c \in Calls |->
               CASE pc[c] = "done" -> reply[c].outcome
                 [] pc[c] = "panicked" -> "panicked"
                 [] OTHER -> "pending"]

(* The services keep the contract on which RequestLifecycle relies. *)
KeepsServiceContract == Contract!Spec

(* A call ends, or hangs in ScanStream, which has no deadline: a lookup    *)
(* that is never answered, and a scan that never finishes, do not hold it. *)
Ends ==
  \A c \in Calls : <>(pc[c] \in {"done", "panicked"}) \/ <>[](pc[c] = "send")

-----------------------------------------------------------------------------
(* What the documentation says and the code does not do.                   *)

(* README.md:229-231: reject_extensions "indicates the file types that     *)
(* should be rejected by the service".                                     *)
OwnListDecides ==
  \A c \in Calls :
    Judged(c) /\ Promised(Extension(c), settings[job[c].service].exts) = "reject"
      => reply[c].outcome \in {"bad", "block"}

(* config.toml: clamav's timeout is "the time upto which the server will   *)
(* wait for clamav to scan the results": it waits, and then it answers.    *)
WaitsForClamav ==
  \A c \in Calls : pc[c] = "panicked" => scan[c].chan = "none"
=============================================================================
