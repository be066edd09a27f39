--------------------------- MODULE RequestLifecycle ---------------------------
(***************************************************************************)
(* One ICAP transaction inside ICAPeg, from the parsed request to the      *)
(* reply and to the message its recorder puts on the SQS queue             *)
(* (api/icap-request.go and business/handler.go).                          *)
(*                                                                         *)
(* The actors of a transaction r are the client, the goroutine that        *)
(* processes r (the connection's own one, or a detached one when           *)
(* shadow_service is set) and at most one recorder goroutine per call of   *)
(* ProcessRequest.  All of them share one *http.Request.                   *)
(*                                                                         *)
(* An HTTP body is the set of its parts: 1..size is all of it, 1..offered  *)
(* what the client sends before it waits for 100 Continue.                 *)
(*                                                                         *)
(* A definition commented "Fault:" is a broken variant of the one below    *)
(* it, which a property is there to refute; no specification uses it.      *)
(***************************************************************************)
EXTENDS Naturals, FiniteSets

CONSTANTS
  Reqs,       \* the ICAP transactions
  MaxBody,    \* bound on the number of parts of a body
  MaxAttempts,\* how often the AWS SDK puts one SendMessage on the wire
  Inputs      \* the shapes of transaction that arrive

Parts == 1..MaxBody

(* What a client can send to a service. preview: the ICAP Preview header.  *)
(* multipart: the body is multipart/form-data, its parts are form parts.   *)
(* whole: no TCP segment ends between the "0" line that ends the preview   *)
(* and its CRLF (icap/chunked.go leaves that CRLF in the stream).          *)
Input ==
  [method: {"OPTIONS", "REQMOD", "RESPMOD"},
   service: {"absent", "barred", "plain", "shadow"},
   allow204: BOOLEAN,
   preview: BOOLEAN,
   size: 0..MaxBody,
   offered: 0..MaxBody,
   whole: BOOLEAN,
   multipart: BOOLEAN]

WellFormed(i) ==
  /\ i.offered <= i.size
  /\ i.preview \/ i.offered = i.size
  /\ i.size = 0 => ~i.preview

ASSUME MaxBodyAssumption == MaxBody \in Nat
ASSUME MaxAttemptsAssumption == MaxAttempts \in Nat
ASSUME InputsAssumption ==
  /\ Inputs \subseteq Input
  /\ \A i \in Inputs : WellFormed(i)

Passes == {"first", "flush"}     \* the two call sites of ProcessRequest
Verdicts == {"reject", "observe", "ignore", "record", "wildcard"}
Outcomes == {"nomod", "range", "modified", "block", "bad", "timeout", "error"}
Phases == {"new", "read", "drained", "policy", "scan", "continue", "rest",
           "reply", "end", "panic"}

Replies == [status: {200, 204, 400, 404, 405, 408, 500},
            form: {"none", "original", "modified", "block"},
            body: SUBSET Parts]
NoReply == [status |-> 0, form |-> "none", body |-> {}]
Bare(code) == [status |-> code, form |-> "none", body |-> {}]

RecPhases == {"idle", "launched", "headers", "storing", "sending", "sent", "dropped"}
Targets == {"client", "rewritten"}
(* attempts: the requests the SDK has made for the enqueue under way.      *)
(* copies: the messages SQS accepted from this recorder (history).         *)
Recorders == [phase: RecPhases, body: SUBSET Parts, files: SUBSET Parts,
              wildcard: BOOLEAN, target: Targets,
              attempts: 0..MaxAttempts, copies: Nat]
IdleRecorder == [phase |-> "idle", body |-> {}, files |-> {},
                 wildcard |-> FALSE, target |-> "client",
                 attempts |-> 0, copies |-> 0]
ReqStates == [applied: BOOLEAN, pending: BOOLEAN, partial: BOOLEAN,
              body: SUBSET Parts, orgBody: SUBSET Parts,
              target: Targets, outcome: Outcomes \cup {"none"}]
LinkStates == [gone: BOOLEAN, sent: BOOLEAN, cut: BOOLEAN]
OutStates == [calls: Nat, reply: Replies \cup {NoReply},
              continued: BOOLEAN, flushed: BOOLEAN]
TallyStates == [observed: Nat, rejected: BOOLEAN]
(* Messages of one recorder are told apart by copy, so that the queue, a   *)
(* set, counts them.                                                       *)
Messages == [req: Reqs, pass: Passes, body: SUBSET Parts, files: SUBSET Parts,
             wildcard: BOOLEAN, target: Targets, copy: Nat]

VARIABLES
  input,    \* input[r]: what the client sends (never changes)
  pc,       \* pc[r]: where the goroutine processing r is
  req,      \* req[r]: the ICAPRequest struct and the http.Request it holds
  link,     \* link[r]: the client's end of the connection
  out,      \* out[r]: the respWriter of r
  tally,    \* tally[r]: what the business logic did with r (history)
  rec,      \* rec[<<r, pass>>]: the recorder goroutine that call started
  queue,    \* the messages SQS accepted
  up        \* FALSE once the Go runtime has killed the process

vars == <<input, pc, req, link, out, tally, rec, queue, up>>

Full(r) == 1..input[r].size
Preview(r) == 1..input[r].offered
Partial(r) == input[r].offered < input[r].size
Shadow(r) == input[r].service = "shadow" /\ input[r].method # "OPTIONS"
Reqmod(r) == input[r].method = "REQMOD"

Init ==
  /\ input \in [Reqs -> Inputs]
  /\ pc = [r \in Reqs |-> "new"]
  /\ req = [r \in Reqs |->
              [applied |-> FALSE, pending |-> FALSE, partial |-> FALSE,
               body |-> {}, orgBody |-> {}, target |-> "client",
               outcome |-> "none"]]
  /\ link = [r \in Reqs |-> [gone |-> FALSE, sent |-> FALSE, cut |-> FALSE]]
  /\ out = [r \in Reqs |-> [calls |-> 0, reply |-> NoReply,
                            continued |-> FALSE, flushed |-> FALSE]]
  /\ tally = [r \in Reqs |-> [observed |-> 0, rejected |-> FALSE]]
  /\ rec = [k \in Reqs \X Passes |-> IdleRecorder]
  /\ queue = {}
  /\ up = TRUE

-----------------------------------------------------------------------------
(* The response writer.                                                    *)

(* Fault: WriteHeader without its wroteHeader check. *)
WrittenAgain(o, reply) ==
  [calls |-> o.calls + 1, reply |-> reply,
   continued |-> o.continued, flushed |-> o.flushed]

(* respWriter.WriteHeader: only the first call reaches the wire. *)
Written(o, reply) ==
  [calls |-> o.calls + 1,
   reply |-> IF o.reply = NoReply THEN reply ELSE o.reply,
   continued |-> o.continued, flushed |-> o.flushed]

WriteHeader(r, reply) == out' = [out EXCEPT ![r] = Written(@, reply)]

Goto(r, phase) == pc' = [pc EXCEPT ![r] = phase]

HandlerReturned(r) == IF Shadow(r) THEN pc[r] # "new" ELSE pc[r] = "end"

(* finishRequest: a handler that wrote no header answers 200, null-body. *)
Finish(r) ==
  /\ HandlerReturned(r)
  /\ ~out[r].flushed
  /\ out' = [out EXCEPT ![r] =
               [(IF @.reply = NoReply THEN Written(@, Bare(200)) ELSE @)
                  EXCEPT !.flushed = TRUE]]
  /\ UNCHANGED <<input, pc, req, link, tally, rec, queue, up>>

-----------------------------------------------------------------------------
(* RequestInitialization.                                                  *)

(* What reading the body the client offered yields.  A preview is already  *)
(* in memory; without one the body comes off the connection, and the error *)
(* of a connection that dies under the read is discarded.                  *)
Readable(r) ==
  IF input[r].preview THEN {Preview(r)}
  ELSE IF link[r].gone THEN {1..n : n \in 0..input[r].size}
  ELSE {Full(r)}

Refuse(r) ==
  /\ pc[r] = "new"
  /\ \/ /\ input[r].service = "absent"
        /\ WriteHeader(r, Bare(404))
     \/ /\ input[r].service = "barred"
        /\ input[r].method # "OPTIONS"
        /\ WriteHeader(r, Bare(405))
  /\ Goto(r, "end")
  /\ UNCHANGED <<input, req, link, tally, rec, queue, up>>

(* shadowService answers before any processing; `go RequestProcessing`     *)
(* then starts.  The 200 reply reads the body to its end.                  *)
ShadowAnswer(r) ==
  /\ pc[r] = "new"
  /\ Shadow(r)
  /\ IF input[r].allow204
     THEN /\ WriteHeader(r, Bare(204))
          /\ Goto(r, "read")
     ELSE /\ \E b \in Readable(r) :
               WriteHeader(r, [status |-> 200, form |-> "original", body |-> b])
          /\ Goto(r, "drained")
  /\ UNCHANGED <<input, req, link, tally, rec, queue, up>>

Admit(r) ==
  /\ pc[r] = "new"
  /\ input[r].service = "plain" \/ input[r].method = "OPTIONS"
  /\ input[r].service # "absent"
  /\ Goto(r, "read")
  /\ UNCHANGED <<input, req, link, out, tally, rec, queue, up>>

-----------------------------------------------------------------------------
(* RequestProcessing.                                                      *)

OptionsMode(r) ==
  /\ pc[r] = "read"
  /\ input[r].method = "OPTIONS"
  /\ WriteHeader(r, Bare(200))
  /\ Goto(r, "end")
  /\ UNCHANGED <<input, req, link, tally, rec, queue, up>>

(* The detached goroutine of a shadowed transaction finds its body drained *)
(* by the 200 reply, or, after a 204, competes for it with the connection, *)
(* which already reads its next request from the same bufio.Reader.        *)
Obtainable(r) ==
  CASE pc[r] = "drained" -> {{}}
    [] pc[r] = "read" /\ Shadow(r) /\ ~input[r].preview -> SUBSET Full(r)
    [] OTHER -> Readable(r)

ReadBody(r) ==
  /\ pc[r] \in {"read", "drained"}
  /\ input[r].method # "OPTIONS"
  /\ \E b \in Obtainable(r) :
       /\ req' = [req EXCEPT ![r].body = b, ![r].orgBody = b,
                             ![r].partial = Partial(r)]
       /\ link' = [link EXCEPT ![r].cut = b # Preview(r)]
  /\ Goto(r, "policy")
  /\ UNCHANGED <<input, out, tally, rec, queue, up>>

-----------------------------------------------------------------------------
(* Business logic: ProcessRequest and its two call sites in RespAndReqMods. *)

(* Fault: the recorder starts before the identity and tenant are validated. *)
RecordableUnlessIgnored(v) == v \notin {"observe", "ignore"}

Recordable(v) == v \in {"record", "wildcard"}

Launched(r, v) ==
  [phase |-> "launched", body |-> req[r].body, files |-> {},
   wildcard |-> v = "wildcard", target |-> "client",
   attempts |-> 0, copies |-> 0]

(* Fault: bodyPartial is ignored, so that a preview is recorded. *)
ProcessRequestEager(r, v, pass, bodyPartial) ==
  /\ tally' = [tally EXCEPT
                 ![r].observed = @ + (IF v = "observe" THEN 1 ELSE 0),
                 ![r].rejected = @ \/ v = "reject"]
  /\ rec' = IF Recordable(v) THEN [rec EXCEPT ![<<r, pass>>] = Launched(r, v)]
            ELSE rec

(* Verdict v of one ProcessRequest call: identity and tenant refused       *)
(* ("reject"), no catalogue row ("observe"), a row with another flow or    *)
(* action ("ignore"), or a row to record.  bodyPartial defers recording.   *)
ProcessRequest(r, v, pass, bodyPartial) ==
  /\ tally' = [tally EXCEPT
                 ![r].observed = @ + (IF v = "observe" THEN 1 ELSE 0),
                 ![r].rejected = @ \/ v = "reject"]
  /\ rec' = IF Recordable(v) /\ ~bodyPartial
            THEN [rec EXCEPT ![<<r, pass>>] = Launched(r, v)]
            ELSE rec

(* Fault: the missing return after a 400 verdict. *)
ProceedAfterReject(r, v) ==
  /\ IF v = "reject" THEN WriteHeader(r, Bare(400)) ELSE UNCHANGED out
  /\ Goto(r, "scan")

(* A 400 verdict answers and leaves; every other one goes on to the service. *)
Proceed(r, v) ==
  IF v = "reject"
  THEN WriteHeader(r, Bare(400)) /\ Goto(r, "end")
  ELSE UNCHANGED out /\ Goto(r, "scan")

(* Fault: a partial body defers every verdict, not only a recording. *)
FirstPassDefersAll(r) ==
  /\ pc[r] = "policy"
  /\ Reqmod(r)
  /\ ~req[r].applied
  /\ \E v \in Verdicts :
       /\ ProcessRequest(r, v, "first", req[r].partial)
       /\ req' = [req EXCEPT ![r].applied = TRUE, ![r].pending = req[r].partial]
       /\ Proceed(r, v)
  /\ UNCHANGED <<input, link, queue, up>>

FirstPass(r) ==
  /\ pc[r] = "policy"
  /\ Reqmod(r)
  /\ ~req[r].applied
  /\ \E v \in Verdicts :
       /\ ProcessRequest(r, v, "first", req[r].partial)
       /\ req' = [req EXCEPT ![r].applied = TRUE,
                             ![r].pending = Recordable(v) /\ req[r].partial]
       /\ Proceed(r, v)
  /\ UNCHANGED <<input, link, queue, up>>

(* Fault: pendingRecording is not reset. *)
FlushPassStaysPending(r) ==
  /\ pc[r] = "policy"
  /\ req[r].applied /\ req[r].pending /\ ~req[r].partial
  /\ \E v \in Verdicts : ProcessRequest(r, v, "flush", FALSE) /\ Proceed(r, v)
  /\ UNCHANGED <<input, req, link, queue, up>>

(* The deferred recording: identity, tenant and catalogue are consulted anew. *)
FlushPass(r) ==
  /\ pc[r] = "policy"
  /\ req[r].applied /\ req[r].pending /\ ~req[r].partial
  /\ \E v \in Verdicts :
       /\ ProcessRequest(r, v, "flush", FALSE)
       /\ req' = [req EXCEPT ![r].pending = FALSE]
       /\ Proceed(r, v)
  /\ UNCHANGED <<input, link, queue, up>>

SkipPolicy(r) ==
  /\ pc[r] = "policy"
  /\ IF req[r].applied THEN ~(req[r].pending /\ ~req[r].partial)
                       ELSE ~Reqmod(r)
  /\ req' = [req EXCEPT ![r].applied = TRUE]
  /\ Goto(r, "scan")
  /\ UNCHANGED <<input, link, out, tally, rec, queue, up>>

-----------------------------------------------------------------------------
(* The service and the reply.                                              *)

(* Every service answers 100 Continue to a partial body.  A shadowed       *)
(* transaction stops there: it was already answered.                       *)
ScanPartial(r) ==
  /\ pc[r] = "scan"
  /\ req[r].partial
  /\ Goto(r, IF Shadow(r) THEN "end" ELSE "continue")
  /\ UNCHANGED <<input, req, link, out, tally, rec, queue, up>>

(* Outcomes whose service rewrites headers of the shared http.Request. *)
WritesHeaders(r, o) == Reqmod(r) /\ o \in {"nomod", "modified", "block"}

Possible(r) == IF Reqmod(r) THEN Outcomes \ {"range"} ELSE Outcomes

Scan(r) ==
  /\ pc[r] = "scan"
  /\ ~req[r].partial
  /\ \E o \in Possible(r) :
       req' = [req EXCEPT ![r].outcome = o,
                          ![r].target = IF o = "block" /\ Reqmod(r)
                                        THEN "rewritten" ELSE @]
  /\ Goto(r, IF Shadow(r) THEN "end" ELSE "reply")
  /\ UNCHANGED <<input, link, out, tally, rec, queue, up>>

(* A service that panics: recovered, and only logged, by conn.serve;       *)
(* nothing recovers the detached goroutine, so there the process dies.     *)
ScanPanics(r) ==
  /\ pc[r] = "scan"
  /\ ~req[r].partial
  /\ Goto(r, "panic")
  /\ up' = ~Shadow(r)
  /\ UNCHANGED <<input, req, link, out, tally, rec, queue>>

(* The service, or the 200 that replaces a 204, writes the header map      *)
(* while a recorder ranges over it: the runtime may notice ("concurrent    *)
(* map iteration and map write") and abort the process.                    *)
HeaderRace(r) ==
  /\ \/ /\ pc[r] = "scan" /\ ~req[r].partial
        /\ \E o \in Possible(r) : WritesHeaders(r, o)
     \/ /\ pc[r] = "reply" /\ req[r].outcome = "nomod"
        /\ Reqmod(r) /\ ~input[r].allow204
  /\ \E p \in Passes : rec[<<r, p>>].phase = "headers"
  /\ up' = FALSE
  /\ UNCHANGED <<input, pc, req, link, out, tally, rec, queue>>

(* Fault: 100 Continue is sent through the header writer. *)
ContinueAsHeader(r) ==
  /\ pc[r] = "continue"
  /\ WriteHeader(r, Bare(100))
  /\ Goto(r, "rest")
  /\ UNCHANGED <<input, req, link, tally, rec, queue, up>>

(* Fault: 100 Continue stays in the buffered writer. *)
ContinueUnflushed(r) ==
  /\ pc[r] = "continue"
  /\ Goto(r, "rest")
  /\ UNCHANGED <<input, req, link, out, tally, rec, queue, up>>

(* preview(): the first read of the rest writes 100 Continue and flushes. *)
Continue(r) ==
  /\ pc[r] = "continue"
  /\ out' = [out EXCEPT ![r].continued = TRUE]
  /\ Goto(r, "rest")
  /\ UNCHANGED <<input, req, link, tally, rec, queue, up>>

(* The rest arrives, unless the client has left, or the CRLF that ended    *)
(* the preview is still in the stream and is taken for an empty last chunk.*)
Rest(r) ==
  IF ~input[r].whole THEN {Preview(r)}
  ELSE IF link[r].gone THEN {1..n : n \in input[r].offered..input[r].size}
  ELSE {Full(r)}

(* Fault: the original body is not extended with the rest. *)
ReadRestKeepsOriginal(r) ==
  /\ pc[r] = "rest"
  /\ link[r].sent \/ link[r].gone \/ ~input[r].whole
  /\ \E b \in Rest(r) :
       /\ req' = [req EXCEPT ![r].body = b, ![r].partial = FALSE]
       /\ link' = [link EXCEPT ![r].cut = @ \/ (link[r].gone /\ b # Full(r))]
  /\ Goto(r, "policy")
  /\ UNCHANGED <<input, out, tally, rec, queue, up>>

(* Fault: the http.Request keeps the preview as its body. *)
ReadRestKeepsPreview(r) ==
  /\ pc[r] = "rest"
  /\ link[r].sent \/ link[r].gone \/ ~input[r].whole
  /\ \E b \in Rest(r) :
       /\ req' = [req EXCEPT ![r].orgBody = b, ![r].partial = FALSE]
       /\ link' = [link EXCEPT ![r].cut = @ \/ (link[r].gone /\ b # Full(r))]
  /\ Goto(r, "policy")
  /\ UNCHANGED <<input, out, tally, rec, queue, up>>

ReadRest(r) ==
  /\ pc[r] = "rest"
  /\ link[r].sent \/ link[r].gone \/ ~input[r].whole
  /\ \E b \in Rest(r) :
       /\ req' = [req EXCEPT ![r].body = b, ![r].orgBody = b,
                             ![r].partial = FALSE]
       /\ link' = [link EXCEPT ![r].cut = @ \/ (link[r].gone /\ b # Full(r))]
  /\ Goto(r, "policy")
  /\ UNCHANGED <<input, out, tally, rec, queue, up>>

(* 204 when the client allows it, else the original message as a 200. *)
NoModification(r) ==
  IF input[r].allow204 THEN Bare(204)
  ELSE [status |-> 200, form |-> "original",
        body |-> IF Reqmod(r) THEN req[r].orgBody ELSE req[r].body]

(* "range" hands back an HttpMsg that WriteHeader cannot encapsulate. *)
ReplyFor(r) ==
  CASE req[r].outcome = "nomod" -> NoModification(r)
    [] req[r].outcome = "range" -> Bare(IF input[r].allow204 THEN 204 ELSE 200)
    [] req[r].outcome = "modified" ->
         [status |-> 200, form |-> "modified", body |-> req[r].body]
    [] req[r].outcome = "block" ->
         [status |-> 200, form |-> "block", body |-> {}]
    [] req[r].outcome = "bad" -> Bare(400)
    [] req[r].outcome = "timeout" -> Bare(408)
    [] OTHER -> Bare(500)

Reply(r) ==
  /\ pc[r] = "reply"
  /\ WriteHeader(r, ReplyFor(r))
  /\ Goto(r, "end")
  /\ UNCHANGED <<input, req, link, tally, rec, queue, up>>

-----------------------------------------------------------------------------
(* processRecordAction, in its own goroutine k = <<r, pass>>.              *)

(* Without an SQS client nothing is recorded. *)
SkipRecording(k) ==
  /\ rec[k].phase = "launched"
  /\ rec' = [rec EXCEPT ![k].phase = "dropped"]
  /\ UNCHANGED <<input, pc, req, link, out, tally, queue, up>>

(* Reads URL and Method of the http.Request the service works on. *)
ReadTarget(k) ==
  /\ rec[k].phase = "launched"
  /\ rec' = [rec EXCEPT ![k].phase = "headers",
                        ![k].target = req[k[1]].target]
  /\ UNCHANGED <<input, pc, req, link, out, tally, queue, up>>

(* The sets of form parts that may get stored in S3: all of them, some (a   *)
(* form field or a failed upload is skipped), or none at all.              *)
Uploads(k) ==
  IF input[k[1]].multipart /\ ~rec[k].wildcard THEN SUBSET rec[k].body ELSE {{}}

(* Ends the range over the header map. *)
ReadHeaders(k) ==
  /\ rec[k].phase = "headers"
  /\ rec' = [rec EXCEPT ![k].phase = "storing"]
  /\ UNCHANGED <<input, pc, req, link, out, tally, queue, up>>

(* Stores the attachments and builds the message.  A wildcard row records  *)
(* metadata only, and attachments replace the raw body.                    *)
StoreFiles(k) ==
  /\ rec[k].phase = "storing"
  /\ \E stored \in Uploads(k) :
       rec' = [rec EXCEPT ![k].phase = "sending",
                          ![k].body = IF rec[k].wildcard \/ stored # {}
                                      THEN {} ELSE @,
                          ![k].files = stored,
                          ![k].attempts = 0]
  /\ UNCHANGED <<input, pc, req, link, out, tally, queue, up>>

Message(k, n) ==
  [req |-> k[1], pass |-> k[2], body |-> rec[k].body, files |-> rec[k].files,
   wildcard |-> rec[k].wildcard, target |-> rec[k].target, copy |-> n]

(* SQS accepts one more copy of the message.  Bytes that are still on      *)
(* their way when the deadline ends the enqueue count as accepted before   *)
(* it: nobody can tell the two orders apart.                               *)
Accept(k) == queue' = queue \cup {Message(k, rec[k].copies + 1)}

(* One attempt of the SDK that SQS accepts and confirms. *)
Enqueue(k) ==
  /\ rec[k].phase = "sending"
  /\ rec[k].attempts < MaxAttempts
  /\ Accept(k)
  /\ rec' = [rec EXCEPT ![k].phase = "sent", ![k].attempts = @ + 1,
                        ![k].copies = @ + 1]
  /\ UNCHANGED <<input, pc, req, link, out, tally, up>>

(* An attempt that ends without an answer, whether or not SQS accepted the *)
(* message: the SDK's default retryer may make another.                    *)
AttemptFails(k) ==
  /\ rec[k].phase = "sending"
  /\ rec[k].attempts < MaxAttempts
  /\ \/ /\ Accept(k)
        /\ rec' = [rec EXCEPT ![k].attempts = @ + 1, ![k].copies = @ + 1]
     \/ /\ rec' = [rec EXCEPT ![k].attempts = @ + 1]
        /\ UNCHANGED queue
  /\ UNCHANGED <<input, pc, req, link, out, tally, up>>

(* Fault: an enqueue that failed starts over. *)
EnqueueFailsRetries(k) ==
  /\ rec[k].phase = "sending"
  /\ rec' = [rec EXCEPT ![k].phase = "launched"]
  /\ UNCHANGED <<input, pc, req, link, out, tally, queue, up>>

(* Message too large, the last attempt failed, or the 5 s deadline of them *)
(* all is over: logged, not retried.                                       *)
EnqueueFails(k) ==
  /\ rec[k].phase = "sending"
  /\ rec' = [rec EXCEPT ![k].phase = "dropped"]
  /\ UNCHANGED <<input, pc, req, link, out, tally, queue, up>>

-----------------------------------------------------------------------------
(* The client.                                                             *)

ClientSendsRest(r) ==
  /\ out[r].continued
  /\ ~link[r].sent /\ ~link[r].gone
  /\ link' = [link EXCEPT ![r].sent = TRUE]
  /\ UNCHANGED <<input, pc, req, out, tally, rec, queue, up>>

ClientLeaves(r) ==
  /\ ~out[r].flushed
  /\ ~link[r].gone
  /\ link' = [link EXCEPT ![r].gone = TRUE]
  /\ UNCHANGED <<input, pc, req, out, tally, rec, queue, up>>

-----------------------------------------------------------------------------
Process(r) ==
  \/ Refuse(r) \/ ShadowAnswer(r) \/ Admit(r)
  \/ OptionsMode(r) \/ ReadBody(r)
  \/ FirstPass(r) \/ FlushPass(r) \/ SkipPolicy(r)
  \/ ScanPartial(r) \/ Scan(r) \/ ScanPanics(r)
  \/ Continue(r) \/ ReadRest(r) \/ Reply(r)

Record(k) ==
  \/ SkipRecording(k) \/ ReadTarget(k) \/ ReadHeaders(k) \/ StoreFiles(k)
  \/ Enqueue(k) \/ AttemptFails(k) \/ EnqueueFails(k)

(* Nothing left to do: every goroutine has ended, or the process is dead. *)
Quiet ==
  /\ \/ ~up
     \/ /\ \A r \in Reqs : pc[r] = "panic" \/ (pc[r] = "end" /\ out[r].flushed)
        /\ \A k \in Reqs \X Passes : rec[k].phase \in {"idle", "sent", "dropped"}
  /\ UNCHANGED vars

Next ==
  \/ /\ up
     /\ \/ \E r \in Reqs :
             \/ Process(r) \/ Finish(r) \/ HeaderRace(r)
             \/ ClientSendsRest(r) \/ ClientLeaves(r)
        \/ \E k \in Reqs \X Passes : Record(k)
  \/ Quiet

(* The goroutine of r is in a call without a deadline: it reads what the   *)
(* client has yet to send (the server sets no read deadline), it is in     *)
(* ProcessRequest, where an LDAP search has none, or in a service, where   *)
(* sending to clamd has none.                                              *)
Waits(r) ==
  \/ pc[r] = "new" /\ Shadow(r) /\ ~input[r].allow204 /\ ~input[r].preview
  \/ pc[r] = "read" /\ input[r].method # "OPTIONS" /\ ~input[r].preview
  \/ /\ pc[r] = "policy" /\ Reqmod(r)
     /\ req[r].applied => req[r].pending /\ ~req[r].partial
  \/ pc[r] = "scan" /\ ~req[r].partial
  \/ pc[r] = "rest" /\ out[r].continued /\ ~link[r].sent /\ ~link[r].gone

(* Recorder k is storing attachments: PutObject has neither a context nor  *)
(* a deadline.                                                             *)
Stores(k) ==
  rec[k].phase = "storing" /\ input[k[1]].multipart /\ ~rec[k].wildcard

(* Goroutines are scheduled fairly; what they wait for need never come. *)
Fairness ==
  /\ \A r \in Reqs : /\ WF_vars(up /\ ~Waits(r) /\ Process(r))
                     /\ WF_vars(up /\ Finish(r))
  /\ \A k \in Reqs \X Passes : WF_vars(up /\ ~Stores(k) /\ Record(k))

Spec == Init /\ [][Next]_vars
FairSpec == Spec /\ Fairness

-----------------------------------------------------------------------------
(* Every variable has its type. *)
TypeOK ==
  /\ input \in [Reqs -> Inputs]
  /\ pc \in [Reqs -> Phases]
  /\ req \in [Reqs -> ReqStates]
  /\ link \in [Reqs -> LinkStates]
  /\ out \in [Reqs -> OutStates]
  /\ tally \in [Reqs -> TallyStates]
  /\ rec \in [Reqs \X Passes -> Recorders]
  /\ queue \subseteq Messages
  /\ up \in BOOLEAN

(* A transaction whose body reached the server undisturbed. *)
Sound(r) == input[r].whole /\ ~link[r].cut /\ ~Shadow(r)

Recorded(r) == {p \in Passes : rec[<<r, p>>].phase # "idle"}

(* A transaction is accounted for at most once over both passes: recorded  *)
(* once, or counted once as a candidate domain, never both (the purpose of *)
(* businessLogicApplied and pendingRecording in RespAndReqMods).           *)
AccountedOnce ==
  \A r \in Reqs : Cardinality(Recorded(r)) + tally[r].observed <= 1

(* A message on the queue carries the whole body the client meant to send, *)
(* never an ICAP preview of it: recording is deferred while the body is    *)
(* partial.  Excepted are wildcard rows (metadata only), messages whose    *)
(* body attachments replace, a client that left in mid-body, a preview     *)
(* whose end was torn across segments, and shadowed transactions, whose    *)
(* body may be drained before it is copied.                                *)
RecordedBodyWhole ==
  \A m \in queue :
    (Sound(m.req) /\ ~m.wildcard /\ m.files = {}) => m.body = Full(m.req)

(* A transaction refused with 400 by the business logic, in either pass,   *)
(* is never recorded, not even by a recorder an earlier pass started.      *)
RejectedNeverRecorded ==
  \A r \in Reqs : tally[r].rejected => Recorded(r) = {}

(* RespAndReqMods writes exactly one header by the time it returns, on     *)
(* every path through both passes; finishRequest never invents a 200.      *)
OneHeader ==
  \A r \in Reqs : ~Shadow(r) =>
    /\ out[r].calls <= 1
    /\ pc[r] = "end" => out[r].calls = 1

(* No recording is still waiting for the full body when the transaction    *)
(* has been answered: the deferral of the first pass is always resolved.   *)
DeferralResolved ==
  \A r \in Reqs :
    (pc[r] = "end" /\ ~Shadow(r)) => ~req[r].pending

(* A 206 that a service passes on for a client that does not allow 204:    *)
(* the HttpMsg it hands back is encapsulated by no branch of WriteHeader,  *)
(* and the client gets a 200 with nothing in it.                           *)
LosesRange(r) == req[r].outcome = "range" /\ ~input[r].allow204

(* What a service leaves unmodified the client gets back as it was: as a   *)
(* 204 if it allows one, else whole, also when it came in two pieces       *)
(* around a 100 Continue.  The one exception is LosesRange, against        *)
(* info/EXTRACTED-RFC.md:221 ("MUST return the entire message back").      *)
OriginalReturnedWhole ==
  \A r \in Reqs :
    (/\ Sound(r) /\ pc[r] = "end"
     /\ req[r].outcome \in {"nomod", "range"} /\ ~LosesRange(r))
      => out[r].reply = IF input[r].allow204 THEN Bare(204)
                        ELSE [status |-> 200, form |-> "original", body |-> Full(r)]

(* A reply, once written, is final: neither a detached goroutine nor a     *)
(* second pass replaces it, and no 100 Continue follows it.                *)
ReplyIsFinal ==
  [][\A r \in Reqs : out[r].reply # NoReply =>
       /\ out'[r].reply = out[r].reply
       /\ out'[r].continued = out[r].continued]_vars

(* Every transaction is answered, unless its service panics, its client    *)
(* leaves, the process dies, or one call without a deadline holds it for   *)
(* ever: in particular 100 Continue reaches a client that waits for it.    *)
Answered ==
  \A r \in Reqs :
    \/ <>(out[r].flushed \/ pc[r] = "panic" \/ link[r].gone \/ ~up)
    \/ <>[]Waits(r)

(* Every recorder that starts reaches SQS or gives up, unless S3 holds it  *)
(* for ever.                                                               *)
RecorderEnds ==
  \A k \in Reqs \X Passes :
    rec[k].phase = "launched" ~>
      (rec[k].phase \in {"sent", "dropped"} \/ ~up \/ []Stores(k))

-----------------------------------------------------------------------------
(* The inductive invariant behind these properties.                        *)

NoRecorder(r) == \A p \in Passes : rec[<<r, p>>].phase = "idle"

(* What the two flags of ICAPRequest stand for. *)
PolicyInv(r) ==
  /\ pc[r] \in {"new", "read", "drained"} => ~req[r].applied
  /\ ~req[r].applied => ~req[r].pending
  /\ ~req[r].applied \/ req[r].pending =>
       tally[r].observed = 0 /\ ~tally[r].rejected /\ NoRecorder(r)
  /\ req[r].pending =>
       \/ pc[r] \in {"continue", "rest"}
       \/ pc[r] = "scan" /\ req[r].partial
       \/ pc[r] = "policy" /\ ~req[r].partial
       \/ pc[r] = "end" /\ Shadow(r)
  /\ req[r].partial => NoRecorder(r)
  /\ pc[r] \in {"continue", "rest"} => req[r].partial
  /\ tally[r].observed <= 1
  /\ tally[r].observed # 0 \/ tally[r].rejected => NoRecorder(r)
  /\ \E p \in Passes : \A q \in Passes \ {p} : rec[<<r, q>>].phase = "idle"

(* Once the body is no longer partial it is whole, and so is a recorder's. *)
BodyInv(r) ==
  Sound(r) =>
    /\ (\/ pc[r] \in {"policy", "scan", "reply"} /\ ~req[r].partial
        \/ pc[r] = "end" /\ req[r].outcome # "none") =>
         req[r].body = Full(r) /\ req[r].orgBody = Full(r)
    /\ \A p \in Passes :
         /\ rec[<<r, p>>].phase \in {"launched", "headers", "storing"} =>
              rec[<<r, p>>].body = Full(r)
         /\ (\/ rec[<<r, p>>].phase \in {"sending", "sent"}
             \/ rec[<<r, p>>].phase = "dropped" /\ rec[<<r, p>>].copies > 0) =>
              /\ rec[<<r, p>>].files \subseteq Full(r)
              /\ rec[<<r, p>>].files # {} => input[r].multipart
              /\ rec[<<r, p>>].body =
                   IF rec[<<r, p>>].wildcard \/ rec[<<r, p>>].files # {}
                   THEN {} ELSE Full(r)

(* The header is written when the handler ends, and not before. *)
ReplyInv(r) ==
  /\ out[r].calls = 0 <=> out[r].reply = NoReply
  /\ ~Shadow(r) => out[r].calls = (IF pc[r] = "end" THEN 1 ELSE 0)
  /\ out[r].flushed /\ ~Shadow(r) => pc[r] = "end"
  /\ pc[r] \in {"continue", "rest", "reply"} => ~Shadow(r)
  /\ pc[r] = "reply" => ~req[r].partial
  /\ pc[r] \in {"new", "read", "drained", "policy", "scan", "continue", "rest"}
       => req[r].outcome = "none"
  /\ ~Shadow(r) /\ pc[r] = "end" /\ req[r].outcome # "none" =>
       out[r].reply = ReplyFor(r) /\ ~req[r].partial

(* A queued message is what its recorder built, and SQS has accepted no    *)
(* more of them than the SDK made attempts.                                *)
QueueInv ==
  /\ \A m \in queue :
       LET k == <<m.req, m.pass>>
       IN  m.copy \in 1..rec[k].copies /\ m = Message(k, m.copy)
  /\ \A k \in Reqs \X Passes :
       /\ rec[k].copies <= rec[k].attempts
       /\ rec[k].copies > 0 => rec[k].phase \in {"sending", "sent", "dropped"}

(* Inductive, and what every safety property above follows from: the flags, *)
(* the body, the reply and the queue agree with where each goroutine is.   *)
IInv ==
  /\ \A r \in Reqs : PolicyInv(r) /\ BodyInv(r) /\ ReplyInv(r)
  /\ QueueInv

-----------------------------------------------------------------------------
(* The promise this implements.  Shadowed transactions, torn previews and  *)
(* bodies cut short by the client are outside it.                          *)

(* What may stand for the body of r in a recording: all of it or, as         *)
(* metadata, nothing; of a multipart form, whichever parts could be stored.  *)
Owed(r) == IF input[r].multipart THEN SUBSET Full(r) ELSE {Full(r), {}}

(* All there is to a message but its body. *)
Form(m) == [pass |-> m.pass, files |-> m.files, wildcard |-> m.wildcard,
            target |-> m.target]
Entry(m) == [req |-> m.req, body |-> m.body \cup m.files, form |-> Form(m),
             copy |-> m.copy]

Contract == INSTANCE RecordingContract WITH
  Forms <- [pass: Passes, files: SUBSET Parts, wildcard: BOOLEAN, target: Targets],
  MaxCopies <- MaxAttempts,
  owed <- [r \in Reqs |-> Owed(r)],
  log <- {Entry(m) : m \in {n \in queue : Sound(n.req)}},
  refused <- {r \in Reqs : tally[r].rejected /\ ~Shadow(r)},
  answered <- {r \in Reqs : out[r].flushed}

(* Both passes, the recorders and the detached processing together keep    *)
(* the recording contract.                                                 *)
KeepsContract == Contract!Spec

-----------------------------------------------------------------------------
(* What the documentation says and the code does not do.                   *)

(* README.md:206: a shadowed transaction without Allow: 204 gets "200 (OK) *)
(* ... with the original HTTP message".                                    *)
ShadowReturnsOriginal ==
  \A r \in Reqs : (Shadow(r) /\ out[r].reply.form = "original" /\ ~link[r].gone)
                    => out[r].reply.body = Full(r)

(* BUSINESS_LOGIC.md:235-244: the message's url is the URL of the recorded *)
(* request.                                                                *)
RecordedTargetIsClients == \A m \in queue : m.target = "client"
=============================================================================
