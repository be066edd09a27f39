---------------------------- MODULE IcapConnection ----------------------------
(***************************************************************************)
(* One TCP connection to ICAPeg: the client, the goroutine of conn.serve   *)
(* that reads requests and answers them in a loop, and the chunked readers *)
(* that take bodies off the same bufio.Reader (the icap package).          *)
(*                                                                         *)
(* The byte stream is a sequence of tokens: the header of a request, a     *)
(* chunk of its body, the "0" line that ends a run of chunks, and the CRLF *)
(* after it.  chunkedReader stops behind the "0" line, so the CRLF stays   *)
(* behind - unless the read that fetched the "0" fetched it too, for the   *)
(* private bufio.Reader of newChunkedReader is dropped with its contents.  *)
(*                                                                         *)
(* A definition commented "Fault:" is a broken variant of the one below    *)
(* it, which a property is there to refute; no specification uses it.      *)
(***************************************************************************)
EXTENDS Naturals, Sequences

CONSTANTS
  Requests,   \* bound on the requests of a connection, 1..Requests
  MaxChunks,  \* bound on the chunks of a body
  Shapes      \* the shapes of request that the client sends

Ids == 1..Requests

(* framing: how the body comes.  A client that announces a preview sends   *)
(* the first `offered' of its chunks and then waits for 100 Continue,      *)
(* unless offered = size ("0; ieof").  fate: what the handler will do.     *)
Shape == [framing: {"none", "plain", "preview"},
          size: 0..MaxChunks, offered: 0..MaxChunks,
          fate: {"served", "refused", "shadow", "panics"}]

WellFormed(s) ==
  /\ s.offered <= s.size
  /\ s.framing = "none" => s.size = 0
  /\ s.framing = "plain" => s.offered = s.size

ASSUME BoundsAssumption == Requests \in Nat \ {0} /\ MaxChunks \in Nat
ASSUME ShapesAssumption == Shapes \subseteq {s \in Shape : WellFormed(s)}

Tokens == [kind: {"header", "chunk", "zero", "crlf"}, of: Ids, n: 0..MaxChunks]
Answers == [kind: {"continue", "final"}, of: Ids]
ReaderPhases == {"unused", "preview", "previewed", "plain", "rest", "done"}
Places == {"idle", "preview", "handle", "body", "abandoned", "closed"}

VARIABLES
  script,   \* script[r]: the shape of request r (never changes)
  client,   \* the client: requests sent so far, waiting for an answer?, gone?
            \* torn: may a read from its socket end between "0" and the CRLF?
  wire,     \* tokens sent and not yet read from the socket
  base,     \* conn.buf's bufio.Reader: read from the socket, not consumed
  reader,   \* reader[r]: the chunked reader at work for r
  body,     \* body[r]: the chunks the handler of r got
  pc,       \* where conn.serve is
  serving,  \* the request it serves, or served last (0: none yet)
  inbox     \* answers flushed and not yet read by the client

vars == <<script, client, wire, base, reader, body, pc, serving, inbox>>
stream == <<wire, base>>

Ieof(r) == script[r].offered = script[r].size
Chunk(r, n) == [kind |-> "chunk", of |-> r, n |-> n]
Mark(r, kind) == [kind |-> kind, of |-> r, n |-> 0]

(* Fault: a run has one chunk too many. *)
RunOverlong(r, first, last) ==
  [i \in 1..(last + 2 - first) |-> Chunk(r, first + i - 1)]
    \o <<Mark(r, "zero"), Mark(r, "crlf")>>

Run(r, first, last) ==
  [i \in 1..(last + 1 - first) |-> Chunk(r, first + i - 1)]
    \o <<Mark(r, "zero"), Mark(r, "crlf")>>

Offer(r) ==
  <<Mark(r, "header")>> \o
  (IF script[r].framing = "none" THEN <<>> ELSE Run(r, 1, script[r].offered))
Rest(r) == Run(r, script[r].offered + 1, script[r].size)

Fresh == [phase |-> "unused", buf |-> <<>>]

Init ==
  /\ script \in [Ids -> Shapes]
  /\ client \in [asked: {0}, waiting: {FALSE}, gone: {FALSE}, torn: BOOLEAN]
  /\ wire = <<>>
  /\ base = <<>>
  /\ reader = [r \in Ids |-> Fresh]
  /\ body = [r \in Ids |-> <<>>]
  /\ pc = "idle"
  /\ serving = 0
  /\ inbox = <<>>

-----------------------------------------------------------------------------
(* The client has one request outstanding at a time.                       *)

ClientAsks ==
  /\ ~client.waiting /\ ~client.gone
  /\ client.asked < Requests
  /\ client' = [client EXCEPT !.asked = @ + 1, !.waiting = TRUE]
  /\ wire' = wire \o Offer(client.asked + 1)
  /\ UNCHANGED <<script, base, reader, body, pc, serving, inbox>>

ClientSendsRest ==
  /\ client.waiting
  /\ inbox # <<>>
  /\ Head(inbox).kind = "continue"
  /\ inbox' = Tail(inbox)
  /\ wire' = wire \o Rest(client.asked)
  /\ UNCHANGED <<script, client, base, reader, body, pc, serving>>

ClientTakesReply ==
  /\ client.waiting
  /\ inbox # <<>>
  /\ Head(inbox).kind = "final"
  /\ inbox' = Tail(inbox)
  /\ client' = [client EXCEPT !.waiting = FALSE]
  /\ UNCHANGED <<script, wire, base, reader, body, pc, serving>>

ClientLeaves ==
  /\ ~client.gone
  /\ client' = [client EXCEPT !.waiting = FALSE, !.gone = TRUE]
  /\ UNCHANGED <<script, wire, base, reader, body, pc, serving, inbox>>

ClientSeesClose ==
  /\ client.waiting
  /\ pc = "closed"
  /\ inbox = <<>>
  /\ client' = [client EXCEPT !.waiting = FALSE, !.gone = TRUE]
  /\ UNCHANGED <<script, wire, base, reader, body, pc, serving, inbox>>

-----------------------------------------------------------------------------
(* Reading the socket.  One read returns some of what has arrived.         *)

Cuts == {k \in 1..Len(wire) : client.torn \/ wire[k].kind # "zero"}
Fetched(k) == SubSeq(wire, 1, k)
Unfetched(k) == SubSeq(wire, k + 1, Len(wire))
Eof == client.gone /\ wire = <<>>

(* bufio.Reader.fill, on behalf of the request and header lines. *)
Fill ==
  /\ pc = "idle"
  /\ base = <<>>
  /\ \E k \in Cuts : base' = Fetched(k) /\ wire' = Unfetched(k)
  /\ UNCHANGED <<script, client, reader, body, pc, serving, inbox>>

-----------------------------------------------------------------------------
(* conn.readRequest and ReadRequest.                                       *)

Close ==
  /\ pc' = "closed"
  /\ UNCHANGED <<script, client, stream, body, serving, inbox>>

(* A preview is read before the handler is called. *)
TakeHeader ==
  /\ pc = "idle"
  /\ base # <<>>
  /\ Head(base).kind = "header"
  /\ LET r == Head(base).of
         previewed == script[r].framing = "preview"
     IN /\ serving' = r
        /\ pc' = IF previewed THEN "preview" ELSE "handle"
        /\ reader' = IF previewed
                     THEN [reader EXCEPT ![r].phase = "preview"] ELSE reader
  /\ base' = Tail(base)
  /\ UNCHANGED <<script, client, wire, body, inbox>>

(* Anything else is a malformed request line: the connection is closed. *)
TakeGarbage ==
  /\ pc = "idle"
  /\ base # <<>>
  /\ Head(base).kind # "header"
  /\ Close
  /\ UNCHANGED reader

TakeEof ==
  /\ pc = "idle"
  /\ base = <<>>
  /\ Eof
  /\ Close
  /\ UNCHANGED reader

(* io.ReadAll of the preview is over; the handler runs. *)
PreviewRead ==
  /\ pc = "preview"
  /\ reader[serving].phase = "previewed"
  /\ pc' = "handle"
  /\ UNCHANGED <<script, client, stream, reader, body, serving, inbox>>

-----------------------------------------------------------------------------
(* chunkedReader over newChunkedReader's private bufio.Reader.             *)

Active(r) == reader[r].phase \in {"preview", "plain", "rest"}

(* Fault: the private reader goes to the socket, past what conn.buf holds. *)
RefillPastBase(r) ==
  /\ Active(r)
  /\ reader[r].buf = <<>>
  /\ \E k \in Cuts : /\ reader' = [reader EXCEPT ![r].buf = Fetched(k)]
                     /\ wire' = Unfetched(k)
  /\ UNCHANGED <<script, client, base, body, pc, serving, inbox>>

(* The private reader takes all that conn.buf holds, or one socket read. *)
Refill(r) ==
  /\ Active(r)
  /\ reader[r].buf = <<>>
  /\ \/ /\ base # <<>>
        /\ reader' = [reader EXCEPT ![r].buf = base]
        /\ base' = <<>>
        /\ UNCHANGED wire
     \/ /\ base = <<>>
        /\ \E k \in Cuts : /\ reader' = [reader EXCEPT ![r].buf = Fetched(k)]
                           /\ wire' = Unfetched(k)
        /\ UNCHANGED base
  /\ UNCHANGED <<script, client, body, pc, serving, inbox>>

TakeChunk(r) ==
  /\ Active(r)
  /\ reader[r].buf # <<>>
  /\ Head(reader[r].buf).kind = "chunk"
  /\ body' = [body EXCEPT ![r] = Append(@, Head(reader[r].buf))]
  /\ reader' = [reader EXCEPT ![r].buf = Tail(@)]
  /\ UNCHANGED <<script, client, stream, pc, serving, inbox>>

(* The reader is dropped, with whatever else it had fetched. *)
Ended(r) == [phase |-> IF reader[r].phase = "preview" THEN "previewed" ELSE "done",
             buf |-> <<>>]

(* Fault: the chunked reader works on conn.buf itself. *)
TakeEndShared(r) ==
  /\ Active(r)
  /\ reader[r].buf # <<>>
  /\ Head(reader[r].buf).kind \in {"zero", "crlf"}
  /\ reader' = [reader EXCEPT ![r] = Ended(r)]
  /\ base' = Tail(reader[r].buf) \o base
  /\ UNCHANGED <<script, client, wire, body, pc, serving, inbox>>

(* "0" is the end.  So is an empty line: parseHexUint makes it 0. *)
TakeEnd(r) ==
  /\ Active(r)
  /\ reader[r].buf # <<>>
  /\ Head(reader[r].buf).kind \in {"zero", "crlf"}
  /\ reader' = [reader EXCEPT ![r] = Ended(r)]
  /\ UNCHANGED <<script, client, stream, body, pc, serving, inbox>>

(* The stream ends, or a request line is where a chunk should be.  Only    *)
(* the reader of a preview reports it; the others keep what they have.     *)
TakeBroken(r) ==
  /\ Active(r)
  /\ \/ reader[r].buf = <<>> /\ base = <<>> /\ Eof
     \/ reader[r].buf # <<>> /\ Head(reader[r].buf).kind = "header"
  /\ reader' = [reader EXCEPT ![r] = Ended(r)]
  /\ IF reader[r].phase = "preview"
     THEN Close
     ELSE UNCHANGED <<script, client, stream, body, pc, serving, inbox>>

-----------------------------------------------------------------------------
(* The handler, seen from the connection.                                  *)

Send(kind) == inbox' = Append(inbox, [kind |-> kind, of |-> serving])

Fate(fate) == pc = "handle" /\ script[serving].fate = fate

(* The handler reads the body; one that panics may do so first, or not.    *)
Reads == Fate("served") \/ Fate("panics")
BodyRead(fate) ==
  pc = "body" /\ reader[serving].phase = "done" /\ script[serving].fate = fate

(* 404 and 405 are written without a look at the body. *)
Refuse ==
  /\ Fate("refused")
  /\ Send("final")
  /\ pc' = "idle"
  /\ UNCHANGED <<script, client, stream, reader, body, serving>>

(* The 204 of a shadowed service: the loop goes on to the next request     *)
(* while `go RequestProcessing' reads the body of this one.                *)
ShadowAnswer ==
  /\ Fate("shadow")
  /\ Send("final")
  /\ pc' = "idle"
  /\ reader' = IF script[serving].framing = "plain"
               THEN [reader EXCEPT ![serving].phase = "plain"] ELSE reader
  /\ UNCHANGED <<script, client, stream, body, serving>>

(* recover() ends the goroutine of serve: nothing is flushed or closed... *)
Panic ==
  /\ Fate("panics") \/ BodyRead("panics")
  /\ pc' = "abandoned"
  /\ UNCHANGED <<script, client, stream, reader, body, serving, inbox>>

(* ...until the garbage collector finalizes the socket. *)
Finalize ==
  /\ pc = "abandoned"
  /\ Close
  /\ UNCHANGED reader

ReadPlain ==
  /\ Reads
  /\ script[serving].framing = "plain"
  /\ reader[serving].phase = "unused"
  /\ reader' = [reader EXCEPT ![serving].phase = "plain"]
  /\ pc' = "body"
  /\ UNCHANGED <<script, client, stream, body, serving, inbox>>

(* Fault: the answer to the preview is final, and the rest is read still. *)
AskRestFinally ==
  /\ Reads
  /\ script[serving].framing = "preview"
  /\ ~Ieof(serving)
  /\ Send("final")
  /\ reader' = [reader EXCEPT ![serving].phase = "rest"]
  /\ pc' = "body"
  /\ UNCHANGED <<script, client, stream, body, serving>>

(* GetTheRest: 100 Continue is flushed, then a second chunked reader works. *)
AskRest ==
  /\ Reads
  /\ script[serving].framing = "preview"
  /\ ~Ieof(serving)
  /\ Send("continue")
  /\ reader' = [reader EXCEPT ![serving].phase = "rest"]
  /\ pc' = "body"
  /\ UNCHANGED <<script, client, stream, body, serving>>

(* Fault: finishRequest leaves the reply in the bufio.Writer. *)
ReplyUnflushed ==
  /\ \/ /\ Fate("served")
        /\ script[serving].framing # "plain"
     \/ BodyRead("served")
  /\ pc' = "idle"
  /\ UNCHANGED <<script, client, stream, reader, body, serving, inbox>>

(* Fault: an answer is given before the body was read. *)
ReplyUnread ==
  /\ Fate("served")
  /\ Send("final")
  /\ pc' = "idle"
  /\ UNCHANGED <<script, client, stream, reader, body, serving>>

(* The final answer: the body was read, there is none beyond the preview,  *)
(* or the policy refused the transaction on its preview.                   *)
Reply ==
  /\ \/ /\ Fate("served")
        /\ script[serving].framing # "plain"
     \/ BodyRead("served")
  /\ Send("final")
  /\ pc' = "idle"
  /\ UNCHANGED <<script, client, stream, reader, body, serving>>

-----------------------------------------------------------------------------
ReaderNext(r) == Refill(r) \/ TakeChunk(r) \/ TakeEnd(r) \/ TakeBroken(r)
LoopNext ==
  \/ Fill \/ TakeHeader \/ TakeGarbage \/ TakeEof \/ PreviewRead
  \/ Refuse \/ ShadowAnswer \/ Panic \/ Finalize
  \/ ReadPlain \/ AskRest \/ Reply
ClientAnswers == ClientSendsRest \/ ClientTakesReply \/ ClientSeesClose

Next ==
  \/ ClientAsks \/ ClientAnswers \/ ClientLeaves
  \/ LoopNext
  \/ \E r \in Ids : ReaderNext(r)

Spec == Init /\ [][Next]_vars

(* The handler is in a call without a deadline: it validates an identity,  *)
(* where an LDAP search has none, or scans, where sending to clamd has none. *)
HeldUp ==
  \/ Reads /\ script[serving].framing # "plain"
  \/ BodyRead("served") \/ BodyRead("panics")

(* The goroutines are scheduled fairly; nothing is asked of the client, nor *)
(* of the services that a handler waits for.                               *)
FairSpec ==
  /\ Spec
  /\ WF_vars(~HeldUp /\ LoopNext)
  /\ \A r \in Ids : WF_vars(ReaderNext(r))

-----------------------------------------------------------------------------
(* Properties.                                                             *)

(* Every variable has its type. *)
TypeOK ==
  /\ script \in [Ids -> Shapes]
  /\ client \in [asked: 0..Requests, waiting: BOOLEAN, gone: BOOLEAN,
                torn: BOOLEAN]
  /\ wire \in Seq(Tokens)
  /\ base \in Seq(Tokens)
  /\ reader \in [Ids -> [phase: ReaderPhases, buf: Seq(Tokens)]]
  /\ body \in [Ids -> Seq(Tokens)]
  /\ pc \in Places
  /\ serving \in 0..Requests
  /\ inbox \in Seq(Answers)

(* However the stream is cut and whoever reads it, the body a handler gets *)
(* is a prefix of the body its own client sent: no chunk of it is skipped, *)
(* doubled, or another request's.                                          *)
BodyOwn ==
  \A r \in Ids :
    /\ Len(body[r]) <= script[r].size
    /\ \A i \in 1..Len(body[r]) : body[r][i] = Chunk(r, i)

(* While the client waits, every answer on its way is to its last request, *)
(* and nothing follows a final one.                                        *)
AnswersMatch ==
  client.waiting =>
    \A i \in 1..Len(inbox) :
      /\ inbox[i].of = client.asked
      /\ inbox[i].kind = "final" => i = Len(inbox)

(* A body read to its io.EOF is all there: newChunkedReader returns io.EOF *)
(* "when the final 0-length chunk is read" (icap/chunked.go:23).  (A client *)
(* that left is why a body may end early.)                                 *)
EofAtTheEnd ==
  ~client.gone =>
    \A r \in Ids : reader[r].phase = "done" => Len(body[r]) = script[r].size

(* No request is refused or shadowed, and no 0 line parted from its CRLF.  *)
Undisturbed ==
  ~client.torn /\ \A r \in Ids : script[r].fate \in {"served", "panics"}

(* Undisturbed, what is read up to io.EOF is the whole body.               *)
BodyWhole == Undisturbed => EofAtTheEnd

(* Undisturbed, only the client's departure, or a panic, ends a connection. *)
KeepsConnection ==
  Undisturbed /\ pc = "closed" =>
    client.gone \/ script[serving].fate = "panics"

(* Undisturbed, nothing of a transaction is left in the stream for the     *)
(* next one to trip over.                                                  *)
InStep ==
  Undisturbed /\ pc = "idle" /\ ~client.waiting /\ ~client.gone =>
    wire = <<>> /\ base = <<>>

Answered == \E i \in 1..Len(inbox) : inbox[i].kind = "final"

(* The client was told to continue, and has not read it or sent the rest.  *)
OwesRest == inbox # <<>> /\ Head(inbox).kind = "continue"

(* A waiting client is answered or its connection closed, also after a     *)
(* panic, unless a handler is held up for ever or the client itself owes   *)
(* the rest of its body for ever: the server waits for neither with a      *)
(* deadline.  Not so beside a shadowed service: its goroutine may take the *)
(* header of the next request off the wire and drop it.                    *)
Settles ==
  (\A r \in Ids : script[r].fate # "shadow")
    => (client.waiting ~>
          (~client.waiting \/ Answered \/ pc = "closed" \/ []HeldUp \/ []OwesRest))
=============================================================================
