------------------------- MODULE IcapConnection_proofs -------------------------
(* Type correctness of IcapConnection; that neither bodies nor answers are *)
(* mixed up on a connection, however the stream is cut and whoever leaves; *)
(* that an undisturbed connection stays in step; and that client and       *)
(* server never wait for each other: for every number of requests and      *)
(* every size of body.                                                     *)
EXTENDS IcapConnection, SequenceTheorems, TLAPS

(* What nobody has fetched, and what reader r has before it.               *)
Pending == base \o wire
Before(r) == reader[r].buf \o Pending

NoChunks(s) == \A i \in 1..Len(s) : s[i].kind # "chunk"
NoHeaders(s) == \A i \in 1..Len(s) : s[i].kind # "header"

(* s begins with the chunks of r from the n+1st to the last of its run, and *)
(* the 0 line.                                                             *)
Due(r, n, last, s) ==
  /\ n <= last
  /\ Len(s) > last - n
  /\ \A i \in 1..(last - n) : s[i] = Chunk(r, n + i)
  /\ s[last - n + 1].kind = "zero"

-----------------------------------------------------------------------------
(* Sequences.                                                              *)

LEMMA Parted ==
  ASSUME NEW s \in Seq(Tokens), NEW k \in 1..Len(s)
  PROVE  /\ SubSeq(s, 1, k) \in Seq(Tokens) /\ Len(SubSeq(s, 1, k)) = k
         /\ SubSeq(s, k + 1, Len(s)) \in Seq(Tokens)
         /\ SubSeq(s, 1, k) \o SubSeq(s, k + 1, Len(s)) = s
<1> DEFINE a == SubSeq(s, 1, k)
           b == SubSeq(s, k + 1, Len(s))
<1>1. Len(s) \in Nat /\ k \in Int /\ \A i \in 1..Len(s) : s[i] \in Tokens
  OBVIOUS
<1>2. a \in Seq(Tokens) /\ Len(a) = k /\ \A i \in 1..k : a[i] = s[i]
  <2>1. \A i \in 1..k : s[i] \in Tokens BY <1>1
  <2> QED BY <1>1, <2>1, SubSeqProperties
<1>3. /\ b \in Seq(Tokens) /\ Len(b) = Len(s) - k
      /\ \A i \in 1..(Len(s) - k) : b[i] = s[k + i]
  <2>1. \A i \in (k + 1)..Len(s) : s[i] \in Tokens BY <1>1
  <2>2. /\ b \in Seq(Tokens)
        /\ Len(b) = IF k + 1 <= Len(s) THEN Len(s) - (k + 1) + 1 ELSE 0
        /\ \A i \in 1..(Len(s) - (k + 1) + 1) : b[i] = s[k + 1 + i - 1]
    BY <1>1, <2>1, SubSeqProperties
  <2> QED BY <1>1, <2>2
<1> HIDE DEF a, b
<1>4. /\ a \o b \in Seq(Tokens) /\ Len(a \o b) = Len(s)
      /\ \A i \in 1..Len(s) : (a \o b)[i] = s[i]
  <2>1. /\ a \o b \in Seq(Tokens) /\ Len(a \o b) = Len(a) + Len(b)
        /\ \A i \in 1..Len(a) + Len(b) :
             (a \o b)[i] = IF i <= Len(a) THEN a[i] ELSE b[i - Len(a)]
    BY <1>2, <1>3, ConcatProperties
  <2>2. Len(a) + Len(b) = Len(s) /\ k <= Len(s) BY <1>1, <1>2, <1>3
  <2>3. ASSUME NEW i \in 1..Len(s) PROVE (a \o b)[i] = s[i]
    <3>1. CASE i <= k BY <3>1, <1>1, <1>2, <2>1, <2>2
    <3>2. CASE i > k
      <4>1. i - k \in 1..(Len(s) - k) /\ k + (i - k) = i BY <3>2, <1>1
      <4> QED BY <3>2, <4>1, <1>1, <1>2, <1>3, <2>1, <2>2
    <3>3. i <= k \/ i > k BY <1>1
    <3> QED BY <3>1, <3>2, <3>3
  <2> QED BY <2>1, <2>2, <2>3
<1>5. a \o b = s BY <1>4, SeqEqual
<1> QED BY <1>2, <1>3, <1>5 DEF a, b

LEMMA Joined ==
  ASSUME NEW s \in Seq(Tokens), NEW t \in Seq(Tokens)
  PROVE  /\ s \o t \in Seq(Tokens)
         /\ Len(s \o t) = Len(s) + Len(t)
         /\ \A i \in 1..Len(s) : (s \o t)[i] = s[i]
         /\ \A i \in 1..Len(t) : (s \o t)[Len(s) + i] = t[i]
BY ConcatProperties

LEMMA TailJoined ==
  ASSUME NEW s \in Seq(Tokens), s # <<>>, NEW t \in Seq(Tokens)
  PROVE  Tail(s) \o t = Tail(s \o t) /\ s \o t # <<>>
<1>1. /\ Tail(s) \in Seq(Tokens) /\ Len(Tail(s)) = Len(s) - 1 /\ Len(s) > 0
      /\ \A i \in 1..Len(Tail(s)) : Tail(s)[i] = s[i + 1]
  BY HeadTailProperties
<1>2. /\ s \o t \in Seq(Tokens) /\ Len(s \o t) = Len(s) + Len(t)
      /\ \A i \in 1..Len(s) : (s \o t)[i] = s[i]
      /\ \A i \in 1..Len(t) : (s \o t)[Len(s) + i] = t[i]
  BY Joined
<1>3. s \o t # <<>> BY <1>1, <1>2
<1>4. /\ Tail(s \o t) \in Seq(Tokens) /\ Len(Tail(s \o t)) = Len(s \o t) - 1
      /\ \A i \in 1..Len(Tail(s \o t)) : Tail(s \o t)[i] = (s \o t)[i + 1]
  BY <1>2, <1>3, HeadTailProperties
<1>5. /\ Tail(s) \o t \in Seq(Tokens) /\ Len(Tail(s) \o t) = Len(s) - 1 + Len(t)
      /\ \A i \in 1..Len(Tail(s)) : (Tail(s) \o t)[i] = Tail(s)[i]
      /\ \A i \in 1..Len(t) : (Tail(s) \o t)[Len(Tail(s)) + i] = t[i]
  BY <1>1, Joined
<1>6. ASSUME NEW i \in 1..(Len(s) - 1 + Len(t))
      PROVE  (Tail(s) \o t)[i] = Tail(s \o t)[i]
  <2>1. CASE i <= Len(s) - 1 BY <2>1, <1>1, <1>2, <1>4, <1>5
  <2>2. CASE i > Len(s) - 1
    <3> DEFINE j == i - (Len(s) - 1)
    <3>1. j \in 1..Len(t) /\ i = Len(s) - 1 + j /\ i + 1 = Len(s) + j BY <2>2, <1>1
    <3> HIDE DEF j
    <3>2. (Tail(s) \o t)[i] = t[j] BY <3>1, <1>1, <1>5
    <3>3. Tail(s \o t)[i] = (s \o t)[i + 1] BY <1>1, <1>2, <1>4
    <3> QED BY <3>1, <3>2, <3>3, <1>2
  <2> QED BY <2>1, <2>2, <1>1
<1>7. Tail(s) \o t = Tail(s \o t) BY <1>2, <1>4, <1>5, <1>6, SeqEqual
<1> QED BY <1>3, <1>7

LEMMA TailOf ==
  ASSUME NEW s \in Seq(Tokens), s # <<>>
  PROVE  /\ Tail(s) \in Seq(Tokens) /\ Len(Tail(s)) = Len(s) - 1 /\ Len(s) > 0
         /\ \A i \in 1..(Len(s) - 1) : Tail(s)[i] = s[i + 1]
         /\ Head(s) = s[1] /\ Head(s) \in Tokens
BY HeadTailProperties

-----------------------------------------------------------------------------
(* What is due.                                                            *)

LEMMA DueLonger ==
  ASSUME NEW r, NEW n \in Nat, NEW last \in Nat,
         NEW s \in Seq(Tokens), NEW t \in Seq(Tokens), Due(r, n, last, s)
  PROVE  Due(r, n, last, s \o t)
BY Joined DEF Due

LEMMA DueHead ==
  ASSUME NEW r, NEW n \in Nat, NEW last \in Nat,
         NEW s \in Seq(Tokens), Due(r, n, last, s)
  PROVE  /\ s # <<>>
         /\ s[1].kind = "chunk" => n < last /\ s[1] = Chunk(r, n + 1)
         /\ s[1].kind # "chunk" => n = last
         /\ s[1].kind \in {"chunk", "zero"}
<1>1. CASE n = last BY <1>1 DEF Due
<1>2. CASE n < last
  <2>1. s[1] = Chunk(r, n + 1) BY <1>2 DEF Due
  <2> QED BY <1>2, <2>1 DEF Due, Chunk
<1> QED BY <1>1, <1>2 DEF Due

LEMMA DueTail ==
  ASSUME NEW r, NEW n \in Nat, NEW last \in Nat,
         NEW s \in Seq(Tokens), Due(r, n, last, s), s[1].kind = "chunk"
  PROVE  Due(r, n + 1, last, Tail(s))
<1>1. s # <<>> /\ n < last BY DueHead
<1>2. /\ Tail(s) \in Seq(Tokens) /\ Len(Tail(s)) = Len(s) - 1
      /\ \A i \in 1..(Len(s) - 1) : Tail(s)[i] = s[i + 1]
  BY <1>1, TailOf
<1>3. \A i \in 1..(last - (n + 1)) : Tail(s)[i] = Chunk(r, n + 1 + i)
  <2> SUFFICES ASSUME NEW i \in 1..(last - (n + 1))
               PROVE  Tail(s)[i] = Chunk(r, n + 1 + i)
    OBVIOUS
  <2>1. i + 1 \in 1..(last - n) /\ i \in 1..(Len(s) - 1) BY <1>1 DEF Due
  <2>2. s[i + 1] = Chunk(r, n + (i + 1)) BY <2>1 DEF Due
  <2> QED BY <1>2, <2>1, <2>2
<1>4. Tail(s)[last - (n + 1) + 1].kind = "zero" BY <1>1, <1>2 DEF Due
<1> QED BY <1>1, <1>2, <1>3, <1>4 DEF Due

(* Where a reader's buffer ends, its run goes on.                          *)
LEMMA DueBeyond ==
  ASSUME NEW r, NEW n \in Nat, NEW last \in Nat,
         NEW s \in Seq(Tokens), NEW t \in Seq(Tokens),
         Due(r, n, last, s \o t), ~Due(r, n, last, s)
  PROVE  t # <<>> /\ t[1].kind \in {"chunk", "zero"}
<1>1. /\ Len(s \o t) = Len(s) + Len(t)
      /\ \A i \in 1..Len(s) : (s \o t)[i] = s[i]
      /\ \A i \in 1..Len(t) : (s \o t)[Len(s) + i] = t[i]
  BY Joined
<1>2. Len(s) <= last - n
  <2> SUFFICES ASSUME Len(s) > last - n PROVE FALSE BY DEF Due
  <2> QED BY <1>1 DEF Due
<1>3. Len(t) > 0 /\ (s \o t)[Len(s) + 1] = t[1] BY <1>1, <1>2 DEF Due
<1>4. (s \o t)[Len(s) + 1].kind \in {"chunk", "zero"}
  <2>1. CASE Len(s) = last - n BY <2>1 DEF Due
  <2>2. CASE Len(s) < last - n
    <3>1. Len(s) + 1 \in 1..(last - n) BY <2>2
    <3>2. (s \o t)[Len(s) + 1] = Chunk(r, n + (Len(s) + 1)) BY <3>1 DEF Due
    <3> QED BY <3>2 DEF Chunk
  <2> QED BY <1>2, <2>1, <2>2 DEF Due
<1> QED BY <1>3, <1>4
-----------------------------------------------------------------------------
(* The inductive invariant.                                                *)

(* The run of r is in its private buffer, or on the way to it.             *)
InRun(r) == reader[r].phase \in {"plain", "preview"}
Fed(r) == Due(r, Len(body[r]), script[r].offered, reader[r].buf)
Unfed(r) == InRun(r) /\ ~Fed(r)

Working == {"preview", "handle", "body"}

(* Client and server take turns.                                           *)
Turns ==
  /\ serving <= client.asked
  /\ client.gone => ~client.waiting
  /\ ~client.gone /\ ~client.waiting => inbox = <<>>
  /\ ~client.gone /\ serving < client.asked => client.waiting /\ inbox = <<>>
  /\ ~client.gone /\ pc \in Working => client.waiting /\ serving = client.asked
  /\ ~client.gone /\ pc \in Working =>
       \A i \in 1..Len(inbox) : inbox[i].kind # "final"
  /\ ~client.gone /\ pc \in {"preview", "handle"} => inbox = <<>>
  /\ pc \in Working => serving \in Ids

(* A header on its way is that of the last request, and all that follows   *)
(* it belongs to that request.                                             *)
OfferAt(i) ==
  /\ Pending[i].of = client.asked
  /\ serving < client.asked
  /\ Len(Pending) - i = Len(Offer(client.asked)) - 1
  /\ \A j \in 1..(Len(Pending) - i) : Pending[i + j] = Offer(client.asked)[j + 1]

OfferLast ==
  \A i \in 1..Len(Pending) : Pending[i].kind = "header" => OfferAt(i)

(* Readers work when the loop has started them, and hold nothing else.     *)
Phased ==
  /\ \A r \in Ids : r > serving => reader[r] = Fresh /\ body[r] = <<>>
  /\ \A r \in Ids : ~Active(r) => reader[r].buf = <<>>
  /\ \A r \in Ids : reader[r].phase = "preview" => pc = "preview" /\ serving = r
  /\ \A r \in Ids : reader[r].phase = "rest" => pc = "body" /\ serving = r
  /\ pc = "preview" => /\ reader[serving].phase \in {"preview", "previewed"}
                       /\ script[serving].framing = "preview"
  /\ pc = "handle" /\ script[serving].framing = "preview" =>
       reader[serving].phase = "previewed"

(* A reader at work has the rest of its run before it; at most one has not *)
(* fetched all of it, and none while the loop might start another.         *)
RunsWhole ==
  /\ \A r \in Ids : Unfed(r) =>
       Due(r, Len(body[r]), script[r].offered, Before(r))
  /\ \A r \in Ids : Unfed(r) => pc # "handle"
  /\ \A r \in Ids : Unfed(r) /\ pc \in {"preview", "body"} => r = serving
  /\ \A r, q \in Ids : Unfed(r) /\ Unfed(q) => q = r

(* Behind a preview there is no chunk before the client is asked for more. *)
PreviewLast ==
  /\ \A r \in Ids : reader[r].phase = "preview" =>
       \A i \in 1..Len(Before(r)) :
         i > script[r].offered - Len(body[r]) => Before(r)[i].kind # "chunk"
  /\ pc \in {"preview", "handle"} /\ reader[serving].phase = "previewed" =>
       NoChunks(Pending) /\ Len(body[serving]) = script[serving].offered

(* The body of the request in service, before its handler asks for it.     *)
Unread ==
  pc = "handle" /\ script[serving].framing = "plain" =>
    /\ reader[serving] = Fresh /\ body[serving] = <<>>
    /\ Due(serving, 0, script[serving].offered, Pending)

(* The rest of a body: not sent yet; lost to an empty line; or before us.  *)
RestOK(r) ==
  \/ Len(body[r]) = script[r].offered /\ NoChunks(Before(r))
  \/ Before(r) # <<>> /\ Before(r)[1].kind # "chunk"
  \/ Due(r, Len(body[r]), script[r].size, Before(r))
RestWhole == \A r \in Ids : reader[r].phase = "rest" => RestOK(r)

IInv ==
  /\ TypeOK /\ Turns /\ AnswersMatch /\ OfferLast
  /\ Phased /\ RunsWhole /\ PreviewLast /\ Unread /\ RestWhole /\ BodyOwn

-----------------------------------------------------------------------------
(* What a client sends.                                                    *)

LEMMA RunFacts ==
  ASSUME NEW r \in Ids, NEW n \in Nat, NEW last \in 0..MaxChunks, n <= last
  PROVE  /\ Run(r, n + 1, last) \in Seq(Tokens)
         /\ Len(Run(r, n + 1, last)) = last - n + 2
         /\ \A i \in 1..(last - n) : Run(r, n + 1, last)[i] = Chunk(r, n + i)
         /\ Run(r, n + 1, last)[last - n + 1] = Mark(r, "zero")
         /\ Run(r, n + 1, last)[last - n + 2] = Mark(r, "crlf")
<1> DEFINE k == last - n
           chunks == [i \in 1..(last + 1 - (n + 1)) |-> Chunk(r, n + 1 + i - 1)]
           end == <<Mark(r, "zero"), Mark(r, "crlf")>>
<1>1. MaxChunks \in Nat /\ k \in Nat /\ last \in Nat BY BoundsAssumption
<1>2. last + 1 - (n + 1) = k BY <1>1
<1>3. \A i \in 1..k :
        Chunk(r, n + 1 + i - 1) = Chunk(r, n + i) /\ Chunk(r, n + i) \in Tokens
  BY <1>1 DEF Chunk, Tokens
<1>4. /\ chunks \in Seq(Tokens) /\ Len(chunks) = k
      /\ \A i \in 1..k : chunks[i] = Chunk(r, n + i)
  <2>1. chunks = [i \in 1..k |-> Chunk(r, n + i)] BY <1>2, <1>3
  <2> HIDE DEF chunks, k
  <2> QED BY <1>1, <1>3, <2>1, IsASeq
<1>5. /\ end \in Seq(Tokens) /\ Len(end) = 2
      /\ end[1] = Mark(r, "zero") /\ end[2] = Mark(r, "crlf")
  <2>1. Mark(r, "zero") \in Tokens /\ Mark(r, "crlf") \in Tokens
    BY <1>1 DEF Mark, Tokens
  <2> QED BY <2>1
<1>6. Run(r, n + 1, last) = chunks \o end BY DEF Run
<1> HIDE DEF chunks, end
<1>7. /\ chunks \o end \in Seq(Tokens) /\ Len(chunks \o end) = k + 2
      /\ \A i \in 1..k : (chunks \o end)[i] = chunks[i]
      /\ (chunks \o end)[k + 1] = end[1] /\ (chunks \o end)[k + 2] = end[2]
  <2> HIDE DEF k
  <2>1. /\ chunks \o end \in Seq(Tokens) /\ Len(chunks \o end) = Len(chunks) + Len(end)
        /\ \A i \in 1..Len(chunks) : (chunks \o end)[i] = chunks[i]
        /\ \A i \in 1..Len(end) : (chunks \o end)[Len(chunks) + i] = end[i]
    BY <1>4, <1>5, Joined
  <2> QED BY <1>1, <1>4, <1>5, <2>1
<1> QED BY <1>4, <1>5, <1>6, <1>7

LEMMA RunDue ==
  ASSUME NEW r \in Ids, NEW n \in Nat, NEW last \in 0..MaxChunks, n <= last
  PROVE  /\ Due(r, n, last, Run(r, n + 1, last))
         /\ NoHeaders(Run(r, n + 1, last))
         /\ \A i \in 1..Len(Run(r, n + 1, last)) :
              i > last - n => Run(r, n + 1, last)[i].kind # "chunk"
<1> DEFINE run == Run(r, n + 1, last)
<1>1. MaxChunks \in Nat /\ last \in Nat BY BoundsAssumption
<1>2. /\ run \in Seq(Tokens) /\ Len(run) = last - n + 2
      /\ \A i \in 1..(last - n) : run[i] = Chunk(r, n + i)
      /\ run[last - n + 1] = Mark(r, "zero") /\ run[last - n + 2] = Mark(r, "crlf")
  BY RunFacts
<1> HIDE DEF run
<1>3. Due(r, n, last, run) BY <1>1, <1>2 DEF Due, Mark
<1>4. ASSUME NEW i \in 1..Len(run)
      PROVE  run[i].kind # "header" /\ (i > last - n => run[i].kind # "chunk")
  <2>1. CASE i <= last - n
    <3>1. i \in 1..(last - n) BY <2>1, <1>1, <1>2
    <3>2. run[i].kind = "chunk"
      <4>1. run[i] = Chunk(r, n + i) BY <3>1, <1>2
      <4> QED BY <4>1 DEF Chunk
    <3> QED BY <2>1, <3>2, <1>1
  <2>2. CASE i = last - n + 1 BY <2>2, <1>2 DEF Mark
  <2>3. CASE i = last - n + 2 BY <2>3, <1>2 DEF Mark
  <2> QED BY <2>1, <2>2, <2>3, <1>1, <1>2
<1> QED BY <1>3, <1>4 DEF run, NoHeaders

LEMMA ScriptType ==
  ASSUME TypeOK, NEW r \in Ids
  PROVE  /\ script[r].offered \in 0..MaxChunks /\ script[r].size \in 0..MaxChunks
         /\ script[r].offered \in Nat /\ script[r].size \in Nat
         /\ script[r].offered <= script[r].size
         /\ script[r].framing \in {"none", "plain", "preview"}
         /\ Len(body[r]) \in Nat
         /\ reader[r].buf \in Seq(Tokens) /\ body[r] \in Seq(Tokens)
<1>1. script[r] \in Shape /\ WellFormed(script[r]) BY ShapesAssumption DEF TypeOK
<1> QED BY <1>1, BoundsAssumption DEF Shape, WellFormed, TypeOK

LEMMA OfferFacts ==
  ASSUME TypeOK, NEW r \in Ids
  PROVE  /\ Offer(r) \in Seq(Tokens) /\ Len(Offer(r)) >= 1
         /\ Offer(r)[1] = Mark(r, "header")
         /\ \A i \in 2..Len(Offer(r)) : Offer(r)[i].kind # "header"
         /\ script[r].framing # "none" =>
              /\ Len(Offer(r)) = Len(Run(r, 1, script[r].offered)) + 1
              /\ \A i \in 1..(Len(Offer(r)) - 1) :
                   Offer(r)[i + 1] = Run(r, 1, script[r].offered)[i]
<1> DEFINE run == Run(r, 1, script[r].offered)
           tail == IF script[r].framing = "none" THEN <<>> ELSE run
           header == <<Mark(r, "header")>>
<1>1. script[r].offered \in 0..MaxChunks /\ script[r].offered \in Nat BY ScriptType
<1>2. run \in Seq(Tokens) /\ NoHeaders(run)
  <2>1. 0 \in Nat /\ 0 <= script[r].offered /\ 0 + 1 = 1 BY <1>1
  <2> QED BY <1>1, <2>1, RunFacts, RunDue
<1>3. tail \in Seq(Tokens) /\ NoHeaders(tail) BY <1>2 DEF NoHeaders
<1>4. header \in Seq(Tokens) /\ Len(header) = 1 /\ header[1] = Mark(r, "header")
  <2>1. Mark(r, "header") \in Tokens BY BoundsAssumption DEF Mark, Tokens
  <2> QED BY <2>1
<1>5. Offer(r) = header \o tail BY DEF Offer
<1>6. script[r].framing # "none" => tail = run OBVIOUS
<1> HIDE DEF header, tail, run
<1>7. /\ Offer(r) \in Seq(Tokens) /\ Len(Offer(r)) = 1 + Len(tail)
      /\ Offer(r)[1] = Mark(r, "header")
      /\ \A i \in 1..Len(tail) : Offer(r)[1 + i] = tail[i]
  <2>1. /\ Offer(r) \in Seq(Tokens) /\ Len(Offer(r)) = Len(header) + Len(tail)
        /\ \A i \in 1..Len(header) : Offer(r)[i] = header[i]
        /\ \A i \in 1..Len(tail) : Offer(r)[Len(header) + i] = tail[i]
    <3>1. /\ header \o tail \in Seq(Tokens)
          /\ Len(header \o tail) = Len(header) + Len(tail)
          /\ \A i \in 1..Len(header) : (header \o tail)[i] = header[i]
          /\ \A i \in 1..Len(tail) : (header \o tail)[Len(header) + i] = tail[i]
      BY <1>3, <1>4, Joined
    <3> QED BY <1>5, <3>1
  <2> QED BY <1>4, <2>1
<1>8. Len(tail) \in Nat BY <1>3
<1>9. ASSUME NEW i \in 2..Len(Offer(r)) PROVE Offer(r)[i].kind # "header"
  <2>1. i - 1 \in 1..Len(tail) /\ 1 + (i - 1) = i BY <1>7, <1>8
  <2>2. Offer(r)[i] = tail[i - 1] BY <1>7, <2>1
  <2> QED BY <1>3, <2>1, <2>2 DEF NoHeaders
<1>10. \A i \in 1..Len(tail) : i + 1 = 1 + i BY <1>8
<1>11. script[r].framing # "none" =>
         /\ Len(Offer(r)) = Len(run) + 1
         /\ \A i \in 1..(Len(Offer(r)) - 1) : Offer(r)[i + 1] = run[i]
  BY <1>6, <1>7, <1>8, <1>10
<1> QED BY <1>7, <1>8, <1>9, <1>11 DEF run

(* What is left when the header has been taken.                            *)
LEMMA AfterHeader ==
  ASSUME TypeOK, NEW r \in Ids, NEW s \in Seq(Tokens),
         Len(s) = Len(Offer(r)) - 1,
         \A j \in 1..Len(s) : s[j] = Offer(r)[j + 1]
  PROVE  /\ NoHeaders(s)
         /\ script[r].framing # "none" =>
              /\ Due(r, 0, script[r].offered, s)
              /\ \A i \in 1..Len(s) :
                   i > script[r].offered => s[i].kind # "chunk"
<1>1. /\ Offer(r) \in Seq(Tokens) /\ Len(Offer(r)) >= 1
      /\ \A i \in 2..Len(Offer(r)) : Offer(r)[i].kind # "header"
  BY OfferFacts
<1>2. NoHeaders(s)
  <2> SUFFICES ASSUME NEW j \in 1..Len(s) PROVE s[j].kind # "header" BY DEF NoHeaders
  <2>1. j + 1 \in 2..Len(Offer(r)) BY <1>1
  <2> QED BY <1>1, <2>1
<1>3. ASSUME script[r].framing # "none"
      PROVE  /\ Due(r, 0, script[r].offered, s)
             /\ \A i \in 1..Len(s) : i > script[r].offered => s[i].kind # "chunk"
  <2> DEFINE run == Run(r, 1, script[r].offered)
  <2>1. script[r].offered \in 0..MaxChunks /\ script[r].offered \in Nat BY ScriptType
  <2>2. 0 \in Nat /\ 0 <= script[r].offered /\ 0 + 1 = 1
        /\ script[r].offered - 0 = script[r].offered
    BY <2>1
  <2>3. /\ run \in Seq(Tokens) /\ Due(r, 0, script[r].offered, run)
        /\ \A i \in 1..Len(run) : i > script[r].offered => run[i].kind # "chunk"
    <3>1. run = Run(r, 0 + 1, script[r].offered) BY <2>2
    <3> HIDE DEF run
    <3>2. run \in Seq(Tokens) BY <2>1, <2>2, <3>1, RunFacts
    <3>3. /\ Due(r, 0, script[r].offered, run)
          /\ \A i \in 1..Len(run) :
               i > script[r].offered - 0 => run[i].kind # "chunk"
      BY <2>1, <2>2, <3>1, RunDue
    <3> QED BY <2>2, <3>2, <3>3
  <2>4. Len(s) = Len(run) /\ \A i \in 1..Len(s) : s[i] = run[i]
    <3>1. /\ Len(Offer(r)) = Len(run) + 1
          /\ \A i \in 1..(Len(Offer(r)) - 1) : Offer(r)[i + 1] = run[i]
      BY <1>3, OfferFacts
    <3> HIDE DEF run
    <3>2. Len(run) \in Nat BY <2>3
    <3>3. Len(s) = Len(run) BY <3>1, <3>2
    <3> QED BY <3>1, <3>3
  <2> HIDE DEF run
  <2>5. s = run BY <2>3, <2>4, SeqEqual
  <2> QED BY <2>3, <2>5
<1> QED BY <1>2, <1>3

LEMMA PendingType ==
  ASSUME TypeOK
  PROVE  /\ Pending \in Seq(Tokens)
         /\ base = <<>> => Pending = wire
         /\ base # <<>> => Pending # <<>> /\ Head(base) = Pending[1]
         /\ \A r \in Ids : /\ Before(r) \in Seq(Tokens)
                           /\ reader[r].buf = <<>> => Before(r) = Pending
<1>1. base \in Seq(Tokens) /\ wire \in Seq(Tokens) BY DEF TypeOK
<1>2. Pending \in Seq(Tokens) BY <1>1, Joined DEF Pending
<1>3. base = <<>> => Pending = wire BY <1>1 DEF Pending
<1>4. base # <<>> => Pending # <<>> /\ Head(base) = Pending[1]
  <2> SUFFICES ASSUME base # <<>> PROVE Pending # <<>> /\ Head(base) = Pending[1] OBVIOUS
  <2>1. Len(base) > 0 /\ Head(base) = base[1] BY <1>1, TailOf
  <2> QED BY <1>1, <2>1, Joined DEF Pending
<1>5. ASSUME NEW r \in Ids
      PROVE  Before(r) \in Seq(Tokens) /\ (reader[r].buf = <<>> => Before(r) = Pending)
  <2>1. reader[r].buf \in Seq(Tokens) BY ScriptType
  <2> QED BY <1>2, <2>1, Joined DEF Before
<1> QED BY <1>2, <1>3, <1>4, <1>5

-----------------------------------------------------------------------------
(* Types.                                                                  *)

LEMMA CutsPart ==
  ASSUME TypeOK, NEW k \in Cuts
  PROVE  /\ Fetched(k) \in Seq(Tokens) /\ Fetched(k) # <<>>
         /\ Unfetched(k) \in Seq(Tokens)
         /\ Fetched(k) \o Unfetched(k) = wire
<1>1. wire \in Seq(Tokens) /\ k \in 1..Len(wire) BY DEF TypeOK, Cuts
<1>2. /\ Fetched(k) \in Seq(Tokens) /\ Len(Fetched(k)) = k
      /\ Unfetched(k) \in Seq(Tokens) /\ Fetched(k) \o Unfetched(k) = wire
  BY <1>1, Parted DEF Fetched, Unfetched
<1> QED BY <1>1, <1>2

LEMMA RestType ==
  ASSUME TypeOK, NEW r \in Ids
  PROVE  /\ Rest(r) \in Seq(Tokens) /\ NoHeaders(Rest(r))
         /\ Due(r, script[r].offered, script[r].size, Rest(r))
BY ScriptType, RunFacts, RunDue DEF Rest

LEMMA AnswerTail ==
  ASSUME TypeOK, inbox # <<>>
  PROVE  /\ Tail(inbox) \in Seq(Answers) /\ Len(Tail(inbox)) = Len(inbox) - 1
         /\ \A i \in 1..(Len(inbox) - 1) : Tail(inbox)[i] = inbox[i + 1]
         /\ Head(inbox) = inbox[1] /\ Len(inbox) > 0
BY HeadTailProperties DEF TypeOK

LEMMA SendType ==
  ASSUME TypeOK, serving \in Ids, NEW kind \in {"continue", "final"}, Send(kind)
  PROVE  /\ inbox' \in Seq(Answers) /\ Len(inbox') = Len(inbox) + 1
         /\ \A i \in 1..Len(inbox) : inbox'[i] = inbox[i]
         /\ inbox'[Len(inbox) + 1] = [kind |-> kind, of |-> serving]
<1> DEFINE a == [kind |-> kind, of |-> serving]
<1>1. a \in Answers /\ inbox \in Seq(Answers) BY DEF Answers, TypeOK
<1>2. inbox' = Append(inbox, a) BY DEF Send
<1> HIDE DEF a
<1> QED BY <1>1, <1>2, AppendProperties DEF a

LEMMA TypeKept ==
  ASSUME IInv, Next
  PROVE  TypeOK'
<1>1. TypeOK /\ Ids = 1..Requests /\ Requests \in Nat
  BY BoundsAssumption DEF IInv, Ids
<1>2. /\ script \in [Ids -> Shapes]
      /\ client \in [asked: 0..Requests, waiting: BOOLEAN, gone: BOOLEAN, torn: BOOLEAN]
      /\ wire \in Seq(Tokens) /\ base \in Seq(Tokens)
      /\ reader \in [Ids -> [phase: ReaderPhases, buf: Seq(Tokens)]]
      /\ body \in [Ids -> Seq(Tokens)]
      /\ pc \in Places /\ serving \in 0..Requests /\ inbox \in Seq(Answers)
  BY <1>1 DEF TypeOK
<1>3. CASE ClientAsks
  <2>1. client.asked + 1 \in Ids BY <1>1, <1>2, <1>3 DEF ClientAsks
  <2>2. wire' \in Seq(Tokens) BY <1>1, <1>2, <1>3, <2>1, OfferFacts, Joined DEF ClientAsks
  <2>3. client' \in [asked: 0..Requests, waiting: BOOLEAN, gone: BOOLEAN, torn: BOOLEAN]
    <3>1. client' = [asked |-> client.asked + 1, waiting |-> TRUE,
                     gone |-> client.gone, torn |-> client.torn]
      BY <1>2, <1>3 DEF ClientAsks
    <3>2. client.asked + 1 \in 0..Requests BY <1>1, <2>1
    <3> QED BY <1>2, <3>1, <3>2
  <2> QED BY <1>2, <1>3, <2>2, <2>3 DEF ClientAsks, TypeOK
<1>4. CASE ClientSendsRest
  <2>1. client.asked \in Ids
    <3>1. client.asked # 0
      <4>1. inbox # <<>> /\ Len(inbox) > 0 /\ client.waiting
        BY <1>1, <1>4, AnswerTail DEF ClientSendsRest
      <4>2. inbox[1].of = client.asked /\ inbox[1] \in Answers
        BY <1>2, <4>1 DEF IInv, AnswersMatch
      <4> QED BY <1>1, <4>2 DEF Answers
    <3> QED BY <1>1, <1>2, <3>1
  <2>2. wire' \in Seq(Tokens) BY <1>1, <1>2, <1>4, <2>1, RestType, Joined DEF ClientSendsRest
  <2>3. inbox' \in Seq(Answers) BY <1>1, <1>4, AnswerTail DEF ClientSendsRest
  <2> QED BY <1>2, <1>4, <2>2, <2>3 DEF ClientSendsRest, TypeOK
<1>5. CASE ClientTakesReply
  <2>1. inbox' \in Seq(Answers) BY <1>1, <1>5, AnswerTail DEF ClientTakesReply
  <2> QED BY <1>2, <1>5, <2>1 DEF ClientTakesReply, TypeOK
<1>6. CASE ClientLeaves \/ ClientSeesClose
  BY <1>2, <1>6 DEF ClientLeaves, ClientSeesClose, TypeOK
<1>7. CASE Fill
  BY <1>1, <1>2, <1>7, CutsPart DEF Fill, TypeOK
<1>8. CASE TakeHeader
  <2>1. Tail(base) \in Seq(Tokens) /\ Head(base) \in Tokens BY <1>2, <1>8, TailOf DEF TakeHeader
  <2>2. Head(base).of \in Ids BY <2>1 DEF Tokens
  <2>3. reader' \in [Ids -> [phase: ReaderPhases, buf: Seq(Tokens)]]
    BY <1>2, <1>8, <2>2 DEF TakeHeader, ReaderPhases
  <2>4. pc' \in Places /\ serving' \in 0..Requests
    BY <1>1, <1>8, <2>2 DEF TakeHeader, Places
  <2> QED BY <1>2, <1>8, <2>1, <2>3, <2>4 DEF TakeHeader, TypeOK
<1>9. CASE TakeGarbage \/ TakeEof \/ Finalize \/ PreviewRead \/ Panic
  BY <1>2, <1>9 DEF TakeGarbage, TakeEof, Finalize, PreviewRead, Panic, Close, stream,
    TypeOK, Places
<1>10. CASE Refuse \/ ShadowAnswer \/ ReadPlain \/ AskRest \/ Reply
  <2>1. serving \in Ids /\ pc \in {"handle", "body"}
    BY <1>10 DEF Refuse, ShadowAnswer, ReadPlain, AskRest, Reply, Fate, Reads, BodyRead,
       IInv, Turns, Working
  <2>2. inbox' \in Seq(Answers)
    BY <1>1, <1>2, <1>10, <2>1, SendType DEF Refuse, ShadowAnswer, ReadPlain, AskRest, Reply
  <2>3. reader' \in [Ids -> [phase: ReaderPhases, buf: Seq(Tokens)]]
    <3>1. CASE Refuse \/ Reply
      BY <1>2, <3>1 DEF Refuse, Reply
    <3>2. CASE ShadowAnswer \/ ReadPlain
      <4>1. reader' = reader \/ reader' = [reader EXCEPT ![serving].phase = "plain"]
        <5>1. CASE ShadowAnswer BY <5>1 DEF ShadowAnswer
        <5>2. CASE ReadPlain BY <5>2 DEF ReadPlain
        <5> QED BY <3>2, <5>1, <5>2
      <4>2. CASE reader' = reader BY <1>2, <4>2
      <4>3. CASE reader' = [reader EXCEPT ![serving].phase = "plain"]
        BY <1>2, <4>3 DEF ReaderPhases
      <4> QED BY <4>1, <4>2, <4>3
    <3>3. CASE AskRest
      <4>1. reader' = [reader EXCEPT ![serving].phase = "rest"] BY <3>3 DEF AskRest
      <4> QED BY <1>2, <4>1 DEF ReaderPhases
    <3> QED BY <1>10, <3>1, <3>2, <3>3
  <2>4. pc' \in Places
    BY <1>10 DEF Refuse, ShadowAnswer, ReadPlain, AskRest, Reply, Places
  <2> QED BY <1>2, <1>10, <2>2, <2>3, <2>4
    DEF Refuse, ShadowAnswer, ReadPlain, AskRest, Reply, stream, TypeOK
<1>11. ASSUME NEW r \in Ids, Refill(r)
       PROVE  TypeOK'
  <2>1. /\ base' \in Seq(Tokens) /\ wire' \in Seq(Tokens)
        /\ reader' \in [Ids -> [phase: ReaderPhases, buf: Seq(Tokens)]]
    <3>1. CASE base # <<>>
      <4>1. reader' = [reader EXCEPT ![r].buf = base] /\ base' = <<>> /\ wire' = wire
        BY <1>11, <3>1 DEF Refill
      <4>2. base' \in Seq(Tokens) BY <4>1
      <4> QED BY <1>2, <4>1, <4>2
    <3>2. CASE base = <<>>
      <4>1. PICK k \in Cuts : /\ reader' = [reader EXCEPT ![r].buf = Fetched(k)]
                              /\ wire' = Unfetched(k)
        BY <1>11, <3>2 DEF Refill
      <4>2. Fetched(k) \in Seq(Tokens) /\ Unfetched(k) \in Seq(Tokens)
        BY <1>1, CutsPart
      <4>3. base' = base BY <1>11, <3>2 DEF Refill
      <4> QED BY <1>2, <4>1, <4>2, <4>3
    <3> QED BY <3>1, <3>2
  <2> QED BY <1>2, <1>11, <2>1 DEF Refill, TypeOK
<1>12. ASSUME NEW r \in Ids, TakeChunk(r)
       PROVE  TypeOK'
  <2>1. reader[r].buf \in Seq(Tokens) /\ body[r] \in Seq(Tokens) BY <1>2
  <2>2. Tail(reader[r].buf) \in Seq(Tokens) /\ Head(reader[r].buf) \in Tokens
    BY <1>12, <2>1, TailOf DEF TakeChunk
  <2>3. Append(body[r], Head(reader[r].buf)) \in Seq(Tokens) BY <2>1, <2>2
  <2>4. /\ body' \in [Ids -> Seq(Tokens)]
        /\ reader' \in [Ids -> [phase: ReaderPhases, buf: Seq(Tokens)]]
    BY <1>2, <1>12, <2>2, <2>3 DEF TakeChunk
  <2> QED BY <1>2, <1>12, <2>4 DEF TakeChunk, stream, TypeOK
<1>13. ASSUME NEW r \in Ids, TakeEnd(r) \/ TakeBroken(r)
       PROVE  TypeOK'
  <2>1. Ended(r) \in [phase: ReaderPhases, buf: Seq(Tokens)] BY DEF Ended, ReaderPhases
  <2>2. reader' \in [Ids -> [phase: ReaderPhases, buf: Seq(Tokens)]]
    BY <1>2, <1>13, <2>1 DEF TakeEnd, TakeBroken
  <2>3. pc' \in Places BY <1>2, <1>13 DEF TakeEnd, TakeBroken, Close, Places
  <2> QED BY <1>2, <1>13, <2>2, <2>3 DEF TakeEnd, TakeBroken, Close, stream, TypeOK
<1> QED
  BY <1>3, <1>4, <1>5, <1>6, <1>7, <1>8, <1>9, <1>10, <1>11, <1>12, <1>13
  DEF Next, ClientAnswers, LoopNext, ReaderNext

-----------------------------------------------------------------------------
(* Turns and answers.                                                      *)

LEMMA Header ==
  ASSUME IInv, TakeHeader
  PROVE  /\ Head(base).of = client.asked /\ serving < client.asked
         /\ client.asked \in Ids
         /\ Pending # <<>> /\ Pending[1].kind = "header" /\ OfferAt(1)
<1>1. base \in Seq(Tokens) /\ base # <<>> /\ Head(base).kind = "header"
  BY DEF IInv, TypeOK, TakeHeader
<1>2. Pending \in Seq(Tokens) /\ Pending # <<>> /\ Head(base) = Pending[1]
  BY <1>1, PendingType DEF IInv
<1>3. 1 \in 1..Len(Pending) BY <1>2
<1>4. OfferAt(1) BY <1>1, <1>2, <1>3 DEF IInv, OfferLast
<1>5. Head(base) \in Tokens BY <1>1, TailOf
<1> QED BY <1>1, <1>2, <1>4, <1>5 DEF OfferAt, Tokens

LEMMA TurnsKept ==
  ASSUME IInv, Next
  PROVE  Turns' /\ AnswersMatch'
<1>1. /\ TypeOK /\ Turns /\ AnswersMatch
      /\ client.asked \in Nat /\ serving \in Nat /\ Requests \in Nat
      /\ client \in [asked: 0..Requests, waiting: BOOLEAN, gone: BOOLEAN, torn: BOOLEAN]
      /\ inbox \in Seq(Answers) /\ Len(inbox) \in Nat
  BY BoundsAssumption DEF IInv, TypeOK
<1>2. CASE ClientAsks
  <2>1. /\ client'.asked = client.asked + 1 /\ client'.waiting = TRUE
        /\ client'.gone = client.gone /\ ~client.gone /\ ~client.waiting
        /\ inbox' = inbox /\ serving' = serving /\ pc' = pc
    BY <1>1, <1>2 DEF ClientAsks
  <2>2. inbox = <<>> BY <1>1, <2>1 DEF Turns
  <2> QED BY <1>1, <2>1, <2>2 DEF Turns, AnswersMatch
<1>3. CASE ClientSendsRest
  <2>1. /\ client' = client /\ serving' = serving /\ pc' = pc
        /\ client.waiting /\ inbox # <<>> /\ inbox' = Tail(inbox)
    BY <1>3 DEF ClientSendsRest
  <2>2. /\ Len(inbox') = Len(inbox) - 1 /\ Len(inbox) > 0
        /\ \A i \in 1..(Len(inbox) - 1) : inbox'[i] = inbox[i + 1]
    BY <1>1, <2>1, AnswerTail
  <2>3. ASSUME NEW i \in 1..Len(inbox')
        PROVE  i + 1 \in 1..Len(inbox) /\ inbox'[i] = inbox[i + 1]
    BY <1>1, <2>2
  <2>4. ~client.gone /\ ~(serving < client.asked) /\ pc \notin {"preview", "handle"}
    BY <1>1, <2>1 DEF Turns
  <2>5. AnswersMatch'
    <3> SUFFICES ASSUME NEW i \in 1..Len(inbox')
                 PROVE  /\ inbox'[i].of = client.asked
                        /\ inbox'[i].kind = "final" => i = Len(inbox')
      BY <2>1 DEF AnswersMatch
    <3>1. i + 1 \in 1..Len(inbox) /\ inbox'[i] = inbox[i + 1] BY <2>3
    <3>2. /\ inbox[i + 1].of = client.asked
          /\ inbox[i + 1].kind = "final" => i + 1 = Len(inbox)
      BY <1>1, <2>1, <3>1 DEF AnswersMatch
    <3> QED BY <1>1, <2>2, <3>1, <3>2
  <2>6. pc \in Working => \A i \in 1..Len(inbox') : inbox'[i].kind # "final"
    BY <1>1, <2>3, <2>4 DEF Turns
  <2> QED BY <1>1, <2>1, <2>4, <2>5, <2>6 DEF Turns
<1>4. CASE ClientTakesReply
  <2>1. /\ client'.asked = client.asked /\ client'.waiting = FALSE
        /\ client'.gone = client.gone /\ client.waiting
        /\ inbox' = Tail(inbox) /\ inbox # <<>> /\ Head(inbox).kind = "final"
        /\ serving' = serving /\ pc' = pc
    BY <1>1, <1>4 DEF ClientTakesReply
  <2>2. /\ Len(inbox') = Len(inbox) - 1 /\ Len(inbox) > 0 /\ Head(inbox) = inbox[1]
        /\ inbox' \in Seq(Answers)
    BY <1>1, <2>1, AnswerTail
  <2>3. 1 \in 1..Len(inbox) BY <1>1, <2>2
  <2>4. Len(inbox) = 1 BY <1>1, <2>1, <2>2, <2>3 DEF AnswersMatch
  <2>5. inbox' = <<>> BY <2>2, <2>4
  <2>6. ~client.gone /\ pc \notin Working /\ ~(serving < client.asked)
    BY <1>1, <2>1, <2>2, <2>3 DEF Turns
  <2> QED BY <1>1, <2>1, <2>5, <2>6 DEF Turns, AnswersMatch
<1>5. CASE ClientLeaves \/ ClientSeesClose
  <2>1. /\ client'.asked = client.asked /\ client'.waiting = FALSE
        /\ client'.gone = TRUE
        /\ inbox' = inbox /\ serving' = serving /\ pc' = pc
    BY <1>1, <1>5 DEF ClientLeaves, ClientSeesClose
  <2> QED BY <1>1, <2>1 DEF Turns, AnswersMatch
<1>6. CASE TakeHeader
  <2>1. /\ serving' = client.asked /\ client' = client /\ inbox' = inbox
        /\ serving < client.asked /\ client.asked \in Ids
    BY <1>6, Header DEF TakeHeader
  <2>2. ~client.gone => client.waiting /\ inbox = <<>> BY <1>1, <2>1 DEF Turns
  <2> QED BY <1>1, <2>1, <2>2 DEF Turns, AnswersMatch
<1>7. ASSUME UNCHANGED <<client, inbox, serving>>,
             pc' = pc \/ (pc = "preview" /\ pc' = "handle") \/ pc' \notin Working
      PROVE  Turns' /\ AnswersMatch'
  BY <1>1, <1>7 DEF Turns, AnswersMatch, Working
<1>8. CASE Fill \/ TakeGarbage \/ TakeEof \/ Finalize \/ PreviewRead \/ Panic
  <2>1. /\ UNCHANGED <<client, inbox, serving>>
        /\ pc' = pc \/ (pc = "preview" /\ pc' = "handle") \/ pc' \notin Working
    BY <1>8 DEF Fill, TakeGarbage, TakeEof, Finalize, PreviewRead, Panic, Close, Working
  <2> QED BY <1>7, <2>1
<1>9. ASSUME NEW r \in Ids, ReaderNext(r)
      PROVE  Turns' /\ AnswersMatch'
  <2>1. /\ UNCHANGED <<client, inbox, serving>>
        /\ pc' = pc \/ (pc = "preview" /\ pc' = "handle") \/ pc' \notin Working
    BY <1>9 DEF ReaderNext, Refill, TakeChunk, TakeEnd, TakeBroken, Close, Working
  <2> QED BY <1>7, <2>1
<1>10. CASE ReadPlain
  <2>1. UNCHANGED <<client, inbox, serving>> /\ pc = "handle" /\ pc' = "body"
    BY <1>10 DEF ReadPlain, Fate, Reads, BodyRead
  <2> QED BY <1>1, <2>1 DEF Turns, AnswersMatch, Working
<1>11. CASE Refuse \/ ShadowAnswer \/ Reply \/ AskRest
  <2>1. /\ UNCHANGED <<client, serving>> /\ pc \in Working /\ serving \in Ids
        /\ \/ Send("final") /\ pc' = "idle"
           \/ Send("continue") /\ pc' = "body"
    <3>1. UNCHANGED <<client, serving>> /\ pc \in Working
      BY <1>11 DEF Refuse, ShadowAnswer, Reply, AskRest, Fate, Reads, BodyRead, Working
    <3>2. \/ Send("final") /\ pc' = "idle"
          \/ Send("continue") /\ pc' = "body"
      BY <1>11 DEF Refuse, ShadowAnswer, Reply, AskRest
    <3> QED BY <1>1, <3>1, <3>2 DEF Turns
  <2>2. PICK kind \in {"continue", "final"} :
          Send(kind) /\ pc' = (IF kind = "final" THEN "idle" ELSE "body")
    BY <2>1
  <2>3. /\ Len(inbox') = Len(inbox) + 1
        /\ \A i \in 1..Len(inbox) : inbox'[i] = inbox[i]
        /\ inbox'[Len(inbox) + 1] = [kind |-> kind, of |-> serving]
    BY <1>1, <2>1, <2>2, SendType
  <2>4. ~client.gone => /\ client.waiting /\ serving = client.asked
                        /\ \A i \in 1..Len(inbox) : inbox[i].kind # "final"
    BY <1>1, <2>1 DEF Turns
  <2>5. ASSUME ~client.gone, NEW i \in 1..Len(inbox')
        PROVE  /\ inbox'[i].of = client.asked
               /\ inbox'[i].kind = "final" => i = Len(inbox') /\ kind = "final"
    <3>1. CASE i \in 1..Len(inbox)
      BY <1>1, <2>3, <2>4, <2>5, <3>1 DEF AnswersMatch
    <3>2. CASE i = Len(inbox) + 1 BY <2>3, <2>4, <2>5, <3>2
    <3> QED BY <1>1, <2>3, <3>1, <3>2
  <2>6. AnswersMatch' BY <1>1, <2>1, <2>5 DEF AnswersMatch, Turns
  <2>7. Turns' BY <1>1, <2>1, <2>2, <2>4, <2>5 DEF Turns, Working
  <2> QED BY <2>6, <2>7
<1> QED BY <1>2, <1>3, <1>4, <1>5, <1>6, <1>8, <1>9, <1>10, <1>11
  DEF Next, ClientAnswers, LoopNext

-----------------------------------------------------------------------------
(* What is on its way.                                                     *)

(* A client adds at the end. *)
LEMMA MoreSent ==
  ASSUME TypeOK, NEW s \in Seq(Tokens), wire' = wire \o s, UNCHANGED <<base, reader>>
  PROVE  /\ Pending' = Pending \o s
         /\ \A r \in Ids : Before(r)' = Before(r) \o s
<1>1. base \in Seq(Tokens) /\ wire \in Seq(Tokens) /\ Pending \in Seq(Tokens)
  BY PendingType DEF TypeOK
<1>2. base \o (wire \o s) = (base \o wire) \o s
  <2>1. \A b, p \in Seq(Tokens) : (b \o p) \o s = b \o (p \o s) BY ConcatAssociative
  <2> QED BY <1>1, <2>1
<1>3. Pending' = Pending \o s BY <1>2 DEF Pending
<1>4. ASSUME NEW r \in Ids PROVE Before(r)' = Before(r) \o s
  <2>1. reader[r].buf \in Seq(Tokens) BY ScriptType
  <2>2. Before(r)' = reader[r].buf \o Pending' BY DEF Before
  <2>3. \A b, p \in Seq(Tokens) : (b \o p) \o s = b \o (p \o s)
    BY ConcatAssociative
  <2> QED BY <1>1, <1>3, <2>1, <2>2, <2>3 DEF Before
<1> QED BY <1>3, <1>4

(* The loop takes a header off the front. *)
LEMMA HeaderTaken ==
  ASSUME IInv, TakeHeader
  PROVE  /\ Pending' = Tail(Pending) /\ NoHeaders(Pending')
         /\ Pending' \in Seq(Tokens)
         /\ script[client.asked].framing # "none" =>
              /\ Due(client.asked, 0, script[client.asked].offered, Pending')
              /\ \A i \in 1..Len(Pending') :
                   i > script[client.asked].offered => Pending'[i].kind # "chunk"
<1>1. TypeOK /\ base \in Seq(Tokens) /\ wire \in Seq(Tokens) /\ Pending \in Seq(Tokens)
  BY PendingType DEF IInv, TypeOK
<1>2. base # <<>> /\ base' = Tail(base) /\ wire' = wire BY DEF TakeHeader
<1>3. Pending' = Tail(Pending) BY <1>1, <1>2, TailJoined DEF Pending
<1>4. Pending # <<>> /\ OfferAt(1) /\ client.asked \in Ids BY Header
<1>5. /\ Tail(Pending) \in Seq(Tokens) /\ Len(Tail(Pending)) = Len(Pending) - 1
      /\ Len(Pending) > 0
      /\ \A i \in 1..(Len(Pending) - 1) : Tail(Pending)[i] = Pending[i + 1]
  BY <1>1, <1>4, TailOf
<1>6. /\ Len(Tail(Pending)) = Len(Offer(client.asked)) - 1
      /\ \A j \in 1..Len(Tail(Pending)) : Tail(Pending)[j] = Offer(client.asked)[j + 1]
  <2>1. \A j \in 1..(Len(Pending) - 1) : 1 + j = j + 1 OBVIOUS
  <2> QED BY <1>4, <1>5, <2>1 DEF OfferAt
<1> QED BY <1>1, <1>3, <1>4, <1>5, <1>6, AfterHeader

(* A private reader takes what is there, off the front. *)
LEMMA Refilled ==
  ASSUME IInv, NEW r \in Ids, Refill(r)
  PROVE  /\ reader[r].buf = <<>> /\ Active(r) /\ Before(r)' = Before(r)
         /\ reader'[r].phase = reader[r].phase
         /\ \A q \in Ids : q # r => reader'[q] = reader[q]
         /\ reader'[r].buf \in Seq(Tokens)
         /\ Pending = reader'[r].buf \o Pending' /\ Pending' \in Seq(Tokens)
<1>1. /\ TypeOK /\ base \in Seq(Tokens) /\ wire \in Seq(Tokens)
      /\ Pending \in Seq(Tokens)
      /\ reader \in [Ids -> [phase: ReaderPhases, buf: Seq(Tokens)]]
  BY PendingType DEF IInv, TypeOK
<1>2. reader[r].buf = <<>> /\ Active(r) BY DEF Refill
<1>3. Before(r) = Pending BY <1>1, <1>2, PendingType
<1>4. /\ reader'[r].phase = reader[r].phase
      /\ \A q \in Ids : q # r => reader'[q] = reader[q]
  BY <1>1 DEF Refill
<1>5. /\ reader'[r].buf \in Seq(Tokens) /\ Pending' \in Seq(Tokens)
      /\ Pending = reader'[r].buf \o Pending'
  <2>1. CASE base # <<>>
    <3>1. reader'[r].buf = base /\ base' = <<>> /\ wire' = wire
      BY <1>1, <2>1 DEF Refill
    <3>2. Pending' = wire BY <1>1, <3>1 DEF Pending
    <3> QED BY <1>1, <3>1, <3>2 DEF Pending
  <2>2. CASE base = <<>>
    <3>1. PICK k \in Cuts : /\ reader' = [reader EXCEPT ![r].buf = Fetched(k)]
                            /\ wire' = Unfetched(k)
      BY <2>2 DEF Refill
    <3>2. base' = base BY <2>2 DEF Refill
    <3>3. reader'[r].buf = Fetched(k) BY <1>1, <3>1
    <3>4. /\ Fetched(k) \in Seq(Tokens) /\ Unfetched(k) \in Seq(Tokens)
          /\ Fetched(k) \o Unfetched(k) = wire
      BY <1>1, CutsPart
    <3>5. Pending' = Unfetched(k) /\ Pending = wire
      BY <1>1, <2>2, <3>1, <3>2, <3>4 DEF Pending
    <3> QED BY <3>3, <3>4, <3>5
  <2> QED BY <2>1, <2>2
<1>6. Before(r)' = Before(r) BY <1>3, <1>5 DEF Before
<1> QED BY <1>2, <1>4, <1>5, <1>6

LEMMA FillKeeps ==
  ASSUME IInv, Fill
  PROVE  Pending' = Pending
<1>1. TypeOK /\ wire \in Seq(Tokens) BY DEF IInv, TypeOK
<1>2. PICK k \in Cuts : base' = Fetched(k) /\ wire' = Unfetched(k) BY DEF Fill
<1>3. Fetched(k) \o Unfetched(k) = wire BY <1>1, CutsPart
<1>4. base = <<>> BY DEF Fill
<1> QED BY <1>1, <1>2, <1>3, <1>4 DEF Pending

(* Pending loses its first m tokens. *)
LEMMA OfferStays ==
  ASSUME IInv, UNCHANGED <<script, serving>>, client'.asked = client.asked,
         NEW m \in Nat, Pending' \in Seq(Tokens), Len(Pending') = Len(Pending) - m,
         \A i \in 1..Len(Pending') : Pending'[i] = Pending[i + m]
  PROVE  OfferLast'
<1>1. Pending \in Seq(Tokens) BY PendingType DEF IInv
<1>2. SUFFICES ASSUME NEW i \in 1..Len(Pending'), Pending'[i].kind = "header"
               PROVE  OfferAt(i)'
  BY DEF OfferLast
<1>3. i + m \in 1..Len(Pending) /\ Pending[i + m] = Pending'[i] BY <1>1
<1>4. OfferAt(i + m) BY <1>2, <1>3 DEF IInv, OfferLast
<1>5. Offer(client.asked)' = Offer(client.asked) BY DEF Offer
<1>6. Len(Pending') - i = Len(Pending) - (i + m) BY <1>1
<1>7. \A j \in 1..(Len(Pending') - i) :
        i + j \in 1..Len(Pending') /\ Pending'[i + j] = Pending[(i + m) + j]
  <2> SUFFICES ASSUME NEW j \in 1..(Len(Pending') - i)
               PROVE  i + j \in 1..Len(Pending') /\ Pending'[i + j] = Pending[(i + m) + j]
    OBVIOUS
  <2>1. i + j \in 1..Len(Pending') /\ (i + j) + m = (i + m) + j OBVIOUS
  <2> QED BY <2>1
<1> QED BY <1>3, <1>4, <1>5, <1>6, <1>7 DEF OfferAt

LEMMA OfferKept ==
  ASSUME IInv, Next
  PROVE  OfferLast'
<1>1. /\ TypeOK /\ Turns /\ Pending \in Seq(Tokens)
      /\ client.asked \in Nat /\ serving \in Nat /\ Requests \in Nat
      /\ client \in [asked: 0..Requests, waiting: BOOLEAN, gone: BOOLEAN, torn: BOOLEAN]
  BY BoundsAssumption, PendingType DEF IInv, TypeOK
<1>2. CASE ClientAsks
  <2> DEFINE n == client.asked + 1
             offer == Offer(n)
  <2>1. /\ client'.asked = n /\ ~client.gone /\ ~client.waiting
        /\ wire' = wire \o offer /\ UNCHANGED <<base, reader, script, serving>>
        /\ n \in Ids
    BY <1>1, <1>2 DEF ClientAsks, Ids
  <2>2. ~(serving < client.asked) BY <1>1, <2>1 DEF Turns
  <2>3. NoHeaders(Pending) BY <2>2 DEF IInv, OfferLast, OfferAt, NoHeaders
  <2>4. /\ offer \in Seq(Tokens) /\ Len(offer) >= 1
        /\ offer[1] = Mark(n, "header")
        /\ \A i \in 2..Len(offer) : offer[i].kind # "header"
    BY <1>1, <2>1, OfferFacts
  <2>5. Offer(client.asked)' = offer BY <2>1 DEF Offer
  <2> HIDE DEF offer
  <2>6. Pending' = Pending \o offer BY <1>1, <2>1, <2>4, MoreSent
  <2>7. /\ Len(Pending') = Len(Pending) + Len(offer)
        /\ \A i \in 1..Len(Pending) : Pending'[i] = Pending[i]
        /\ \A i \in 1..Len(offer) : Pending'[Len(Pending) + i] = offer[i]
    BY <1>1, <2>4, <2>6, Joined
  <2>8. SUFFICES ASSUME NEW i \in 1..Len(Pending'), Pending'[i].kind = "header"
                 PROVE  OfferAt(i)'
    BY DEF OfferLast
  <2>9. i = Len(Pending) + 1
    <3>1. CASE i \in 1..Len(Pending) BY <2>3, <2>7, <2>8, <3>1 DEF NoHeaders
    <3>2. CASE i > Len(Pending) + 1
      <4>1. i - Len(Pending) \in 2..Len(offer) /\ Len(Pending) + (i - Len(Pending)) = i
        BY <1>1, <2>4, <2>7, <3>2
      <4>2. i - Len(Pending) \in 1..Len(offer) BY <4>1
      <4> QED BY <2>4, <2>7, <2>8, <4>1, <4>2
    <3> QED BY <1>1, <3>1, <3>2
  <2>10. Pending'[i] = Mark(n, "header") BY <2>4, <2>7, <2>9
  <2>11. Len(Pending') - i = Len(offer) - 1 BY <1>1, <2>4, <2>7, <2>9
  <2>12. ASSUME NEW j \in 1..(Len(Pending') - i)
         PROVE  Pending'[i + j] = offer[j + 1]
    <3>1. j + 1 \in 1..Len(offer) /\ i + j = Len(Pending) + (j + 1)
      BY <1>1, <2>4, <2>9, <2>11
    <3> QED BY <2>7, <3>1
  <2> QED BY <1>1, <2>1, <2>2, <2>5, <2>10, <2>11, <2>12 DEF OfferAt, Mark, Turns
<1>3. CASE ClientSendsRest
  <2>1. /\ client' = client /\ serving' = serving /\ client.waiting /\ inbox # <<>>
        /\ wire' = wire \o Rest(client.asked) /\ UNCHANGED <<base, reader, script>>
    BY <1>3 DEF ClientSendsRest
  <2>2. ~(serving < client.asked) BY <1>1, <2>1 DEF Turns
  <2>3. NoHeaders(Pending) BY <2>2 DEF IInv, OfferLast, OfferAt, NoHeaders
  <2>4. client.asked \in Ids
    <3>1. 1 \in 1..Len(inbox) /\ inbox[1] \in Answers
      BY <1>1, <2>1, AnswerTail DEF TypeOK
    <3> QED BY <2>1, <3>1 DEF IInv, AnswersMatch, Answers
  <2>5. Rest(client.asked) \in Seq(Tokens) /\ NoHeaders(Rest(client.asked))
    BY <1>1, <2>4, RestType
  <2>6. Pending' = Pending \o Rest(client.asked) BY <1>1, <2>1, <2>5, MoreSent
  <2> HIDE DEF Rest
  <2>7. /\ Len(Pending') = Len(Pending) + Len(Rest(client.asked))
        /\ \A i \in 1..Len(Pending) : Pending'[i] = Pending[i]
        /\ \A i \in 1..Len(Rest(client.asked)) :
             Pending'[Len(Pending) + i] = Rest(client.asked)[i]
    BY <1>1, <2>5, <2>6, Joined
  <2>8. ASSUME NEW i \in 1..Len(Pending') PROVE Pending'[i].kind # "header"
    <3>1. CASE i \in 1..Len(Pending) BY <2>3, <2>7, <3>1 DEF NoHeaders
    <3>2. CASE i > Len(Pending)
      <4>1. /\ i - Len(Pending) \in 1..Len(Rest(client.asked))
            /\ Len(Pending) + (i - Len(Pending)) = i
        BY <1>1, <2>5, <2>7, <3>2
      <4> QED BY <2>5, <2>7, <4>1 DEF NoHeaders
    <3> QED BY <1>1, <3>1, <3>2
  <2> QED BY <2>8 DEF OfferLast
<1>4. CASE TakeHeader
  BY <1>4, HeaderTaken DEF OfferLast, NoHeaders
<1>5. ASSUME UNCHANGED <<script, serving>>, client'.asked = client.asked,
             Pending' = Pending
      PROVE  OfferLast'
  <2>1. 0 \in Nat /\ Len(Pending') = Len(Pending) - 0
        /\ \A i \in 1..Len(Pending') : Pending'[i] = Pending[i + 0]
    BY <1>1, <1>5
  <2> QED BY <1>1, <1>5, <2>1, OfferStays
<1>6. CASE Fill
  BY <1>5, <1>6, FillKeeps DEF Fill
<1>7. ASSUME NEW r \in Ids, Refill(r)
      PROVE  OfferLast'
  <2> DEFINE m == Len(reader'[r].buf)
  <2>1. /\ reader'[r].buf \in Seq(Tokens) /\ Pending' \in Seq(Tokens)
        /\ Pending = reader'[r].buf \o Pending'
    BY <1>7, Refilled
  <2>2. /\ m \in Nat /\ Len(Pending) = m + Len(Pending')
        /\ \A i \in 1..Len(Pending') : Pending[m + i] = Pending'[i]
    BY <2>1, Joined
  <2> HIDE DEF m
  <2>3. /\ Len(Pending') = Len(Pending) - m
        /\ \A i \in 1..Len(Pending') : Pending'[i] = Pending[i + m]
    <3>1. Len(Pending') \in Nat BY <2>1
    <3>2. \A i \in 1..Len(Pending') : i + m = m + i BY <2>2, <3>1
    <3> QED BY <2>2, <3>1, <3>2
  <2>4. UNCHANGED <<script, serving>> /\ client'.asked = client.asked
    BY <1>7 DEF Refill
  <2> QED BY <2>1, <2>2, <2>3, <2>4, OfferStays
<1>8. CASE \/ ClientTakesReply \/ ClientLeaves \/ ClientSeesClose
           \/ TakeGarbage \/ TakeEof \/ PreviewRead
           \/ Refuse \/ ShadowAnswer \/ Panic \/ Finalize
           \/ ReadPlain \/ AskRest \/ Reply
  <2>1. UNCHANGED <<script, serving, base, wire>> /\ client'.asked = client.asked
    BY <1>1, <1>8 DEF ClientTakesReply, ClientLeaves, ClientSeesClose, TakeGarbage,
      TakeEof, PreviewRead, Refuse, ShadowAnswer, Panic, Finalize, ReadPlain, AskRest,
      Reply, Close, stream
  <2> QED BY <1>5, <2>1 DEF Pending
<1>9. ASSUME NEW r \in Ids, TakeChunk(r) \/ TakeEnd(r) \/ TakeBroken(r)
      PROVE  OfferLast'
  <2>1. UNCHANGED <<script, serving, base, wire>> /\ client'.asked = client.asked
    BY <1>9 DEF TakeChunk, TakeEnd, TakeBroken, Close, stream
  <2> QED BY <1>5, <2>1 DEF Pending
<1> QED BY <1>2, <1>3, <1>4, <1>6, <1>7, <1>8, <1>9
  DEF Next, ClientAnswers, LoopNext, ReaderNext

-----------------------------------------------------------------------------
(* The readers and the loop.                                               *)

(* What a step of reader r does to r, and that it leaves the others alone. *)
LEMMA ChunkTaken ==
  ASSUME IInv, NEW r \in Ids, TakeChunk(r)
  PROVE  /\ UNCHANGED <<script, client, base, wire, pc, serving, inbox>>
         /\ Active(r) /\ reader[r].buf # <<>> /\ reader[r].buf[1].kind = "chunk"
         /\ \A q \in Ids : q # r => reader'[q] = reader[q] /\ body'[q] = body[q]
         /\ reader'[r].phase = reader[r].phase
         /\ reader'[r].buf = Tail(reader[r].buf)
         /\ body'[r] = Append(body[r], reader[r].buf[1])
         /\ Len(body'[r]) = Len(body[r]) + 1
         /\ Before(r) # <<>> /\ Before(r)[1] = reader[r].buf[1]
         /\ Before(r)' = Tail(Before(r))
<1>1. /\ TypeOK /\ reader[r].buf \in Seq(Tokens) /\ body[r] \in Seq(Tokens)
      /\ Pending \in Seq(Tokens)
      /\ reader \in [Ids -> [phase: ReaderPhases, buf: Seq(Tokens)]]
      /\ body \in [Ids -> Seq(Tokens)]
  BY PendingType DEF IInv, TypeOK
<1>2. /\ UNCHANGED <<script, client, base, wire, pc, serving, inbox>>
      /\ Active(r) /\ reader[r].buf # <<>> /\ Head(reader[r].buf).kind = "chunk"
  BY DEF TakeChunk, stream
<1>3. /\ Head(reader[r].buf) = reader[r].buf[1] /\ Head(reader[r].buf) \in Tokens
      /\ Len(reader[r].buf) > 0
  BY <1>1, <1>2, TailOf
<1>4. /\ \A q \in Ids : q # r => reader'[q] = reader[q] /\ body'[q] = body[q]
      /\ reader'[r].phase = reader[r].phase
      /\ reader'[r].buf = Tail(reader[r].buf)
      /\ body'[r] = Append(body[r], reader[r].buf[1])
  BY <1>1, <1>3 DEF TakeChunk
<1>5. Len(body'[r]) = Len(body[r]) + 1 BY <1>1, <1>3, <1>4, AppendProperties
<1>6. Pending' = Pending BY <1>2 DEF Pending
<1>7. Before(r)' = Tail(Before(r)) /\ Before(r) # <<>>
  BY <1>1, <1>2, <1>4, <1>6, TailJoined DEF Before
<1>8. Before(r)[1] = reader[r].buf[1] BY <1>1, <1>3, Joined DEF Before
<1> QED BY <1>2, <1>3, <1>4, <1>5, <1>7, <1>8

LEMMA ReaderEnded ==
  ASSUME IInv, NEW r \in Ids, TakeEnd(r) \/ TakeBroken(r)
  PROVE  /\ UNCHANGED <<script, client, base, wire, body, serving, inbox>>
         /\ Active(r) /\ Pending' = Pending
         /\ \A q \in Ids : q # r => reader'[q] = reader[q]
         /\ reader'[r].buf = <<>>
         /\ reader'[r].phase = IF reader[r].phase = "preview" THEN "previewed" ELSE "done"
         /\ pc' = pc \/ (reader[r].phase = "preview" /\ pc' = "closed" /\ TakeBroken(r))
<1>1. /\ reader \in [Ids -> [phase: ReaderPhases, buf: Seq(Tokens)]]
  BY DEF IInv, TypeOK
<1>2. /\ UNCHANGED <<script, client, base, wire, body, serving, inbox>> /\ Active(r)
      /\ reader' = [reader EXCEPT ![r] = Ended(r)]
      /\ pc' = pc \/ (reader[r].phase = "preview" /\ pc' = "closed" /\ TakeBroken(r))
  BY DEF TakeEnd, TakeBroken, Close, stream
<1>3. reader'[r] = Ended(r) /\ \A q \in Ids : q # r => reader'[q] = reader[q]
  BY <1>1, <1>2
<1> QED BY <1>2, <1>3 DEF Ended, Pending

(* The header starts the request after the one served last. *)
LEMMA Begun ==
  ASSUME IInv, TakeHeader
  PROVE  /\ serving' = client.asked /\ serving < client.asked /\ client.asked \in Ids
         /\ reader[client.asked] = Fresh /\ body[client.asked] = <<>>
         /\ UNCHANGED <<script, client, body>> /\ pc = "idle"
         /\ \A q \in Ids : q # client.asked => reader'[q] = reader[q]
         /\ \/ /\ script[client.asked].framing = "preview"
               /\ pc' = "preview" /\ reader'[client.asked].phase = "preview"
               /\ reader'[client.asked].buf = <<>>
            \/ /\ script[client.asked].framing # "preview"
               /\ pc' = "handle" /\ reader'[client.asked] = Fresh
<1>1. /\ Head(base).of = client.asked /\ serving < client.asked /\ client.asked \in Ids
  BY Header
<1>2. /\ reader \in [Ids -> [phase: ReaderPhases, buf: Seq(Tokens)]]
      /\ client.asked \in Nat /\ serving \in Nat
  BY BoundsAssumption DEF IInv, TypeOK
<1>3. reader[client.asked] = Fresh /\ body[client.asked] = <<>>
  BY <1>1, <1>2 DEF IInv, Phased
<1>4. CASE script[client.asked].framing = "preview"
  <2>1. /\ reader' = [reader EXCEPT ![client.asked].phase = "preview"]
        /\ pc' = "preview"
    BY <1>1, <1>4 DEF TakeHeader
  <2>2. /\ reader'[client.asked].phase = "preview"
        /\ reader'[client.asked].buf = <<>>
        /\ \A q \in Ids : q # client.asked => reader'[q] = reader[q]
    BY <1>1, <1>2, <1>3, <2>1 DEF Fresh
  <2> QED BY <1>1, <1>3, <1>4, <2>1, <2>2 DEF TakeHeader
<1>5. CASE script[client.asked].framing # "preview"
  BY <1>1, <1>3, <1>5 DEF TakeHeader
<1> QED BY <1>4, <1>5

(* The handler starts a reader. *)
LEMMA Started ==
  ASSUME IInv, ShadowAnswer \/ ReadPlain \/ AskRest
  PROVE  /\ UNCHANGED <<script, client, base, wire, body, serving>>
         /\ Pending' = Pending /\ pc = "handle" /\ serving \in Ids
         /\ \A q \in Ids : q # serving => reader'[q] = reader[q]
         /\ reader'[serving].buf = reader[serving].buf
         /\ \/ ShadowAnswer /\ reader' = reader /\ pc' = "idle"
            \/ /\ ShadowAnswer \/ ReadPlain
               /\ script[serving].framing = "plain"
               /\ reader'[serving].phase = "plain"
               /\ pc' = IF ShadowAnswer THEN "idle" ELSE "body"
            \/ /\ AskRest /\ script[serving].framing = "preview"
               /\ reader'[serving].phase = "rest" /\ pc' = "body"
<1>1. reader \in [Ids -> [phase: ReaderPhases, buf: Seq(Tokens)]]
  BY DEF IInv, TypeOK
<1>2. /\ pc = "handle" /\ UNCHANGED <<script, client, base, wire, body, serving>>
  BY DEF ShadowAnswer, ReadPlain, AskRest, Fate, Reads, BodyRead, stream
<1>3. serving \in Ids BY <1>2 DEF IInv, Turns, Working
<1>4. Pending' = Pending BY <1>2 DEF Pending
<1>5. CASE ShadowAnswer
  <2>1. CASE script[serving].framing = "plain"
    BY <1>1, <1>2, <1>3, <1>4, <1>5, <2>1 DEF ShadowAnswer
  <2>2. CASE script[serving].framing # "plain"
    BY <1>1, <1>2, <1>3, <1>4, <1>5, <2>2 DEF ShadowAnswer
  <2> QED BY <2>1, <2>2
<1>6. CASE ReadPlain /\ ~ShadowAnswer
  BY <1>1, <1>2, <1>3, <1>4, <1>6 DEF ReadPlain
<1>7. CASE AskRest
  BY <1>1, <1>2, <1>3, <1>4, <1>7 DEF AskRest
<1> QED BY <1>5, <1>6, <1>7

(* What leaves reader, body and serving as they are. *)
Idling ==
  \/ ClientAsks \/ ClientSendsRest \/ ClientTakesReply \/ ClientLeaves
  \/ ClientSeesClose \/ Fill \/ TakeGarbage \/ TakeEof \/ PreviewRead
  \/ Refuse \/ Panic \/ Finalize \/ Reply

LEMMA Idled ==
  ASSUME IInv, Idling
  PROVE  /\ UNCHANGED <<script, reader, body, serving>>
         /\ \/ pc' = pc
            \/ pc = "preview" /\ pc' = "handle" /\ reader[serving].phase = "previewed"
            \/ pc \in {"idle", "abandoned"} /\ pc' = "closed"
            \/ pc = "handle" /\ pc' \in {"idle", "abandoned"}
            \/ /\ pc = "body" /\ pc' \in {"idle", "abandoned"}
               /\ reader[serving].phase = "done"
BY DEF Idling, ClientAsks, ClientSendsRest, ClientTakesReply, ClientLeaves,
  ClientSeesClose, Fill, TakeGarbage, TakeEof, PreviewRead, Refuse, Panic, Finalize,
  Reply, Close, stream, Fate, Reads, BodyRead

LEMMA PhasedKept ==
  ASSUME IInv, Next
  PROVE  Phased'
<1>1. /\ TypeOK /\ Phased /\ serving \in Nat /\ client.asked \in Nat
      /\ \A r \in Ids : r \in Nat
      /\ pc \in {"preview", "handle"} => serving \in Ids
  <2>1. TypeOK /\ Phased /\ Turns BY DEF IInv
  <2>2. serving \in Nat /\ client.asked \in Nat BY <2>1, BoundsAssumption DEF TypeOK
  <2> QED BY <2>1, <2>2, BoundsAssumption DEF Ids, Turns, Working
<1>2. CASE Idling
  BY <1>1, <1>2, Idled DEF Phased, Active
<1>3. CASE TakeHeader
  <2>1. \A r \in Ids : reader[r].phase \notin {"preview", "rest"}
    BY <1>1, <1>3, Begun DEF Phased
  <2> QED BY <1>1, <1>3, <2>1, Begun DEF Phased, Active, Fresh
<1>4. CASE ShadowAnswer \/ ReadPlain \/ AskRest
  <2>1. \A r \in Ids : reader[r].phase \notin {"preview", "rest"}
    BY <1>1, <1>4, Started DEF Phased
  <2> QED BY <1>1, <1>4, <2>1, Started DEF Phased, Active
<1>5. ASSUME NEW r \in Ids, Refill(r)
      PROVE  Phased'
  <2>1. ~(r > serving) BY <1>1, <1>5, Refilled DEF Phased, Active, Fresh
  <2>2. UNCHANGED <<script, body, serving, pc>> BY <1>5 DEF Refill
  <2>3. /\ \A q \in Ids : q # r => reader'[q] = reader[q]
        /\ \A q \in Ids : reader'[q].phase = reader[q].phase
        /\ Active(r)
    BY <1>5, Refilled
  <2> QED BY <1>1, <2>1, <2>2, <2>3 DEF Phased, Active
<1>6. ASSUME NEW r \in Ids, TakeChunk(r)
      PROVE  Phased'
  <2>1. ~(r > serving) BY <1>1, <1>6, ChunkTaken DEF Phased, Active, Fresh
  <2>2. /\ \A q \in Ids : q # r => reader'[q] = reader[q] /\ body'[q] = body[q]
        /\ \A q \in Ids : reader'[q].phase = reader[q].phase
        /\ Active(r) /\ UNCHANGED <<script, serving, pc>>
    BY <1>6, ChunkTaken
  <2> QED BY <1>1, <2>1, <2>2 DEF Phased, Active
<1>7. ASSUME NEW r \in Ids, TakeEnd(r) \/ TakeBroken(r)
      PROVE  Phased'
  <2>1. ~(r > serving) BY <1>1, <1>7, ReaderEnded DEF Phased, Active, Fresh
  <2>2. /\ UNCHANGED <<script, body, serving>>
        /\ \A q \in Ids : q # r => reader'[q] = reader[q]
        /\ reader'[r].buf = <<>>
        /\ reader'[r].phase = IF reader[r].phase = "preview" THEN "previewed" ELSE "done"
        /\ pc' = pc \/ (reader[r].phase = "preview" /\ pc' = "closed")
    BY <1>7, ReaderEnded
  <2>3. \A q \in Ids : q > serving' => reader'[q] = Fresh /\ body'[q] = <<>>
    BY <1>1, <2>1, <2>2 DEF Phased
  <2>4. \A q \in Ids : ~Active(q)' => reader'[q].buf = <<>>
    BY <1>1, <2>2 DEF Phased, Active
  <2>5. \A q \in Ids : reader'[q].phase \in {"preview", "rest"} =>
          q # r /\ reader'[q] = reader[q]
    BY <2>2
  <2>6. reader[r].phase = "preview" => serving = r BY <1>1 DEF Phased
  <2>7. \A q \in Ids : reader'[q].phase = "preview" => pc' = "preview" /\ serving' = q
    BY <1>1, <2>2, <2>5, <2>6 DEF Phased
  <2>8. \A q \in Ids : reader'[q].phase = "rest" => pc' = "body" /\ serving' = q
    BY <1>1, <2>2, <2>5, <2>6 DEF Phased
  <2>9. Active(r) BY <1>7, ReaderEnded
  <2>10. pc' = "preview" => /\ reader'[serving].phase \in {"preview", "previewed"}
                            /\ script[serving].framing = "preview"
    BY <1>1, <2>2, <2>9 DEF Phased, Active
  <2>11. pc' = "handle" /\ script[serving].framing = "preview" =>
           reader'[serving].phase = "previewed"
    BY <1>1, <2>2, <2>9 DEF Phased, Active
  <2> QED BY <2>2, <2>3, <2>4, <2>7, <2>8, <2>10, <2>11 DEF Phased
<1> QED BY <1>2, <1>3, <1>4, <1>5, <1>6, <1>7
  DEF Next, ClientAnswers, LoopNext, ReaderNext, Idling

-----------------------------------------------------------------------------
(* Bodies.                                                                 *)

LEMMA RunBefore ==
  ASSUME IInv, NEW r \in Ids, InRun(r)
  PROVE  Due(r, Len(body[r]), script[r].offered, Before(r))
<1>1. /\ TypeOK /\ reader[r].buf \in Seq(Tokens) /\ Pending \in Seq(Tokens)
      /\ Len(body[r]) \in Nat /\ script[r].offered \in Nat
  BY ScriptType, PendingType DEF IInv
<1>2. CASE Fed(r) BY <1>1, <1>2, DueLonger DEF Fed, Before
<1>3. CASE ~Fed(r) BY <1>3 DEF Unfed, IInv, RunsWhole
<1> QED BY <1>2, <1>3

(* While a handler runs, or a header is taken, every run has been fetched. *)
LEMMA AllFed ==
  ASSUME IInv, pc = "handle" \/ TakeHeader, NEW r \in Ids
  PROVE  ~Unfed(r)
<1>1. CASE pc = "handle" BY <1>1 DEF IInv, RunsWhole
<1>2. CASE TakeHeader
  <2> SUFFICES ASSUME Unfed(r) PROVE FALSE OBVIOUS
  <2>1. /\ reader[r].buf \in Seq(Tokens) /\ Pending \in Seq(Tokens)
        /\ Len(body[r]) \in Nat /\ script[r].offered \in Nat
    BY ScriptType, PendingType DEF IInv
  <2>2. Due(r, Len(body[r]), script[r].offered, reader[r].buf \o Pending)
    BY RunBefore DEF Unfed, Before
  <2>3. ~Due(r, Len(body[r]), script[r].offered, reader[r].buf)
    BY DEF Unfed, Fed
  <2>4. Pending[1].kind \in {"chunk", "zero"} BY <2>1, <2>2, <2>3, DueBeyond
  <2> QED BY <1>2, <2>4, Header
<1> QED BY <1>1, <1>2

(* Who fetches is the only one to do so. *)
LEMMA Refiller ==
  ASSUME IInv, NEW r \in Ids, Refill(r)
  PROVE  /\ pc # "handle" /\ (pc = "preview" => r = serving)
         /\ \A q \in Ids : Unfed(q) => q = r
         /\ \A q \in Ids : reader[q].phase \in {"preview", "rest"} => q = r
         /\ InRun(r) => Unfed(r)
<1>1. /\ reader[r].buf = <<>> /\ Active(r) /\ Phased /\ RunsWhole
      /\ Len(body[r]) \in Nat /\ script[r].offered \in Nat
  BY Refilled, ScriptType DEF IInv
<1>2. ~Fed(r)
  <2>1. Len(reader[r].buf) = 0 BY <1>1
  <2> QED BY <1>1, <2>1 DEF Fed, Due
<1>3. CASE InRun(r)
  <2>1. Unfed(r) BY <1>2, <1>3 DEF Unfed
  <2>2. /\ pc # "handle" /\ (pc \in {"preview", "body"} => r = serving)
        /\ \A q \in Ids : Unfed(q) => q = r
    BY <1>1, <2>1 DEF RunsWhole
  <2> QED BY <1>1, <2>1, <2>2 DEF Phased
<1>4. CASE reader[r].phase = "rest"
  <2>1. pc = "body" /\ serving = r /\ ~InRun(r) BY <1>1, <1>4 DEF Phased, InRun
  <2>2. \A q \in Ids : Unfed(q) => q = r BY <1>1, <2>1 DEF RunsWhole
  <2> QED BY <1>1, <2>1, <2>2 DEF Phased
<1> QED BY <1>1, <1>3, <1>4 DEF Active, InRun

(* The client is silent while a handler does not wait for it. *)
LEMMA Silent ==
  ASSUME IInv, Idling
  PROVE  /\ pc \in {"preview", "handle"} => Pending' = Pending
         /\ pc = "body" =>
              \/ Pending' = Pending
              \/ /\ client.asked = serving
                 /\ Pending' = Pending \o Rest(serving)
         /\ \E s \in Seq(Tokens) : \/ Pending' = Pending
                                   \/ /\ Pending' = Pending \o s
<1>1. TypeOK /\ Turns /\ client.asked \in Nat /\ Requests \in Nat
  BY BoundsAssumption DEF IInv, TypeOK
<1>2. CASE ClientAsks
  <2>1. client.asked + 1 \in Ids BY <1>1, <1>2 DEF ClientAsks, Ids
  <2>2. Offer(client.asked + 1) \in Seq(Tokens) BY <1>1, <2>1, OfferFacts
  <2>3. Pending' = Pending \o Offer(client.asked + 1)
    BY <1>1, <1>2, <2>2, MoreSent DEF ClientAsks
  <2>4. pc \notin Working BY <1>1, <1>2 DEF ClientAsks, Turns
  <2> QED BY <2>2, <2>3, <2>4 DEF Working
<1>3. CASE ClientSendsRest
  <2>1. client.waiting /\ inbox # <<>> BY <1>3 DEF ClientSendsRest
  <2>2. ~client.gone /\ pc \notin {"preview", "handle"} BY <1>1, <2>1 DEF Turns
  <2>3. client.asked \in Ids
    <3>1. 1 \in 1..Len(inbox) /\ inbox[1] \in Answers
      BY <1>1, <2>1, AnswerTail DEF TypeOK
    <3> QED BY <2>1, <3>1 DEF IInv, AnswersMatch, Answers
  <2>4. Rest(client.asked) \in Seq(Tokens) BY <1>1, <2>3, RestType
  <2>5. Pending' = Pending \o Rest(client.asked)
    BY <1>1, <1>3, <2>4, MoreSent DEF ClientSendsRest
  <2>6. pc = "body" => client.asked = serving BY <1>1, <2>2 DEF Turns, Working
  <2> QED BY <2>2, <2>4, <2>5, <2>6
<1>4. CASE ~ClientAsks /\ ~ClientSendsRest
  <2>1. Fill => Pending' = Pending BY FillKeeps
  <2>2. ASSUME ~Fill PROVE Pending' = Pending
    <3>1. UNCHANGED <<base, wire>>
      BY <1>4, <2>2 DEF Idling, ClientTakesReply, ClientLeaves, ClientSeesClose,
        TakeGarbage, TakeEof, PreviewRead, Refuse, Panic, Finalize, Reply, Close, stream
    <3> QED BY <3>1 DEF Pending
  <2>3. Pending' = Pending BY <2>1, <2>2
  <2>4. <<>> \in Seq(Tokens) OBVIOUS
  <2> QED BY <2>3, <2>4
<1> QED BY <1>2, <1>3, <1>4

LEMMA RunsKept ==
  ASSUME IInv, Next
  PROVE  RunsWhole'
<1>1. /\ TypeOK /\ RunsWhole /\ Phased /\ Pending \in Seq(Tokens)
      /\ \A r \in Ids : /\ reader[r].buf \in Seq(Tokens) /\ Before(r) \in Seq(Tokens)
                        /\ Len(body[r]) \in Nat /\ script[r].offered \in Nat
  BY ScriptType, PendingType DEF IInv
<1>2. CASE Idling
  <2>1. /\ UNCHANGED <<script, reader, body, serving>>
        /\ \A r \in Ids : Unfed(r)' <=> Unfed(r)
    <3>1. UNCHANGED <<script, reader, body, serving>> BY <1>2, Idled
    <3> QED BY <3>1 DEF Unfed, InRun, Fed
  <2>2. PICK s \in Seq(Tokens) : Pending' = Pending \/ Pending' = Pending \o s
    BY <1>2, Silent
  <2>3. ASSUME NEW r \in Ids, Unfed(r)
        PROVE  Due(r, Len(body[r]), script[r].offered, Before(r)')
    <3>1. Due(r, Len(body[r]), script[r].offered, Before(r)) BY <1>1, <2>3 DEF RunsWhole
    <3>2. Before(r)' = reader[r].buf \o Pending' BY <2>1 DEF Before
    <3>3. CASE Pending' = Pending BY <3>1, <3>2, <3>3 DEF Before
    <3>4. CASE Pending' = Pending \o s
      <4>1. \A b, p \in Seq(Tokens) : (b \o p) \o s = b \o (p \o s)
        BY <2>2, ConcatAssociative
      <4>2. Before(r)' = Before(r) \o s BY <1>1, <3>2, <3>4, <4>1 DEF Before
      <4> QED BY <1>1, <2>2, <3>1, <4>2, DueLonger
    <3> QED BY <2>2, <3>3, <3>4
  <2>4. ASSUME NEW r \in Ids, Unfed(r)
        PROVE  pc' # "handle" /\ (pc' \in {"preview", "body"} => r = serving)
    <3>1. reader[serving].phase = "previewed" => r # serving
      BY <2>4 DEF Unfed, InRun
    <3> QED BY <1>1, <1>2, <2>4, <3>1, Idled DEF RunsWhole
  <2>5. \A r, q \in Ids : Unfed(r)' /\ Unfed(q)' => q = r BY <1>1, <2>1 DEF RunsWhole
  <2> QED BY <2>1, <2>3, <2>4, <2>5 DEF RunsWhole
<1>3. CASE TakeHeader
  <2>1. PICK h \in Ids : h = client.asked BY <1>3, Header
  <2>2. /\ UNCHANGED <<script, body>> /\ serving' = h /\ body[h] = <<>>
        /\ \A q \in Ids : q # h => reader'[q] = reader[q]
        /\ \/ /\ script[h].framing = "preview" /\ pc' = "preview"
              /\ reader'[h].buf = <<>>
           \/ reader'[h].phase = "unused"
    BY <1>3, <2>1, Begun DEF Fresh
  <2>3. \A q \in Ids : q # h => (Unfed(q)' <=> Unfed(q))
    BY <2>2 DEF Unfed, InRun, Fed
  <2>4. \A q \in Ids : ~Unfed(q) BY <1>3, AllFed
  <2>5. ASSUME Unfed(h)'
        PROVE  pc' = "preview" /\ Due(h, Len(body[h])', script[h].offered', Before(h)')
    <3>1. /\ pc' = "preview" /\ reader'[h].buf = <<>> /\ script[h].framing = "preview"
      BY <2>2, <2>5 DEF Unfed, InRun
    <3>2. Due(h, 0, script[h].offered, Pending') /\ Pending' \in Seq(Tokens)
      BY <1>3, <2>1, <3>1, HeaderTaken
    <3>3. Before(h)' = Pending' BY <3>1, <3>2 DEF Before
    <3>4. Len(body[h])' = 0 BY <2>2
    <3> QED BY <2>2, <3>1, <3>2, <3>3, <3>4
  <2>6. \A q \in Ids : Unfed(q)' => q = h BY <2>3, <2>4
  <2> QED BY <2>2, <2>5, <2>6 DEF RunsWhole
<1>4. CASE ShadowAnswer \/ ReadPlain \/ AskRest
  <2>1. \A q \in Ids : q # serving => (Unfed(q)' <=> Unfed(q))
    BY <1>4, Started DEF Unfed, InRun, Fed
  <2>2. pc = "handle" /\ serving \in Ids /\ UNCHANGED <<script, body, serving>>
        /\ Pending' = Pending
    BY <1>4, Started
  <2>3. \A q \in Ids : ~Unfed(q) BY <2>2, AllFed
  <2>4. ASSUME Unfed(serving)'
        PROVE  /\ pc' \in {"idle", "body"}
               /\ Due(serving, Len(body[serving])', script[serving].offered', Before(serving)')
    <3>1. /\ script[serving].framing = "plain" /\ pc' \in {"idle", "body"}
          /\ reader'[serving].buf = reader[serving].buf
      <4>1. reader' # reader
        BY <2>2, <2>3, <2>4 DEF Unfed, InRun, Fed
      <4>2. reader'[serving].phase # "rest" BY <2>2, <2>4 DEF Unfed, InRun
      <4> QED BY <1>4, <4>1, <4>2, Started
    <3>2. /\ reader[serving] = Fresh /\ body[serving] = <<>>
          /\ Due(serving, 0, script[serving].offered, Pending)
      BY <2>2, <3>1 DEF IInv, Unread
    <3>3. Before(serving)' = Pending BY <1>1, <2>2, <3>1, <3>2 DEF Before, Fresh
    <3>4. Len(body[serving])' = 0 BY <2>2, <3>2
    <3> QED BY <2>2, <3>1, <3>2, <3>3, <3>4
  <2> QED BY <2>1, <2>2, <2>3, <2>4 DEF RunsWhole
<1>5. ASSUME NEW r \in Ids, Refill(r)
      PROVE  RunsWhole'
  <2>1. /\ UNCHANGED <<script, body, serving, pc>>
        /\ Before(r)' = Before(r) /\ reader'[r].phase = reader[r].phase
        /\ \A q \in Ids : q # r => reader'[q] = reader[q]
    BY <1>5, Refilled DEF Refill
  <2>2. \A q \in Ids : q # r => (Unfed(q)' <=> Unfed(q))
    BY <2>1 DEF Unfed, InRun, Fed
  <2>3. \A q \in Ids : Unfed(q) => q = r BY <1>5, Refiller
  <2>4. Unfed(r)' => Unfed(r)
    <3>1. Unfed(r)' => InRun(r) BY <2>1 DEF Unfed, InRun
    <3> QED BY <1>5, <3>1, Refiller
  <2>5. Unfed(r) => Due(r, Len(body[r])', script[r].offered', Before(r)')
    BY <1>1, <2>1 DEF RunsWhole
  <2> QED BY <1>1, <2>1, <2>2, <2>3, <2>4, <2>5 DEF RunsWhole
<1>6. ASSUME NEW r \in Ids, TakeChunk(r)
      PROVE  RunsWhole'
  <2> DEFINE n == Len(body[r])
  <2>1. /\ UNCHANGED <<script, base, wire, pc, serving>>
        /\ reader[r].buf # <<>> /\ reader[r].buf[1].kind = "chunk"
        /\ \A q \in Ids : q # r => reader'[q] = reader[q] /\ body'[q] = body[q]
        /\ reader'[r].phase = reader[r].phase
        /\ reader'[r].buf = Tail(reader[r].buf)
        /\ Len(body'[r]) = n + 1
        /\ Before(r)[1] = reader[r].buf[1] /\ Before(r)' = Tail(Before(r))
    BY <1>6, ChunkTaken
  <2>2. \A q \in Ids : q # r => (Unfed(q)' <=> Unfed(q)) /\ Before(q)' = Before(q)
    BY <2>1 DEF Unfed, InRun, Fed, Before, Pending
  <2>3. Unfed(r)' => Unfed(r)
    <3>1. Fed(r) => Fed(r)'
      <4> SUFFICES ASSUME Fed(r) PROVE Fed(r)' OBVIOUS
      <4>1. Due(r, n + 1, script[r].offered, Tail(reader[r].buf))
        BY <1>1, <2>1, DueTail DEF Fed
      <4> QED BY <2>1, <4>1 DEF Fed
    <3>2. InRun(r)' <=> InRun(r) BY <2>1 DEF InRun
    <3> QED BY <3>1, <3>2 DEF Unfed
  <2>4. Unfed(r) => Due(r, Len(body[r])', script[r].offered', Before(r)')
    <3> SUFFICES ASSUME Unfed(r)
                 PROVE  Due(r, Len(body[r])', script[r].offered', Before(r)')
      OBVIOUS
    <3>1. Due(r, n, script[r].offered, Before(r)) BY RunBefore DEF Unfed
    <3>2. Due(r, n + 1, script[r].offered, Tail(Before(r)))
      BY <1>1, <2>1, <3>1, DueTail
    <3> QED BY <2>1, <3>2
  <2>5. \A q \in Ids : Unfed(q)' => Unfed(q) BY <2>2, <2>3
  <2>6. \A q \in Ids : Unfed(q) => Due(q, Len(body[q])', script[q].offered', Before(q)')
    BY <1>1, <2>1, <2>2, <2>4 DEF RunsWhole
  <2> QED BY <1>1, <2>1, <2>5, <2>6 DEF RunsWhole
<1>7. ASSUME NEW r \in Ids, TakeEnd(r) \/ TakeBroken(r)
      PROVE  RunsWhole'
  <2>1. /\ UNCHANGED <<script, body, serving>> /\ Pending' = Pending
        /\ pc' \in {pc, "closed"}
        /\ \A q \in Ids : q # r => reader'[q] = reader[q]
        /\ reader'[r].phase \in {"previewed", "done"}
    BY <1>7, ReaderEnded
  <2>2. \A q \in Ids : q # r => (Unfed(q)' <=> Unfed(q)) /\ Before(q)' = Before(q)
    BY <2>1 DEF Unfed, InRun, Fed, Before
  <2>3. ~Unfed(r)' BY <2>1 DEF Unfed, InRun
  <2> QED BY <1>1, <2>1, <2>2, <2>3 DEF RunsWhole
<1> QED BY <1>2, <1>3, <1>4, <1>5, <1>6, <1>7
  DEF Next, ClientAnswers, LoopNext, ReaderNext, Idling

LEMMA PreviewKept ==
  ASSUME IInv, Next
  PROVE  PreviewLast'
<1>1. /\ TypeOK /\ PreviewLast /\ Phased /\ Pending \in Seq(Tokens)
      /\ pc \in {"preview", "handle"} => serving \in Ids
      /\ \A r \in Ids : /\ reader[r].buf \in Seq(Tokens) /\ Before(r) \in Seq(Tokens)
                        /\ Len(body[r]) \in Nat /\ script[r].offered \in Nat
  BY ScriptType, PendingType DEF IInv, Turns, Working
<1>2. CASE Idling
  <2>1. UNCHANGED <<script, reader, body, serving>> BY <1>2, Idled
  <2>2. pc \in {"preview", "handle"} => Pending' = Pending BY <1>2, Silent
  <2>3. pc' \in {"preview", "handle"} => pc \in {"preview", "handle"} BY <1>2, Idled
  <2>4. ASSUME NEW r \in Ids, reader[r].phase = "preview"
        PROVE  Before(r)' = Before(r)
    BY <1>1, <2>1, <2>2, <2>4 DEF Phased, Before
  <2> QED BY <1>1, <2>1, <2>2, <2>3, <2>4 DEF PreviewLast, NoChunks
<1>3. CASE TakeHeader
  <2>1. PICK h \in Ids : h = client.asked BY <1>3, Header
  <2>2. /\ UNCHANGED <<script, body>> /\ serving' = h /\ body[h] = <<>> /\ pc = "idle"
        /\ \A q \in Ids : q # h => reader'[q] = reader[q]
        /\ \/ /\ script[h].framing = "preview"
              /\ reader'[h].buf = <<>> /\ reader'[h].phase = "preview"
           \/ reader'[h].phase = "unused"
    BY <1>3, <2>1, Begun DEF Fresh
  <2>3. \A q \in Ids : reader'[q].phase = "preview" => q = h
    BY <1>1, <2>2 DEF Phased
  <2>4. ASSUME reader'[h].phase = "preview"
        PROVE  \A i \in 1..Len(Before(h)') :
                 i > script[h].offered' - Len(body[h])' => Before(h)'[i].kind # "chunk"
    <3>1. reader'[h].buf = <<>> /\ script[h].framing = "preview" BY <2>2, <2>4
    <3>2. /\ Pending' \in Seq(Tokens)
          /\ \A i \in 1..Len(Pending') :
               i > script[h].offered => Pending'[i].kind # "chunk"
      BY <1>3, <2>1, <3>1, HeaderTaken
    <3>3. Before(h)' = Pending' BY <3>1, <3>2 DEF Before
    <3>4. script[h].offered' - Len(body[h])' = script[h].offered BY <1>1, <2>2
    <3> QED BY <3>2, <3>3, <3>4
  <2>5. reader'[serving'].phase # "previewed" BY <2>2
  <2> QED BY <2>2, <2>3, <2>4, <2>5 DEF PreviewLast
<1>4. CASE ShadowAnswer \/ ReadPlain \/ AskRest
  <2>1. /\ pc = "handle" /\ pc' \in {"idle", "body"}
        /\ \A q \in Ids : reader'[q].phase = "preview" => reader[q].phase = "preview"
    BY <1>4, Started
  <2> QED BY <1>1, <2>1 DEF PreviewLast, Phased
<1>5. ASSUME NEW r \in Ids, Refill(r)
      PROVE  PreviewLast'
  <2>1. /\ UNCHANGED <<script, body, serving, pc>>
        /\ Before(r)' = Before(r) /\ reader'[r].phase = reader[r].phase /\ Active(r)
        /\ \A q \in Ids : q # r => reader'[q] = reader[q]
    BY <1>5, Refilled DEF Refill
  <2>2. /\ pc # "handle" /\ (pc = "preview" => r = serving)
        /\ \A q \in Ids : reader[q].phase = "preview" => q = r
    BY <1>5, Refiller
  <2>3. \A q \in Ids : reader'[q].phase = "preview" => q = r BY <2>1, <2>2
  <2>4. \A q \in Ids : reader'[q].phase = "preview" =>
          \A i \in 1..Len(Before(q)') :
            i > script[q].offered' - Len(body[q])' => Before(q)'[i].kind # "chunk"
    BY <1>1, <2>1, <2>3 DEF PreviewLast
  <2>5. ~(pc \in {"preview", "handle"} /\ reader'[serving].phase = "previewed")
    BY <2>1, <2>2 DEF Active
  <2> QED BY <2>1, <2>4, <2>5 DEF PreviewLast
<1>6. ASSUME NEW r \in Ids, TakeChunk(r)
      PROVE  PreviewLast'
  <2> DEFINE n == Len(body[r])
  <2>1. /\ UNCHANGED <<script, base, wire, pc, serving>> /\ Active(r)
        /\ \A q \in Ids : q # r => reader'[q] = reader[q] /\ body'[q] = body[q]
        /\ reader'[r].phase = reader[r].phase
        /\ Len(body'[r]) = n + 1
        /\ Before(r) # <<>> /\ Before(r)' = Tail(Before(r))
    BY <1>6, ChunkTaken
  <2>2. Pending' = Pending /\ \A q \in Ids : q # r => Before(q)' = Before(q)
    BY <2>1 DEF Before, Pending
  <2>3. ASSUME reader[r].phase = "preview", NEW i \in 1..Len(Before(r)'),
               i > script[r].offered - (n + 1)
        PROVE  Before(r)'[i].kind # "chunk"
    <3>1. i + 1 \in 1..Len(Before(r)) /\ Before(r)'[i] = Before(r)[i + 1]
      BY <1>1, <2>1, TailOf
    <3>2. i + 1 > script[r].offered - n BY <1>1, <2>3
    <3> QED BY <1>1, <2>3, <3>1, <3>2 DEF PreviewLast
  <2>4. \A q \in Ids : reader'[q].phase = "preview" =>
          \A i \in 1..Len(Before(q)') :
            i > script[q].offered' - Len(body[q])' => Before(q)'[i].kind # "chunk"
    <3> SUFFICES ASSUME NEW q \in Ids, reader'[q].phase = "preview",
                        NEW i \in 1..Len(Before(q)'),
                        i > script[q].offered' - Len(body[q])'
                 PROVE  Before(q)'[i].kind # "chunk"
      OBVIOUS
    <3>1. CASE q = r BY <2>1, <2>3, <3>1
    <3>2. CASE q # r BY <1>1, <2>1, <2>2, <3>2 DEF PreviewLast
    <3> QED BY <3>1, <3>2
  <2>5. pc' \in {"preview", "handle"} /\ reader'[serving'].phase = "previewed" =>
          NoChunks(Pending') /\ Len(body[serving])' = script[serving].offered'
    BY <1>1, <2>1, <2>2 DEF PreviewLast, Active
  <2> QED BY <2>4, <2>5 DEF PreviewLast
<1>7. ASSUME NEW r \in Ids, TakeEnd(r) \/ TakeBroken(r)
      PROVE  PreviewLast'
  <2>1. /\ UNCHANGED <<script, body, serving>> /\ Pending' = Pending
        /\ Active(r) /\ reader'[r].phase \in {"previewed", "done"}
        /\ \A q \in Ids : q # r => reader'[q] = reader[q]
        /\ reader'[r].phase = "previewed" => reader[r].phase = "preview"
        /\ pc' = pc \/ pc' = "closed"
        /\ TakeBroken(r) /\ reader[r].phase = "preview" => pc' = "closed"
    <3>1. TakeBroken(r) /\ reader[r].phase = "preview" => pc' = "closed"
      BY DEF TakeBroken, Close
    <3> QED BY <1>7, <3>1, ReaderEnded
  <2>2. \A q \in Ids : q # r => Before(q)' = Before(q) BY <2>1 DEF Before
  <2>3. ASSUME TakeEnd(r), reader[r].phase = "preview"
        PROVE  NoChunks(Pending) /\ Len(body[r]) = script[r].offered
    <3> DEFINE buf == reader[r].buf
    <3>1. buf # <<>> /\ Head(buf).kind \in {"zero", "crlf"} /\ buf \in Seq(Tokens)
      BY <1>1, <2>3 DEF TakeEnd
    <3>2. Head(buf) = buf[1] /\ Len(buf) > 0 /\ Len(buf) \in Nat BY <3>1, TailOf
    <3>3. Due(r, Len(body[r]), script[r].offered, Before(r)) BY <2>3, RunBefore DEF InRun
    <3>4. /\ Len(Before(r)) = Len(buf) + Len(Pending)
          /\ \A i \in 1..Len(buf) : Before(r)[i] = buf[i]
          /\ \A i \in 1..Len(Pending) : Before(r)[Len(buf) + i] = Pending[i]
      BY <1>1, Joined DEF Before
    <3> HIDE DEF buf
    <3>5. Before(r)[1].kind # "chunk" BY <3>1, <3>2, <3>4
    <3>6. Len(body[r]) = script[r].offered BY <1>1, <3>3, <3>5, DueHead
    <3>7. ASSUME NEW i \in 1..Len(Pending) PROVE Pending[i].kind # "chunk"
      <4>1. /\ Len(buf) + i \in 1..Len(Before(r))
            /\ Len(buf) + i > script[r].offered - Len(body[r])
        BY <1>1, <3>2, <3>4, <3>6
      <4>2. Before(r)[Len(buf) + i].kind # "chunk"
        BY <1>1, <2>3, <4>1 DEF PreviewLast
      <4> QED BY <3>4, <4>2
    <3> QED BY <3>6, <3>7 DEF NoChunks
  <2>4. pc' \in {"preview", "handle"} /\ reader'[serving'].phase = "previewed" =>
          NoChunks(Pending') /\ Len(body[serving])' = script[serving].offered'
    <3> SUFFICES ASSUME pc' \in {"preview", "handle"}, reader'[serving].phase = "previewed"
                 PROVE  NoChunks(Pending) /\ Len(body[serving]) = script[serving].offered
      BY <2>1
    <3>1. CASE serving = r BY <1>7, <2>1, <2>3, <3>1
    <3>2. CASE serving # r BY <1>1, <2>1, <3>2 DEF PreviewLast
    <3> QED BY <3>1, <3>2
  <2>5. \A q \in Ids : reader'[q].phase = "preview" =>
          \A i \in 1..Len(Before(q)') :
            i > script[q].offered' - Len(body[q])' => Before(q)'[i].kind # "chunk"
    BY <1>1, <2>1, <2>2 DEF PreviewLast
  <2> QED BY <2>4, <2>5 DEF PreviewLast
<1> QED BY <1>2, <1>3, <1>4, <1>5, <1>6, <1>7
  DEF Next, ClientAnswers, LoopNext, ReaderNext, Idling

LEMMA UnreadKept ==
  ASSUME IInv, Next
  PROVE  Unread'
<1>1. /\ TypeOK /\ Unread /\ Phased
      /\ pc \in {"preview", "handle"} => serving \in Ids
  BY DEF IInv, Turns, Working
<1>2. CASE Idling
  <2>1. UNCHANGED <<script, reader, body, serving>> BY <1>2, Idled
  <2>2. pc = "handle" => Pending' = Pending BY <1>2, Silent
  <2>3. pc' = "handle" /\ script[serving].framing = "plain" => pc = "handle"
    BY <1>1, <1>2, Idled DEF Phased
  <2> QED BY <1>1, <2>1, <2>2, <2>3 DEF Unread
<1>3. CASE TakeHeader
  <2>1. PICK h \in Ids : h = client.asked BY <1>3, Header
  <2>2. /\ UNCHANGED <<script, body>> /\ serving' = h /\ body[h] = <<>>
        /\ script[h].framing # "preview" => reader'[h] = Fresh
    BY <1>3, <2>1, Begun
  <2>3. script[h].framing # "none" => Due(h, 0, script[h].offered, Pending')
    BY <1>3, <2>1, HeaderTaken
  <2> QED BY <2>2, <2>3 DEF Unread
<1>4. CASE ShadowAnswer \/ ReadPlain \/ AskRest
  BY <1>4, Started DEF Unread
<1>5. ASSUME NEW r \in Ids, Refill(r)
      PROVE  Unread'
  BY <1>5, Refiller DEF Unread, Refill
<1>6. ASSUME NEW r \in Ids, TakeChunk(r) \/ TakeEnd(r) \/ TakeBroken(r)
      PROVE  Unread'
  <2>1. /\ UNCHANGED <<script, base, wire, serving>> /\ Active(r)
        /\ \A q \in Ids : q # r => reader'[q] = reader[q] /\ body'[q] = body[q]
        /\ pc' = pc \/ pc' = "closed"
    BY <1>6, ChunkTaken, ReaderEnded
  <2>2. reader[serving] = Fresh => serving # r BY <2>1 DEF Active, Fresh
  <2> QED BY <1>1, <2>1, <2>2 DEF Unread, Pending
<1> QED BY <1>2, <1>3, <1>4, <1>5, <1>6
  DEF Next, ClientAnswers, LoopNext, ReaderNext, Idling

LEMMA RestKept ==
  ASSUME IInv, Next
  PROVE  RestWhole'
<1>1. /\ TypeOK /\ RestWhole /\ Phased /\ Pending \in Seq(Tokens)
      /\ \A r \in Ids : /\ reader[r].buf \in Seq(Tokens) /\ Before(r) \in Seq(Tokens)
                        /\ Len(body[r]) \in Nat
                        /\ script[r].offered \in Nat /\ script[r].size \in Nat
  BY ScriptType, PendingType DEF IInv
<1>2. ASSUME NEW r \in Ids, RestOK(r), Before(r)' = Before(r), UNCHANGED script,
             body'[r] = body[r]
      PROVE  RestOK(r)'
  BY <1>2 DEF RestOK
<1>3. CASE Idling
  <2>1. UNCHANGED <<script, reader, body, serving>> BY <1>3, Idled
  <2> SUFFICES ASSUME NEW r \in Ids, reader[r].phase = "rest"
               PROVE  RestOK(r)'
    BY <2>1 DEF RestWhole
  <2>2. pc = "body" /\ serving = r /\ RestOK(r) BY <1>1 DEF Phased, RestWhole
  <2>3. CASE Pending' = Pending
    <3>1. Before(r)' = Before(r) BY <2>1, <2>3 DEF Before
    <3> QED BY <1>2, <2>1, <2>2, <3>1
  <2>4. CASE Pending' = Pending \o Rest(r)
    <3>1. /\ Rest(r) \in Seq(Tokens)
          /\ Due(r, script[r].offered, script[r].size, Rest(r))
      BY <1>1, RestType
    <3> HIDE DEF Rest
    <3>2. \A b, p \in Seq(Tokens) : (b \o p) \o Rest(r) = b \o (p \o Rest(r))
      BY <3>1, ConcatAssociative
    <3>3. Before(r)' = Before(r) \o Rest(r) BY <1>1, <2>1, <2>4, <3>2 DEF Before
    <3>4. /\ Before(r) \o Rest(r) \in Seq(Tokens)
          /\ Len(Before(r) \o Rest(r)) = Len(Before(r)) + Len(Rest(r))
          /\ \A i \in 1..Len(Before(r)) : (Before(r) \o Rest(r))[i] = Before(r)[i]
      BY <1>1, <3>1, Joined
    <3>5. CASE Before(r) # <<>> /\ Before(r)[1].kind # "chunk"
      <4>1. Len(Before(r)) > 0 BY <1>1, <3>5, TailOf
      <4>2. (Before(r) \o Rest(r))[1] = Before(r)[1] BY <1>1, <3>4, <4>1
      <4>3. Before(r) \o Rest(r) # <<>> BY <1>1, <3>1, <3>4, <4>1
      <4> QED BY <3>3, <3>5, <4>2, <4>3 DEF RestOK
    <3>6. CASE Due(r, Len(body[r]), script[r].size, Before(r))
      <4>1. Due(r, Len(body[r]), script[r].size, Before(r) \o Rest(r))
        BY <1>1, <3>1, <3>6, DueLonger
      <4> QED BY <2>1, <3>3, <4>1 DEF RestOK
    <3>7. CASE Before(r) = <<>> /\ Len(body[r]) = script[r].offered
      <4>1. Before(r) \o Rest(r) = Rest(r) BY <3>1, <3>7
      <4> QED BY <2>1, <3>1, <3>3, <3>7, <4>1 DEF RestOK
    <3>8. NoChunks(Before(r)) /\ Before(r) # <<>> => Before(r)[1].kind # "chunk"
      BY <1>1, TailOf DEF NoChunks
    <3> QED BY <2>2, <3>5, <3>6, <3>7, <3>8 DEF RestOK
  <2> QED BY <1>3, <2>2, <2>3, <2>4, Silent
<1>4. CASE TakeHeader
  <2>1. \A r \in Ids : reader'[r].phase # "rest" BY <1>1, <1>4, Begun DEF Phased, Fresh
  <2> QED BY <2>1 DEF RestWhole
<1>5. CASE ShadowAnswer \/ ReadPlain \/ AskRest
  <2>1. /\ UNCHANGED <<script, body, serving>> /\ Pending' = Pending
        /\ pc = "handle" /\ serving \in Ids
        /\ \A q \in Ids : q # serving => reader'[q] = reader[q]
        /\ reader'[serving].buf = reader[serving].buf
        /\ reader'[serving].phase = "rest" => script[serving].framing = "preview"
    <3>1. reader[serving].phase # "rest" BY <1>1, <1>5, Started DEF Phased
    <3> QED BY <1>5, <3>1, Started
  <2> SUFFICES ASSUME NEW r \in Ids, reader'[r].phase = "rest"
               PROVE  RestOK(r)'
    BY DEF RestWhole
  <2>2. r = serving BY <1>1, <2>1 DEF Phased
  <2>3. reader[r].phase = "previewed" /\ reader[r].buf = <<>>
    BY <1>1, <2>1, <2>2 DEF Phased, Active
  <2>4. NoChunks(Pending) /\ Len(body[r]) = script[r].offered
    BY <2>1, <2>2, <2>3 DEF IInv, PreviewLast
  <2>5. Before(r)' = Pending
    <3>1. Before(r)' = <<>> \o Pending BY <2>1, <2>2, <2>3 DEF Before
    <3> HIDE DEF Pending
    <3> QED BY <1>1, <3>1
  <2> QED BY <2>1, <2>4, <2>5 DEF RestOK
<1>6. ASSUME NEW r \in Ids, Refill(r)
      PROVE  RestWhole'
  <2>1. /\ UNCHANGED <<script, body>>
        /\ Before(r)' = Before(r) /\ reader'[r].phase = reader[r].phase
        /\ \A q \in Ids : q # r => reader'[q] = reader[q]
    BY <1>6, Refilled DEF Refill
  <2>2. \A q \in Ids : reader[q].phase = "rest" => q = r BY <1>6, Refiller
  <2> QED BY <1>1, <1>2, <2>1, <2>2 DEF RestWhole
<1>7. ASSUME NEW r \in Ids, TakeChunk(r)
      PROVE  RestWhole'
  <2>1. /\ UNCHANGED <<script, base, wire>>
        /\ reader[r].buf[1].kind = "chunk"
        /\ \A q \in Ids : q # r => reader'[q] = reader[q] /\ body'[q] = body[q]
        /\ reader'[r].phase = reader[r].phase
        /\ Len(body'[r]) = Len(body[r]) + 1
        /\ Before(r) # <<>> /\ Before(r)[1] = reader[r].buf[1]
        /\ Before(r)' = Tail(Before(r))
    BY <1>7, ChunkTaken
  <2>2. \A q \in Ids : q # r => Before(q)' = Before(q)
    BY <2>1 DEF Before, Pending
  <2>3. ASSUME reader[r].phase = "rest" PROVE RestOK(r)'
    <3>1. 1 \in 1..Len(Before(r)) BY <1>1, <2>1, TailOf
    <3>2. Due(r, Len(body[r]), script[r].size, Before(r))
      BY <1>1, <2>1, <2>3, <3>1 DEF RestWhole, RestOK, NoChunks
    <3>3. Due(r, Len(body[r]) + 1, script[r].size, Tail(Before(r)))
      BY <1>1, <2>1, <3>2, DueTail
    <3> QED BY <2>1, <3>3 DEF RestOK
  <2>4. ASSUME NEW q \in Ids, reader'[q].phase = "rest" PROVE RestOK(q)'
    <3>1. CASE q = r BY <2>1, <2>3, <2>4, <3>1
    <3>2. CASE q # r
      <4>1. RestOK(q) BY <1>1, <2>1, <2>4, <3>2 DEF RestWhole
      <4> QED BY <1>2, <2>1, <2>2, <3>2, <4>1
    <3> QED BY <3>1, <3>2
  <2> QED BY <2>4 DEF RestWhole
<1>8. ASSUME NEW r \in Ids, TakeEnd(r) \/ TakeBroken(r)
      PROVE  RestWhole'
  <2>1. /\ UNCHANGED <<script, body>> /\ Pending' = Pending
        /\ reader'[r].phase \in {"previewed", "done"}
        /\ \A q \in Ids : q # r => reader'[q] = reader[q]
    BY <1>8, ReaderEnded
  <2>2. ASSUME NEW q \in Ids, reader'[q].phase = "rest" PROVE RestOK(q)'
    <3>1. q # r /\ RestOK(q) BY <1>1, <2>1, <2>2 DEF RestWhole
    <3>2. Before(q)' = Before(q) BY <2>1, <3>1 DEF Before
    <3> QED BY <1>2, <2>1, <3>1, <3>2
  <2> QED BY <2>2 DEF RestWhole
<1> QED BY <1>3, <1>4, <1>5, <1>6, <1>7, <1>8
  DEF Next, ClientAnswers, LoopNext, ReaderNext, Idling

(* What a reader takes is the chunk its handler is to get next. *)
LEMMA NextChunk ==
  ASSUME IInv, NEW r \in Ids, TakeChunk(r)
  PROVE  /\ Len(body[r]) < script[r].size
         /\ reader[r].buf[1] = Chunk(r, Len(body[r]) + 1)
<1>1. /\ Len(body[r]) \in Nat /\ script[r].offered \in Nat /\ script[r].size \in Nat
      /\ script[r].offered <= script[r].size /\ Before(r) \in Seq(Tokens)
  BY ScriptType, PendingType DEF IInv
<1>2. /\ Active(r) /\ Before(r) # <<>>
      /\ Before(r)[1] = reader[r].buf[1] /\ Before(r)[1].kind = "chunk"
  BY ChunkTaken
<1>3. PICK last \in {script[r].offered, script[r].size} :
        Due(r, Len(body[r]), last, Before(r))
  <2>1. CASE InRun(r) BY <2>1, RunBefore
  <2>2. CASE reader[r].phase = "rest"
    <3>1. 1 \in 1..Len(Before(r)) BY <1>1, <1>2, TailOf
    <3> QED BY <1>2, <2>2, <3>1 DEF IInv, RestWhole, RestOK, NoChunks
  <2> QED BY <1>2, <2>1, <2>2 DEF Active, InRun
<1>4. Len(body[r]) < last /\ Before(r)[1] = Chunk(r, Len(body[r]) + 1)
  <2>1. last \in Nat BY <1>1, <1>3
  <2> QED BY <1>1, <1>2, <1>3, <2>1, DueHead
<1> QED BY <1>1, <1>2, <1>3, <1>4

LEMMA BodyKept ==
  ASSUME IInv, Next
  PROVE  BodyOwn'
<1>1. /\ BodyOwn /\ \A r \in Ids : body[r] \in Seq(Tokens) /\ script[r].size \in Nat
      /\ TypeOK
  BY ScriptType DEF IInv
<1>2. ASSUME UNCHANGED <<script, body>> PROVE BodyOwn' BY <1>1, <1>2 DEF BodyOwn
<1>3. ASSUME NEW r \in Ids, TakeChunk(r)
      PROVE  BodyOwn'
  <2>1. /\ UNCHANGED script
        /\ \A q \in Ids : q # r => body'[q] = body[q]
        /\ body'[r] = Append(body[r], reader[r].buf[1])
        /\ Len(body'[r]) = Len(body[r]) + 1
    BY <1>3, ChunkTaken
  <2>2. /\ Len(body[r]) < script[r].size
        /\ reader[r].buf[1] = Chunk(r, Len(body[r]) + 1)
    BY <1>3, NextChunk
  <2>3. reader[r].buf[1] \in Tokens
    BY <1>1, <1>3, ChunkTaken, ScriptType, TailOf
  <2>4. /\ \A i \in 1..Len(body[r]) : body'[r][i] = body[r][i]
        /\ body'[r][Len(body[r]) + 1] = reader[r].buf[1]
    BY <1>1, <2>1, <2>3, AppendProperties
  <2>5. Len(body'[r]) <= script[r].size BY <1>1, <2>1, <2>2
  <2>6. \A i \in 1..Len(body'[r]) : body'[r][i] = Chunk(r, i)
    BY <1>1, <2>1, <2>2, <2>4 DEF BodyOwn
  <2> QED BY <1>1, <2>1, <2>5, <2>6 DEF BodyOwn
<1>4. CASE Idling BY <1>2, <1>4, Idled
<1>5. CASE TakeHeader BY <1>2, <1>5, Begun
<1>6. CASE ShadowAnswer \/ ReadPlain \/ AskRest BY <1>2, <1>6, Started
<1>7. ASSUME NEW r \in Ids, Refill(r) PROVE BodyOwn' BY <1>2, <1>7 DEF Refill
<1>8. ASSUME NEW r \in Ids, TakeEnd(r) \/ TakeBroken(r) PROVE BodyOwn'
  BY <1>2, <1>8, ReaderEnded
<1> QED BY <1>3, <1>4, <1>5, <1>6, <1>7, <1>8
  DEF Next, ClientAnswers, LoopNext, ReaderNext, Idling

-----------------------------------------------------------------------------
(* The theorems.                                                           *)

LEMMA InitIInv ==
  ASSUME Init
  PROVE  IInv
<1>1. 0 \in 0..Requests /\ <<>> \in Seq(Tokens) /\ <<>> \in Seq(Answers)
  BY BoundsAssumption
<1>2. /\ script \in [Ids -> Shapes] /\ client.asked = 0 /\ ~client.waiting
      /\ client \in [asked: 0..Requests, waiting: BOOLEAN, gone: BOOLEAN, torn: BOOLEAN]
      /\ wire = <<>> /\ base = <<>> /\ inbox = <<>> /\ serving = 0 /\ pc = "idle"
      /\ reader = [r \in Ids |-> Fresh] /\ body = [r \in Ids |-> <<>>]
  BY <1>1 DEF Init
<1>3. TypeOK
  <2>1. Fresh \in [phase: ReaderPhases, buf: Seq(Tokens)]
    BY <1>1 DEF Fresh, ReaderPhases
  <2> QED BY <1>1, <1>2, <2>1 DEF TypeOK, Places
<1>4. \A r \in Ids : reader[r] = Fresh /\ body[r] = <<>> /\ reader[r].phase = "unused"
                     /\ reader[r].buf = <<>>
  BY <1>2 DEF Fresh
<1>5. Turns /\ AnswersMatch BY <1>2 DEF Turns, AnswersMatch, Working
<1>6. OfferLast
  <2>1. Pending = <<>> BY <1>2 DEF Pending
  <2> QED BY <2>1 DEF OfferLast
<1>7. Phased BY <1>2, <1>4 DEF Phased
<1>8. RunsWhole BY <1>4 DEF RunsWhole, Unfed, InRun
<1>9. PreviewLast /\ Unread /\ RestWhole BY <1>2, <1>4 DEF PreviewLast, Unread, RestWhole
<1>10. BodyOwn BY <1>3, <1>4, ScriptType DEF BodyOwn
<1> QED BY <1>3, <1>5, <1>6, <1>7, <1>8, <1>9, <1>10 DEF IInv

LEMMA StepIInv ==
  ASSUME IInv, [Next]_vars
  PROVE  IInv'
<1>1. CASE Next
  BY <1>1, TypeKept, TurnsKept, OfferKept, PhasedKept, RunsKept, PreviewKept,
     UnreadKept, RestKept, BodyKept
  DEF IInv
<1>2. CASE UNCHANGED vars
  <2> USE <1>2 DEF vars
  <2>1. TypeOK' BY DEF IInv, TypeOK
  <2>2. Turns' /\ AnswersMatch' BY DEF IInv, Turns, AnswersMatch
  <2>3. Pending' = Pending /\ \A r \in Ids : Before(r)' = Before(r)
    BY DEF Pending, Before
  <2>4. OfferLast' BY <2>3 DEF IInv, OfferLast, OfferAt, Offer
  <2>5. Phased' BY DEF IInv, Phased, Active
  <2>6. RunsWhole' BY <2>3 DEF IInv, RunsWhole, Unfed, InRun, Fed
  <2>7. PreviewLast' BY <2>3 DEF IInv, PreviewLast
  <2>8. Unread' BY <2>3 DEF IInv, Unread
  <2>9. RestWhole' BY <2>3 DEF IInv, RestWhole, RestOK
  <2>10. BodyOwn' BY DEF IInv, BodyOwn
  <2> QED BY <2>1, <2>2, <2>4, <2>5, <2>6, <2>7, <2>8, <2>9, <2>10 DEF IInv
<1> QED BY <1>1, <1>2

(* The stream is ordered as IInv says, whoever reads it and however it is  *)
(* cut.                                                                    *)
THEOREM Invariant == Spec => []IInv
<1>1. Init => IInv BY InitIInv
<1>2. IInv /\ [Next]_vars => IInv' BY StepIInv
<1> QED BY <1>1, <1>2, PTL DEF Spec

(* Every variable has its type. *)
THEOREM TypeCorrect == Spec => []TypeOK
<1>1. IInv => TypeOK BY DEF IInv
<1> QED BY <1>1, Invariant, PTL

(* A handler's body is a prefix of the body its own client sent, also when *)
(* a shadowed request is read while the next one is already being served.  *)
THEOREM OwnBodies == Spec => []BodyOwn
<1>1. IInv => BodyOwn BY DEF IInv
<1> QED BY <1>1, Invariant, PTL

(* A waiting client finds only answers to its last request, and nothing    *)
(* behind a final one.                                                     *)
THEOREM MatchingAnswers == Spec => []AnswersMatch
<1>1. IInv => AnswersMatch BY DEF IInv
<1> QED BY <1>1, Invariant, PTL

-----------------------------------------------------------------------------
(* An undisturbed connection: the stream holds what is due and no more.    *)

(* The run that the reader of r works off, and what is left of it.         *)
RunEnd(r) ==
  IF reader[r].phase = "preview" THEN script[r].offered ELSE script[r].size
Left(r) == Run(r, Len(body[r]) + 1, RunEnd(r))

(* A 0 line is read together with its CRLF.                                *)
Joint(s) == s # <<>> => s[Len(s)].kind # "zero"
Held == Joint(base) /\ \A r \in Ids : Joint(reader[r].buf)

Alone == \A r \in Ids : Active(r) => r = serving /\ pc \in {"preview", "body"}

(* What the server has before it.                                          *)
Ahead ==
  /\ pc = "idle" =>
       Pending = IF serving < client.asked THEN Offer(client.asked) ELSE <<>>
  /\ pc = "handle" =>
       Pending = IF script[serving].framing = "plain"
                 THEN Run(serving, 1, script[serving].size) ELSE <<>>
  /\ pc \in {"preview", "body"} =>
       Before(serving) =
         IF Active(serving) /\ inbox = <<>> THEN Left(serving) ELSE <<>>

(* What the client has before it.                                          *)
Replies ==
  /\ pc = "idle" /\ inbox # <<>> => inbox[1].kind = "final"
  /\ pc = "body" /\ inbox # <<>> =>
       /\ reader[serving].phase = "rest"
       /\ Len(inbox) = 1
       /\ Len(body[serving]) = script[serving].offered
  /\ pc = "body" => reader[serving].phase \in {"plain", "rest", "done"}

Ends ==
  pc \in {"abandoned", "closed"} =>
    script[serving].fate = "panics" /\ client.waiting /\ inbox = <<>>

AllRead == \A r \in Ids : reader[r].phase = "done" => Len(body[r]) = script[r].size

InOrder == Held /\ Alone /\ Ahead /\ Replies /\ Ends /\ AllRead
Calm == Undisturbed /\ ~client.gone => InOrder

LEMMA RunHead ==
  ASSUME NEW r \in Ids, NEW n \in Nat, NEW last \in 0..MaxChunks, n <= last
  PROVE  /\ Run(r, n + 1, last) \in Seq(Tokens) /\ Run(r, n + 1, last) # <<>>
         /\ n < last => /\ Run(r, n + 1, last)[1] = Chunk(r, n + 1)
                        /\ Tail(Run(r, n + 1, last)) = Run(r, n + 1 + 1, last)
         /\ n = last =>
              Run(r, n + 1, last) = <<Mark(r, "zero"), Mark(r, "crlf")>>
<1> DEFINE run == Run(r, n + 1, last)
           rest == Run(r, n + 1 + 1, last)
<1>1. last \in Nat /\ MaxChunks \in Nat BY BoundsAssumption
<1>2. /\ run \in Seq(Tokens) /\ Len(run) = last - n + 2
      /\ \A i \in 1..(last - n) : run[i] = Chunk(r, n + i)
      /\ run[last - n + 1] = Mark(r, "zero") /\ run[last - n + 2] = Mark(r, "crlf")
  BY RunFacts
<1>3. ASSUME n < last
      PROVE  run[1] = Chunk(r, n + 1) /\ Tail(run) = rest
  <2>1. n + 1 \in Nat /\ n + 1 <= last BY <1>1, <1>3
  <2>2. /\ rest \in Seq(Tokens) /\ Len(rest) = last - (n + 1) + 2
        /\ \A i \in 1..(last - (n + 1)) : rest[i] = Chunk(r, (n + 1) + i)
        /\ rest[last - (n + 1) + 1] = Mark(r, "zero")
        /\ rest[last - (n + 1) + 2] = Mark(r, "crlf")
    BY <2>1, RunFacts
  <2> HIDE DEF run, rest
  <2>3. run # <<>> BY <1>1, <1>2, <1>3
  <2>4. /\ Tail(run) \in Seq(Tokens) /\ Len(Tail(run)) = Len(run) - 1
        /\ \A i \in 1..(Len(run) - 1) : Tail(run)[i] = run[i + 1]
    BY <1>2, <2>3, TailOf
  <2>5. ASSUME NEW i \in 1..Len(rest) PROVE Tail(run)[i] = rest[i]
    <3>1. i \in 1..(Len(run) - 1) BY <1>1, <1>2, <2>2
    <3>2. Tail(run)[i] = run[i + 1] BY <2>4, <3>1
    <3>3. CASE i <= last - (n + 1)
      <4>1. /\ i + 1 \in 1..(last - n) /\ i \in 1..(last - (n + 1))
            /\ n + (i + 1) = (n + 1) + i
        BY <1>1, <3>3
      <4> QED BY <1>2, <2>2, <3>2, <4>1
    <3>4. CASE i = last - (n + 1) + 1
      <4>1. i + 1 = last - n + 1 BY <1>1, <3>4
      <4> QED BY <1>2, <2>2, <3>2, <3>4, <4>1
    <3>5. CASE i = last - (n + 1) + 2
      <4>1. i + 1 = last - n + 2 BY <1>1, <3>5
      <4> QED BY <1>2, <2>2, <3>2, <3>5, <4>1
    <3>6. i \in 1..(last - (n + 1) + 2) BY <2>2
    <3>7. \/ i <= last - (n + 1) \/ i = last - (n + 1) + 1 \/ i = last - (n + 1) + 2
      BY <1>1, <3>6
    <3> QED BY <3>3, <3>4, <3>5, <3>7
  <2>6. Len(Tail(run)) = Len(rest) BY <1>1, <1>2, <2>2, <2>4
  <2>7. Tail(run) = rest BY <2>2, <2>4, <2>5, <2>6, SeqEqual
  <2>8. 1 \in 1..(last - n) BY <1>1, <1>3
  <2> QED BY <1>2, <2>7, <2>8
<1>4. ASSUME n = last PROVE run = <<Mark(r, "zero"), Mark(r, "crlf")>>
  <2> DEFINE end == <<Mark(r, "zero"), Mark(r, "crlf")>>
  <2>1. Len(run) = 2 /\ run[1] = Mark(r, "zero") /\ run[2] = Mark(r, "crlf")
    BY <1>1, <1>2, <1>4
  <2>2. end \in Seq(Tokens) /\ Len(end) = 2
    <3>1. Mark(r, "zero") \in Tokens /\ Mark(r, "crlf") \in Tokens
      BY <1>1 DEF Mark, Tokens
    <3> QED BY <3>1
  <2>3. end[1] = Mark(r, "zero") /\ end[2] = Mark(r, "crlf") OBVIOUS
  <2> HIDE DEF run, end
  <2>4. \A i \in 1..2 : run[i] = end[i]
    <3> SUFFICES ASSUME NEW i \in 1..2 PROVE run[i] = end[i] OBVIOUS
    <3>1. i = 1 \/ i = 2 OBVIOUS
    <3> QED BY <2>1, <2>3, <3>1
  <2>5. run = end BY <1>2, <2>1, <2>2, <2>4, SeqEqual
  <2> QED BY <2>5 DEF end
<1>5. run # <<>>
  <2> HIDE DEF run
  <2> QED BY <1>1, <1>2
<1> QED BY <1>2, <1>3, <1>4, <1>5

(* What follows the header of an offer.                                    *)
LEMMA OfferTail ==
  ASSUME TypeOK, NEW r \in Ids
  PROVE  /\ Offer(r) \in Seq(Tokens) /\ Offer(r) # <<>>
         /\ Offer(r)[1] = Mark(r, "header")
         /\ Tail(Offer(r)) = IF script[r].framing = "none" THEN <<>>
                             ELSE Run(r, 1, script[r].offered)
<1> DEFINE run == Run(r, 1, script[r].offered)
           rest == IF script[r].framing = "none" THEN <<>> ELSE run
           header == <<Mark(r, "header")>>
<1>1. script[r].offered \in 0..MaxChunks /\ script[r].offered \in Nat BY ScriptType
<1>2. run \in Seq(Tokens)
  <2>1. 0 \in Nat /\ 0 <= script[r].offered /\ 0 + 1 = 1 BY <1>1
  <2> QED BY <1>1, <2>1, RunFacts
<1>3. rest \in Seq(Tokens) BY <1>2
<1>4. Mark(r, "header") \in Tokens BY BoundsAssumption DEF Mark, Tokens
<1>5. Offer(r) = header \o rest BY DEF Offer
<1> HIDE DEF rest, run
<1>6. Tail(header \o rest) = rest /\ header \o rest # <<>> /\ header \o rest \in Seq(Tokens)
  BY <1>3, <1>4
<1>7. Offer(r)[1] = Mark(r, "header") BY OfferFacts
<1> QED BY <1>5, <1>6, <1>7 DEF rest, run

(* The end of a run: the reader that sees the 0 line has all of it.        *)
LEMMA EndWhole ==
  ASSUME NEW r \in Ids, NEW s \in Seq(Tokens), NEW t \in Seq(Tokens),
         s # <<>>, Joint(s),
         s \o t = <<Mark(r, "zero"), Mark(r, "crlf")>>
  PROVE  t = <<>>
<1> DEFINE end == <<Mark(r, "zero"), Mark(r, "crlf")>>
<1>1. Len(end) = 2 /\ end[1].kind = "zero" BY DEF Mark
<1> HIDE DEF end
<1>2. /\ Len(s) + Len(t) = 2 /\ Len(s) > 0 /\ Len(t) \in Nat /\ Len(s) \in Nat
      /\ \A i \in 1..Len(s) : end[i] = s[i]
  <2>1. s \o t = end BY DEF end
  <2>2. Len(s) \in Nat /\ Len(t) \in Nat /\ Len(s) # 0 OBVIOUS
  <2>3. Len(s \o t) = Len(s) + Len(t) /\ \A i \in 1..Len(s) : (s \o t)[i] = s[i]
    BY Joined
  <2> QED BY <1>1, <2>1, <2>2, <2>3
<1>3. Len(s) # 1
  <2> SUFFICES ASSUME Len(s) = 1 PROVE FALSE OBVIOUS
  <2>1. 1 \in 1..Len(s) /\ s[Len(s)] = s[1] OBVIOUS
  <2>2. end[1] = s[1] BY <1>2, <2>1
  <2>3. s[Len(s)].kind # "zero" BY DEF Joint
  <2> QED BY <1>1, <2>1, <2>2, <2>3
<1>4. Len(t) = 0
  <2> DEFINE a == Len(s)
             b == Len(t)
  <2>1. a + b = 2 /\ a > 0 /\ a # 1 /\ a \in Nat /\ b \in Nat BY <1>2, <1>3
  <2> HIDE DEF a, b
  <2>2. b = 0 BY <2>1
  <2> QED BY <2>2 DEF b
<1> QED BY <1>4

LEMMA JointPart ==
  ASSUME TypeOK, ~client.torn, NEW k \in Cuts
  PROVE  Joint(Fetched(k))
<1>1. wire \in Seq(Tokens) /\ k \in 1..Len(wire) /\ wire[k].kind # "zero"
  BY DEF TypeOK, Cuts
<1>2. Len(Fetched(k)) = k /\ Fetched(k)[k] = wire[k]
  <2>1. \A i \in 1..k : wire[i] \in Tokens BY <1>1
  <2> QED BY <1>1, <2>1, SubSeqProperties DEF Fetched
<1> QED BY <1>1, <1>2 DEF Joint

LEMMA JointTail ==
  ASSUME NEW s \in Seq(Tokens), s # <<>>, Joint(s)
  PROVE  Joint(Tail(s))
<1>1. /\ Tail(s) \in Seq(Tokens) /\ Len(Tail(s)) = Len(s) - 1 /\ Len(s) > 0
      /\ \A i \in 1..(Len(s) - 1) : Tail(s)[i] = s[i + 1]
  BY TailOf
<1>2. SUFFICES ASSUME Tail(s) # <<>> PROVE Tail(s)[Len(Tail(s))].kind # "zero"
  BY DEF Joint
<1>3. Len(Tail(s)) > 0 BY <1>1, <1>2
<1>4. Len(s) - 1 \in 1..(Len(s) - 1) /\ Len(s) - 1 + 1 = Len(s) BY <1>1, <1>3
<1> QED BY <1>1, <1>4 DEF Joint

(* What holds of the turns when a connection is undisturbed.               *)
LEMMA OrderFacts ==
  ASSUME IInv, InOrder, ~client.gone
  PROVE  /\ TypeOK /\ Pending \in Seq(Tokens)
         /\ serving \in Nat /\ client.asked \in Nat /\ serving <= client.asked
         /\ pc \in Working => /\ serving \in Ids /\ serving = client.asked
                              /\ client.waiting
         /\ ~client.waiting => pc = "idle" /\ serving = client.asked /\ inbox = <<>>
         /\ pc # "idle" /\ pc # "body" => inbox = <<>>
         /\ serving < client.asked => inbox = <<>>
<1>1. /\ TypeOK /\ Turns /\ Ends /\ Requests \in Nat
  BY BoundsAssumption DEF IInv, InOrder
<1>2. serving \in Nat /\ client.asked \in Nat /\ pc \in Places BY <1>1 DEF TypeOK
<1>3. Pending \in Seq(Tokens) BY <1>1, PendingType
<1> QED BY <1>1, <1>2, <1>3 DEF Turns, Working, Places, Ends

LEMMA AsksKeeps ==
  ASSUME IInv, InOrder, ~client.gone, ClientAsks
  PROVE  InOrder'
<1>1. /\ TypeOK /\ pc = "idle" /\ serving = client.asked /\ inbox = <<>>
      /\ client.asked \in Nat
  BY OrderFacts DEF ClientAsks
<1>2. /\ UNCHANGED <<script, base, reader, body, pc, serving, inbox>>
      /\ wire' = wire \o Offer(client.asked + 1)
      /\ client'.asked = client.asked + 1
      /\ client.asked + 1 \in Ids
  BY <1>1, BoundsAssumption DEF ClientAsks, TypeOK, Ids
<1>3. Offer(client.asked + 1) \in Seq(Tokens) BY <1>1, <1>2, OfferTail
<1>4. Pending' = Pending \o Offer(client.asked + 1) BY <1>1, <1>2, <1>3, MoreSent
<1>5. Pending = <<>> BY <1>1 DEF InOrder, Ahead
<1>6. Pending' = Offer(client.asked + 1) BY <1>3, <1>4, <1>5
<1>7. Offer(client.asked)' = Offer(client.asked + 1) BY <1>2 DEF Offer
<1>8. Ahead' BY <1>1, <1>2, <1>6, <1>7 DEF Ahead
<1> QED BY <1>1, <1>2, <1>8
  DEF InOrder, Held, Alone, Active, Replies, Ends, AllRead

LEMMA SendsRestKeeps ==
  ASSUME IInv, InOrder, ~client.gone, ClientSendsRest
  PROVE  InOrder'
<1>1. /\ TypeOK /\ inbox # <<>> /\ inbox[1].kind = "continue"
      /\ UNCHANGED <<script, client, base, reader, body, pc, serving>>
      /\ wire' = wire \o Rest(client.asked) /\ inbox' = Tail(inbox)
  BY OrderFacts, AnswerTail DEF ClientSendsRest
<1>2. pc = "body" BY <1>1, OrderFacts DEF InOrder, Replies
<1>3. serving \in Ids /\ serving = client.asked BY <1>2, OrderFacts DEF Working
<1>4. /\ reader[serving].phase = "rest" /\ Len(inbox) = 1
      /\ Len(body[serving]) = script[serving].offered
  BY <1>1, <1>2 DEF InOrder, Replies
<1>5. inbox' = <<>>
  <2>1. Tail(inbox) \in Seq(Answers) /\ Len(Tail(inbox)) = 0 BY <1>1, <1>4, AnswerTail
  <2> QED BY <1>1, <2>1
<1>6. Before(serving) = <<>> BY <1>1, <1>2 DEF InOrder, Ahead
<1>7. Before(serving)' = Rest(serving)
  <2>1. Rest(serving) \in Seq(Tokens) BY <1>1, <1>3, RestType
  <2>2. Before(serving)' = Before(serving) \o Rest(serving)
    BY <1>1, <1>3, <2>1, MoreSent
  <2> QED BY <1>6, <2>1, <2>2
<1>8. Rest(serving) = Left(serving)' BY <1>1, <1>4 DEF Rest, Left, RunEnd
<1>9. Ahead' BY <1>1, <1>2, <1>4, <1>5, <1>7, <1>8 DEF Ahead, Active
<1> QED BY <1>1, <1>2, <1>5, <1>9
  DEF InOrder, Held, Alone, Active, Replies, Ends, AllRead

LEMMA TakesReplyKeeps ==
  ASSUME IInv, InOrder, ~client.gone, ClientTakesReply
  PROVE  InOrder'
<1>1. /\ TypeOK /\ inbox # <<>> /\ inbox[1].kind = "final" /\ client.waiting
      /\ UNCHANGED <<script, wire, base, reader, body, pc, serving>>
      /\ client'.asked = client.asked /\ inbox' = Tail(inbox) /\ Len(inbox) > 0
  BY OrderFacts, AnswerTail DEF ClientTakesReply, TypeOK
<1>2. pc = "idle"
  <2>1. pc # "body"
    <3> SUFFICES ASSUME pc = "body" PROVE FALSE OBVIOUS
    <3>1. 1 \in 1..Len(inbox) BY <1>1, AnswerTail DEF TypeOK
    <3> QED BY <1>1, <3>1 DEF IInv, Turns, Working
  <2> QED BY <1>1, <2>1, OrderFacts
<1>3. inbox' = <<>>
  <2>1. 1 \in 1..Len(inbox) BY <1>1 DEF TypeOK
  <2>2. Len(inbox) = 1 BY <1>1, <2>1 DEF IInv, AnswersMatch
  <2>3. Tail(inbox) \in Seq(Answers) /\ Len(Tail(inbox)) = 0 BY <1>1, <2>2, AnswerTail
  <2> QED BY <1>1, <2>3
<1>4. Pending' = Pending BY <1>1 DEF Pending
<1>5. Ahead' BY <1>1, <1>2, <1>4 DEF InOrder, Ahead, Offer
<1> QED BY <1>1, <1>2, <1>3, <1>5
  DEF InOrder, Held, Alone, Active, Replies, Ends, AllRead

LEMMA FillKeepsOrder ==
  ASSUME IInv, InOrder, ~client.gone, ~client.torn, Fill
  PROVE  InOrder'
<1>1. /\ TypeOK /\ pc = "idle"
      /\ UNCHANGED <<script, client, reader, body, pc, serving, inbox>>
  BY OrderFacts DEF Fill
<1>2. PICK k \in Cuts : base' = Fetched(k) BY DEF Fill
<1>3. Joint(base') BY <1>1, <1>2, JointPart
<1>4. Pending' = Pending BY FillKeeps
<1>5. Ahead' BY <1>1, <1>4 DEF InOrder, Ahead, Offer
<1>6. Held' BY <1>1, <1>3 DEF InOrder, Held
<1> QED BY <1>1, <1>5, <1>6 DEF InOrder, Alone, Active, Replies, Ends, AllRead

(* A header begins the request that was offered, with all of its offer     *)
(* behind it.                                                              *)
LEMMA TakeHeaderKeeps ==
  ASSUME IInv, InOrder, ~client.gone, TakeHeader
  PROVE  InOrder'
<1> DEFINE r == client.asked
<1>1. /\ TypeOK /\ pc = "idle" /\ serving < r /\ r \in Ids /\ inbox = <<>>
      /\ base \in Seq(Tokens) /\ base # <<>>
  BY OrderFacts, Begun DEF TakeHeader, TypeOK
<1>2. /\ UNCHANGED <<script, client, wire, body, inbox>> /\ base' = Tail(base)
      /\ serving' = r /\ body[r] = <<>>
      /\ \A q \in Ids : q # r => reader'[q] = reader[q]
      /\ \/ /\ script[r].framing = "preview"
            /\ pc' = "preview" /\ reader'[r].phase = "preview" /\ reader'[r].buf = <<>>
         \/ script[r].framing # "preview" /\ pc' = "handle" /\ reader'[r] = Fresh
  BY Begun DEF TakeHeader
<1>3. script[r].framing \in {"none", "plain", "preview"} BY <1>1, ScriptType
<1>4. script[r].framing = "plain" => script[r].offered = script[r].size
  BY <1>1, ShapesAssumption DEF TypeOK, WellFormed
<1>5. Pending' = IF script[r].framing = "none" THEN <<>>
                 ELSE Run(r, 1, script[r].offered)
  <2>1. Pending = Offer(r) BY <1>1 DEF InOrder, Ahead
  <2> QED BY <1>1, <2>1, HeaderTaken, OfferTail
<1>6. Held'
  <2>1. Joint(base') BY <1>1, <1>2, JointTail DEF InOrder, Held
  <2>2. Joint(reader'[r].buf) BY <1>2 DEF Joint, Fresh
  <2> QED BY <1>2, <2>1, <2>2 DEF InOrder, Held
<1>7. Alone'
  <2>1. \A q \in Ids : ~Active(q) BY <1>1 DEF InOrder, Alone
  <2> QED BY <1>1, <1>2, <2>1 DEF Alone, Active, Fresh
<1>8. Ahead'
  <2>1. CASE script[r].framing = "preview"
    <3>1. pc' = "preview" /\ reader'[r].phase = "preview" /\ reader'[r].buf = <<>>
      BY <1>2, <2>1
    <3>2. Before(r)' = Pending'
      <4>1. Pending' \in Seq(Tokens) BY HeaderTaken
      <4>2. Before(r)' = <<>> \o Pending' BY <1>2, <3>1 DEF Before
      <4> QED BY <4>1, <4>2
    <3>3. Left(r)' = Run(r, 1, script[r].offered)
      <4>1. Len(body'[r]) + 1 = 1 BY <1>2
      <4> QED BY <1>2, <3>1, <4>1 DEF Left, RunEnd
    <3>4. Before(serving)' = Left(serving)' BY <1>2, <1>5, <2>1, <3>2, <3>3 DEF Before, Left, RunEnd
    <3> QED BY <1>1, <1>2, <3>1, <3>4 DEF Ahead, Active
  <2>2. CASE script[r].framing # "preview"
    <3>1. pc' = "handle" BY <1>2, <2>2
    <3> QED BY <1>2, <1>3, <1>4, <1>5, <2>2, <3>1 DEF Ahead
  <2> QED BY <2>1, <2>2
<1>9. Replies' /\ Ends' BY <1>1, <1>2 DEF Replies, Ends
<1>10. AllRead' BY <1>1, <1>2 DEF InOrder, AllRead, Fresh
<1> QED BY <1>6, <1>7, <1>8, <1>9, <1>10 DEF InOrder

(* The loop steps on without a reader at work.                             *)
LEMMA LoopKeeps ==
  ASSUME IInv, InOrder, ~client.gone, Undisturbed,
         PreviewRead \/ Panic \/ Finalize \/ Reply
  PROVE  InOrder'
<1>1. /\ TypeOK /\ Pending' = Pending /\ Held /\ Alone /\ Ahead /\ AllRead
      /\ UNCHANGED <<script, client, wire, base, reader, body, serving>>
  BY OrderFacts DEF InOrder, PreviewRead, Panic, Finalize, Reply, Close, stream, Pending
<1>2. Held' /\ AllRead' BY <1>1 DEF Held, AllRead
<1>3. ASSUME NEW r \in Ids, ~Active(r), pc \in {"preview", "body"}, serving = r
      PROVE  Pending = <<>>
  <2>1. reader[r].buf = <<>> BY <1>3 DEF IInv, Phased
  <2>2. Before(r) = Pending BY <1>1, <2>1, <1>3, PendingType
  <2> QED BY <1>1, <1>3, <2>2 DEF Ahead
<1>4. CASE PreviewRead
  <2>1. /\ pc = "preview" /\ pc' = "handle" /\ reader[serving].phase = "previewed"
        /\ serving \in Ids /\ inbox = <<>> /\ inbox' = inbox
    BY <1>4, OrderFacts DEF PreviewRead, Working
  <2>2. script[serving].framing = "preview" BY <2>1 DEF IInv, Phased
  <2>3. Pending = <<>> BY <1>3, <2>1 DEF Active
  <2>4. Ahead' BY <1>1, <2>1, <2>2, <2>3 DEF Ahead
  <2>5. Alone' BY <1>1, <2>1 DEF Alone, Active
  <2> QED BY <1>2, <2>1, <2>4, <2>5 DEF InOrder, Replies, Ends
<1>5. CASE Panic
  <2>1. /\ pc' = "abandoned" /\ script[serving].fate = "panics" /\ inbox' = inbox
        /\ pc = "handle" \/ (pc = "body" /\ reader[serving].phase = "done")
    BY <1>5 DEF Panic, Fate, BodyRead
  <2>2. client.waiting BY <2>1, OrderFacts DEF Working
  <2>3. inbox = <<>> BY <2>1, OrderFacts DEF InOrder, Replies
  <2>4. Alone'
    <3>1. CASE pc = "handle" BY <1>1, <2>1, <3>1 DEF Alone, Active
    <3>2. CASE reader[serving].phase = "done" BY <1>1, <2>1, <3>2 DEF Alone, Active
    <3> QED BY <2>1, <3>1, <3>2
  <2> QED BY <1>1, <1>2, <2>1, <2>2, <2>3, <2>4 DEF InOrder, Ahead, Replies, Ends
<1>6. CASE Finalize
  <2>1. pc = "abandoned" /\ pc' = "closed" /\ inbox' = inbox
    BY <1>6 DEF Finalize, Close
  <2>2. Alone' BY <1>1, <2>1 DEF Alone, Active
  <2> QED BY <1>1, <1>2, <2>1, <2>2 DEF InOrder, Ahead, Replies, Ends
<1>7. CASE Reply
  <2>1. pc \in {"handle", "body"} /\ pc' = "idle" /\ Send("final")
    BY <1>7 DEF Reply, Fate, BodyRead
  <2>2. serving \in Ids /\ serving = client.asked BY <2>1, OrderFacts DEF Working
  <2>3. inbox = <<>> /\ Pending = <<>> /\ \A r \in Ids : ~Active(r)
    <3>1. CASE pc = "handle"
      <4>1. script[serving].framing # "plain" BY <1>7, <3>1 DEF Reply, BodyRead
      <4> QED BY <1>1, <3>1, <4>1, OrderFacts DEF Alone, Ahead
    <3>2. CASE pc = "body"
      <4>1. reader[serving].phase = "done" BY <1>7, <3>2 DEF Reply, Fate, Reads, BodyRead
      <4>2. ~Active(serving) /\ \A r \in Ids : Active(r) => r = serving
        BY <1>1, <4>1 DEF Active, Alone
      <4>3. Pending = <<>> BY <1>3, <2>2, <3>2, <4>2
      <4> QED BY <3>2, <4>1, <4>2, <4>3 DEF InOrder, Replies
    <3> QED BY <2>1, <3>1, <3>2
  <2>4. inbox'[1] = [kind |-> "final", of |-> serving]
    <3>1. Len(inbox) + 1 = 1 BY <2>3
    <3> QED BY <1>1, <2>1, <2>2, <3>1, SendType
  <2>5. Alone' BY <1>1, <2>3 DEF Alone, Active
  <2>6. Ahead'
    <3>1. ~(serving < client.asked) BY <2>2, OrderFacts
    <3> QED BY <1>1, <2>1, <2>3, <3>1 DEF Ahead
  <2> QED BY <1>2, <2>1, <2>4, <2>5, <2>6 DEF InOrder, Replies, Ends
<1> QED BY <1>4, <1>5, <1>6, <1>7

(* The handler goes for the body, or for what is beyond the preview.       *)
LEMMA StartKeeps ==
  ASSUME IInv, InOrder, ~client.gone, ReadPlain \/ AskRest
  PROVE  InOrder'
<1>1. /\ TypeOK /\ Held /\ Alone /\ Ahead /\ AllRead
      /\ pc = "handle" /\ serving \in Ids /\ inbox = <<>>
      /\ UNCHANGED <<script, client, base, wire, body, serving>> /\ Pending' = Pending
      /\ \A q \in Ids : q # serving => reader'[q] = reader[q]
      /\ reader'[serving].buf = reader[serving].buf
      /\ Pending \in Seq(Tokens) /\ pc' = "body"
  BY OrderFacts, Started DEF InOrder, ReadPlain, AskRest
<1>2. /\ \A q \in Ids : ~Active(q)
      /\ reader[serving].buf = <<>>
  BY <1>1 DEF Alone, IInv, Phased
<1>3. Before(serving)' = Pending
  <2>1. Before(serving)' = <<>> \o Pending BY <1>1, <1>2 DEF Before
  <2> QED BY <1>1, <2>1
<1>4. Held' BY <1>1 DEF Held
<1>5. Alone' BY <1>1, <1>2 DEF Alone, Active
<1>6. CASE ReadPlain
  <2>1. /\ script[serving].framing = "plain" /\ reader'[serving].phase = "plain"
        /\ inbox' = inbox
    <3>1. reader' = [reader EXCEPT ![serving].phase = "plain"]
      BY <1>6 DEF ReadPlain
    <3>2. reader \in [Ids -> [phase: ReaderPhases, buf: Seq(Tokens)]]
      BY <1>1 DEF TypeOK
    <3>3. reader'[serving].phase = "plain" BY <1>1, <3>1, <3>2
    <3> QED BY <1>6, <3>3 DEF ReadPlain
  <2>2. body[serving] = <<>> BY <1>1, <2>1 DEF IInv, Unread
  <2>3. Left(serving)' = Run(serving, 1, script[serving].size)
    <3>1. Len(body'[serving]) + 1 = 1 BY <1>1, <2>2
    <3> QED BY <1>1, <2>1, <3>1 DEF Left, RunEnd
  <2>4. Ahead' BY <1>1, <1>3, <2>1, <2>3 DEF Ahead, Active
  <2>5. AllRead' BY <1>1, <2>1 DEF AllRead
  <2> QED BY <1>1, <1>4, <1>5, <2>1, <2>4, <2>5 DEF InOrder, Replies, Ends
<1>7. CASE AskRest
  <2>1. /\ script[serving].framing = "preview" /\ reader'[serving].phase = "rest"
        /\ Send("continue")
    <3>1. reader' = [reader EXCEPT ![serving].phase = "rest"]
      BY <1>7 DEF AskRest
    <3>2. reader \in [Ids -> [phase: ReaderPhases, buf: Seq(Tokens)]]
      BY <1>1 DEF TypeOK
    <3>3. reader'[serving].phase = "rest" BY <1>1, <3>1, <3>2
    <3> QED BY <1>7, <3>3 DEF AskRest
  <2>2. Len(body[serving]) = script[serving].offered
    BY <1>1, <2>1 DEF IInv, Phased, PreviewLast
  <2>3. inbox' # <<>> /\ Len(inbox') = 1
    <3>1. inbox' \in Seq(Answers) /\ Len(inbox') = Len(inbox) + 1
      BY <1>1, <2>1, SendType
    <3>2. Len(inbox') = 1
      <4>1. Len(inbox) + 1 = 1 BY <1>1
      <4> QED BY <3>1, <4>1
    <3>3. inbox' # <<>>
      <4>1. Len(<<>>) # 1 OBVIOUS
      <4> QED BY <3>2, <4>1, Zenon
    <3> QED BY <3>2, <3>3
  <2>4. Ahead' BY <1>1, <1>3, <2>1, <2>3 DEF Ahead
  <2>5. AllRead' BY <1>1, <2>1 DEF AllRead
  <2> QED BY <1>1, <1>4, <1>5, <2>1, <2>2, <2>3, <2>4, <2>5
    DEF InOrder, Replies, Ends
<1> QED BY <1>6, <1>7

(* A reader at work, undisturbed, has the rest of its run before it.       *)
LEMMA AtWork ==
  ASSUME IInv, InOrder, NEW r \in Ids, Active(r), Before(r) # <<>>
  PROVE  /\ r = serving /\ pc \in {"preview", "body"} /\ inbox = <<>>
         /\ Before(r) = Left(r) /\ Before(r) \in Seq(Tokens)
         /\ Len(body[r]) \in Nat /\ RunEnd(r) \in 0..MaxChunks
         /\ Len(body[r]) <= RunEnd(r)
<1>1. /\ TypeOK /\ r = serving /\ pc \in {"preview", "body"}
  BY DEF IInv, InOrder, Alone
<1>2. inbox = <<>> /\ Before(r) = Left(r) BY <1>1 DEF InOrder, Ahead
<1>3. /\ Len(body[r]) \in Nat /\ RunEnd(r) \in 0..MaxChunks
      /\ Before(r) \in Seq(Tokens)
  BY <1>1, ScriptType, PendingType DEF RunEnd
<1>4. Len(body[r]) <= RunEnd(r)
  <2>1. CASE reader[r].phase = "preview"
    <3>1. Due(r, Len(body[r]), script[r].offered, Before(r))
      BY <2>1, RunBefore DEF InRun
    <3> QED BY <2>1, <3>1 DEF Due, RunEnd
  <2>2. CASE reader[r].phase # "preview"
    BY <2>2 DEF IInv, BodyOwn, RunEnd
  <2> QED BY <2>1, <2>2
<1> QED BY <1>1, <1>2, <1>3, <1>4

LEMMA BufferFirst ==
  ASSUME IInv, NEW r \in Ids, reader[r].buf # <<>>
  PROVE  /\ reader[r].buf \in Seq(Tokens) /\ Pending \in Seq(Tokens)
         /\ Before(r) # <<>> /\ Before(r)[1] = Head(reader[r].buf)
<1>1. reader[r].buf \in Seq(Tokens) /\ Pending \in Seq(Tokens)
  BY ScriptType, PendingType DEF IInv
<1>2. Head(reader[r].buf) = reader[r].buf[1] /\ 1 \in 1..Len(reader[r].buf)
  BY <1>1, TailOf
<1>3. Before(r) # <<>> /\ Before(r)[1] = reader[r].buf[1]
  BY <1>1, <1>2, Joined, TailJoined DEF Before
<1> QED BY <1>1, <1>2, <1>3

LEMMA RefillKeepsOrder ==
  ASSUME IInv, InOrder, ~client.torn, NEW r \in Ids, Refill(r)
  PROVE  InOrder'
<1>1. /\ TypeOK /\ Held /\ Alone /\ Ahead /\ AllRead
      /\ UNCHANGED <<script, client, body, pc, serving, inbox>>
      /\ r = serving /\ pc \in {"preview", "body"}
      /\ Active(r) /\ Before(r)' = Before(r) /\ reader'[r].phase = reader[r].phase
      /\ \A q \in Ids : q # r => reader'[q] = reader[q]
  BY Refilled DEF IInv, InOrder, Alone, Refill
<1>2. Joint(base') /\ Joint(reader'[r].buf)
  <2>1. reader \in [Ids -> [phase: ReaderPhases, buf: Seq(Tokens)]]
    BY <1>1 DEF TypeOK
  <2>2. CASE base # <<>>
    <3>1. reader' = [reader EXCEPT ![r].buf = base] /\ base' = <<>>
      BY <2>2 DEF Refill
    <3>2. reader'[r].buf = base BY <2>1, <3>1
    <3> QED BY <1>1, <3>1, <3>2 DEF Held, Joint
  <2>3. CASE base = <<>>
    <3>1. PICK k \in Cuts : reader' = [reader EXCEPT ![r].buf = Fetched(k)]
      BY <2>3 DEF Refill
    <3>2. base' = <<>> BY <2>3 DEF Refill
    <3>3. reader'[r].buf = Fetched(k) BY <2>1, <3>1
    <3> QED BY <1>1, <3>2, <3>3, JointPart DEF Joint
  <2> QED BY <2>2, <2>3
<1>3. Held' BY <1>1, <1>2 DEF Held
<1>4. Alone' BY <1>1 DEF Alone, Active
<1>5. Left(r)' = Left(r) BY <1>1 DEF Left, RunEnd
<1>6. Ahead'
  <2>1. Before(serving)' = Before(serving) /\ Left(serving)' = Left(serving)
    BY <1>1, <1>5 DEF Before, Left, RunEnd
  <2> QED BY <1>1, <2>1 DEF Ahead, Active
<1>7. AllRead' BY <1>1 DEF AllRead, Active
<1> QED BY <1>1, <1>3, <1>4, <1>6, <1>7 DEF InOrder, Replies, Ends

LEMMA ChunkKeepsOrder ==
  ASSUME IInv, InOrder, NEW r \in Ids, TakeChunk(r)
  PROVE  InOrder'
<1>1. /\ UNCHANGED <<script, client, base, wire, pc, serving, inbox>>
      /\ Active(r) /\ reader[r].buf # <<>> /\ reader[r].buf[1].kind = "chunk"
      /\ \A q \in Ids : q # r => reader'[q] = reader[q] /\ body'[q] = body[q]
      /\ reader'[r].phase = reader[r].phase
      /\ reader'[r].buf = Tail(reader[r].buf)
      /\ Len(body'[r]) = Len(body[r]) + 1
      /\ Before(r)' = Tail(Before(r))
      /\ Before(r)[1] = reader[r].buf[1] /\ Before(r) # <<>>
  BY ChunkTaken
<1>2. /\ r = serving /\ pc \in {"preview", "body"} /\ inbox = <<>>
      /\ Before(r) = Left(r)
      /\ Len(body[r]) \in Nat /\ RunEnd(r) \in 0..MaxChunks
      /\ Len(body[r]) <= RunEnd(r)
  BY <1>1, AtWork
<1>3. Held'
  <2>1. reader[r].buf \in Seq(Tokens) BY <1>1, BufferFirst
  <2>2. Joint(Tail(reader[r].buf)) BY <1>1, <2>1, JointTail DEF InOrder, Held
  <2> QED BY <1>1, <2>2 DEF InOrder, Held
<1>4. Alone' BY <1>1 DEF InOrder, Alone, Active
<1>5. Before(r)' = Left(r)'
  <2>1. Len(body[r]) < RunEnd(r)
    <3>1. Len(body[r]) # RunEnd(r)
      <4> SUFFICES ASSUME Len(body[r]) = RunEnd(r) PROVE FALSE OBVIOUS
      <4>1. Before(r) = <<Mark(r, "zero"), Mark(r, "crlf")>>
        BY <1>2, RunHead DEF Left
      <4>2. Before(r)[1].kind = "zero" BY <4>1 DEF Mark
      <4> QED BY <1>1, <4>2
    <3> QED BY <1>2, <3>1, BoundsAssumption
  <2>2. Tail(Left(r)) = Run(r, Len(body[r]) + 1 + 1, RunEnd(r))
    BY <1>2, <2>1, RunHead DEF Left
  <2>3. Left(r)' = Run(r, Len(body[r]) + 1 + 1, RunEnd(r))
    BY <1>1 DEF Left, RunEnd
  <2> QED BY <1>1, <1>2, <2>2, <2>3
<1>6. Ahead'
  <2>1. Before(serving)' = Left(serving)'
    BY <1>1, <1>2, <1>5 DEF Before, Left, RunEnd
  <2> QED BY <1>1, <1>2, <2>1 DEF Ahead, Active
<1>7. AllRead' BY <1>1 DEF InOrder, AllRead, Active
<1> QED BY <1>1, <1>2, <1>3, <1>4, <1>6, <1>7 DEF InOrder, Replies, Ends

(* The 0 line ends a run that is complete, and nothing is behind it.       *)
LEMMA EndKeepsOrder ==
  ASSUME IInv, InOrder, NEW r \in Ids, TakeEnd(r)
  PROVE  InOrder'
<1>1. /\ UNCHANGED <<script, client, base, wire, body, serving, inbox, pc>>
      /\ Active(r) /\ Pending' = Pending
      /\ \A q \in Ids : q # r => reader'[q] = reader[q]
      /\ reader'[r].buf = <<>>
      /\ reader'[r].phase = IF reader[r].phase = "preview" THEN "previewed" ELSE "done"
      /\ reader[r].buf # <<>> /\ Head(reader[r].buf).kind \in {"zero", "crlf"}
  BY ReaderEnded DEF TakeEnd
<1>2. /\ reader[r].buf \in Seq(Tokens) /\ Pending \in Seq(Tokens)
      /\ Before(r) # <<>> /\ Before(r)[1] = Head(reader[r].buf)
  BY <1>1, BufferFirst
<1>3. /\ r = serving /\ pc \in {"preview", "body"} /\ inbox = <<>>
      /\ Before(r) = Left(r)
      /\ Len(body[r]) \in Nat /\ RunEnd(r) \in 0..MaxChunks
      /\ Len(body[r]) <= RunEnd(r)
  BY <1>1, <1>2, AtWork
<1>4. Len(body[r]) = RunEnd(r)
  <2>1. ~(Len(body[r]) < RunEnd(r))
    <3> SUFFICES ASSUME Len(body[r]) < RunEnd(r) PROVE FALSE OBVIOUS
    <3>1. Before(r)[1] = Chunk(r, Len(body[r]) + 1) BY <1>3, RunHead DEF Left
    <3> QED BY <1>1, <1>2, <3>1 DEF Chunk
  <2> QED BY <1>3, <2>1, BoundsAssumption
<1>5. Pending = <<>>
  <2>1. reader[r].buf \o Pending = <<Mark(r, "zero"), Mark(r, "crlf")>>
    BY <1>3, <1>4, RunHead DEF Left, Before
  <2>2. Joint(reader[r].buf) BY DEF InOrder, Held
  <2> QED BY <1>1, <1>2, <2>1, <2>2, EndWhole
<1>6. Held'
  <2>1. Joint(reader'[r].buf) BY <1>1 DEF Joint
  <2> QED BY <1>1, <2>1 DEF InOrder, Held
<1>7. Alone' BY <1>1 DEF InOrder, Alone, Active
<1>8. Ahead'
  <2>1. Before(serving)' = <<>> \o <<>> BY <1>1, <1>3, <1>5 DEF Before
  <2>2. Before(serving)' = <<>> BY <2>1
  <2>3. ~Active(serving)' BY <1>1, <1>3 DEF Active
  <2> QED BY <1>1, <1>3, <2>2, <2>3 DEF Ahead
<1>9. Replies'
  <2>1. pc = "body" => reader[r].phase # "preview" BY DEF IInv, Phased
  <2> QED BY <1>1, <1>3, <2>1 DEF Replies
<1>10. Ends' BY <1>1, <1>3 DEF Ends
<1>11. AllRead' BY <1>1, <1>4 DEF InOrder, AllRead, RunEnd
<1> QED BY <1>6, <1>7, <1>8, <1>9, <1>10, <1>11 DEF InOrder

(* Undisturbed, these cannot happen: what the loop or a reader finds is    *)
(* what belongs there.                                                     *)
LEMMA NeverOutOfOrder ==
  ASSUME IInv, InOrder, ~client.gone, Undisturbed
  PROVE  /\ ~TakeGarbage /\ ~TakeEof /\ ~Refuse /\ ~ShadowAnswer
         /\ \A r \in Ids : ~TakeBroken(r)
<1>1. TypeOK BY DEF IInv
<1>2. ASSUME TakeGarbage PROVE FALSE
  <2>1. pc = "idle" /\ base # <<>> /\ Head(base).kind # "header"
    BY <1>2 DEF TakeGarbage
  <2>2. Pending # <<>> /\ Head(base) = Pending[1] BY <1>1, <2>1, PendingType
  <2>3. Pending = Offer(client.asked) /\ client.asked \in Ids
    <3>1. serving < client.asked /\ Pending = Offer(client.asked)
      BY <2>1, <2>2 DEF InOrder, Ahead
    <3> QED BY <1>1, <3>1, BoundsAssumption DEF TypeOK, Ids
  <2>4. Offer(client.asked)[1] = Mark(client.asked, "header")
    BY <1>1, <2>3, OfferTail
  <2>5. Offer(client.asked)[1].kind = "header" BY <2>4 DEF Mark
  <2> QED BY <2>1, <2>2, <2>3, <2>5
<1>3. ~TakeEof BY DEF TakeEof, Eof
<1>4. ~Refuse /\ ~ShadowAnswer
  <2> SUFFICES ASSUME Refuse \/ ShadowAnswer PROVE FALSE OBVIOUS
  <2>1. pc = "handle" /\ script[serving].fate \in {"refused", "shadow"}
    BY DEF Refuse, ShadowAnswer, Fate
  <2>2. serving \in Ids BY <2>1, OrderFacts DEF Working
  <2> QED BY <2>1, <2>2 DEF Undisturbed
<1>5. ASSUME NEW r \in Ids, TakeBroken(r) PROVE FALSE
  <2>1. /\ Active(r) /\ reader[r].buf # <<>> /\ Head(reader[r].buf).kind = "header"
    BY <1>5 DEF TakeBroken, Eof
  <2>2. Before(r) # <<>> /\ Before(r)[1].kind = "header" BY <2>1, BufferFirst
  <2>3. /\ Before(r) = Run(r, Len(body[r]) + 1, RunEnd(r))
        /\ Len(body[r]) \in Nat /\ RunEnd(r) \in 0..MaxChunks
        /\ Len(body[r]) <= RunEnd(r)
    BY <2>1, <2>2, AtWork DEF Left
  <2>4. CASE Len(body[r]) < RunEnd(r)
    <3>1. Before(r)[1] = Chunk(r, Len(body[r]) + 1) BY <2>3, <2>4, RunHead
    <3> QED BY <2>2, <3>1 DEF Chunk
  <2>5. CASE Len(body[r]) = RunEnd(r)
    <3>1. Before(r) = <<Mark(r, "zero"), Mark(r, "crlf")>> BY <2>3, <2>5, RunHead
    <3>2. Before(r)[1].kind = "zero" BY <3>1 DEF Mark
    <3> QED BY <2>2, <3>2
  <2> QED BY <2>3, <2>4, <2>5, BoundsAssumption
<1> QED BY <1>2, <1>3, <1>4, <1>5

(* Whether a connection is disturbed is settled when it begins, and a      *)
(* client that has gone does not come back.                                *)
LEMMA Settled ==
  ASSUME TypeOK, [Next]_vars
  PROVE  /\ script' = script /\ client'.torn = client.torn
         /\ client.gone => client'.gone
<1>1. CASE ClientAsks \/ ClientAnswers \/ ClientLeaves
  BY <1>1 DEF ClientAsks, ClientAnswers, ClientSendsRest, ClientTakesReply,
    ClientSeesClose, ClientLeaves, TypeOK
<1>2. CASE LoopNext
  BY <1>2 DEF LoopNext, Fill, TakeHeader, TakeGarbage, TakeEof, PreviewRead, Refuse,
    ShadowAnswer, Panic, Finalize, ReadPlain, AskRest, Reply, Close
<1>3. ASSUME NEW r \in Ids, ReaderNext(r)
      PROVE  UNCHANGED <<script, client>>
  BY <1>3 DEF ReaderNext, Refill, TakeChunk, TakeEnd, TakeBroken, Close
<1>4. CASE UNCHANGED vars BY <1>4 DEF vars
<1> QED BY <1>1, <1>2, <1>3, <1>4 DEF Next

LEMMA StepCalm ==
  ASSUME IInv, Calm, [Next]_vars
  PROVE  Calm'
<1>1. SUFFICES ASSUME Undisturbed', ~client'.gone PROVE InOrder' BY DEF Calm
<1>2. TypeOK BY DEF IInv
<1>3. Undisturbed /\ ~client.gone /\ ~client.torn /\ InOrder
  BY <1>1, <1>2, Settled DEF Undisturbed, Calm
<1>4. CASE ClientAsks \/ ClientAnswers \/ ClientLeaves
  <2>1. ~ClientLeaves /\ ~ClientSeesClose
    BY <1>1, <1>2 DEF ClientLeaves, ClientSeesClose, TypeOK
  <2> QED BY <1>3, <1>4, <2>1, AsksKeeps, SendsRestKeeps, TakesReplyKeeps
    DEF ClientAnswers
<1>5. CASE LoopNext
  BY <1>3, <1>5, NeverOutOfOrder, FillKeepsOrder, TakeHeaderKeeps, LoopKeeps, StartKeeps
  DEF LoopNext
<1>6. ASSUME NEW r \in Ids, ReaderNext(r) PROVE InOrder'
  BY <1>3, <1>6, NeverOutOfOrder, RefillKeepsOrder, ChunkKeepsOrder, EndKeepsOrder
  DEF ReaderNext
<1>7. CASE UNCHANGED vars
  BY <1>3, <1>7 DEF vars, InOrder, Held, Alone, Ahead, Replies, Ends, AllRead, Active,
    Before, Pending, Left, RunEnd, Offer
<1> QED BY <1>4, <1>5, <1>6, <1>7 DEF Next

LEMMA InitCalm ==
  ASSUME Init
  PROVE  Calm
<1>1. Pending = <<>> BY DEF Init, Pending
<1>2. client.asked = 0 /\ serving = 0 /\ ~(0 < 0) BY DEF Init
<1> QED BY <1>1, <1>2
  DEF Init, Calm, InOrder, Held, Joint, Alone, Active, Fresh, Ahead, Replies, Ends, AllRead

(* Undisturbed, the stream holds what client and server are at, and that   *)
(* only.                                                                   *)
THEOREM StaysInOrder == Spec => []Calm
<1>1. Init => Calm BY InitCalm
<1>2. IInv /\ Calm /\ [Next]_vars => Calm' BY StepCalm
<1> QED BY <1>1, <1>2, Invariant, PTL DEF Spec

(* A handler that reads a body to io.EOF has read all of it: no run of     *)
(* chunks ends early, and none is given up for what the last one left.     *)
THEOREM ReadsWholeBodies == Spec => []BodyWhole
<1>1. Calm => BodyWhole BY DEF Calm, InOrder, AllRead, BodyWhole, EofAtTheEnd
<1> QED BY <1>1, StaysInOrder, PTL

(* When a transaction is over, nothing of it is left in the stream.        *)
THEOREM LeavesNothing == Spec => []InStep
<1>1. IInv /\ Calm => InStep
  <2> SUFFICES ASSUME IInv, Calm, Undisturbed, pc = "idle", ~client.waiting, ~client.gone
               PROVE  wire = <<>> /\ base = <<>>
    BY DEF InStep
  <2>1. InOrder BY DEF Calm
  <2>2. TypeOK /\ serving = client.asked /\ client.asked \in Nat BY <2>1, OrderFacts
  <2>3. Pending = <<>> BY <2>1, <2>2 DEF InOrder, Ahead
  <2>4. base = <<>> BY <2>2, <2>3, PendingType
  <2> QED BY <2>2, <2>3, <2>4, PendingType
<1> QED BY <1>1, Invariant, StaysInOrder, PTL

(* The server closes a connection on a panic, and else on a client that    *)
(* has left.                                                               *)
THEOREM ClosesForCause == Spec => []KeepsConnection
<1>1. Calm => KeepsConnection
  BY DEF Calm, InOrder, Ends, KeepsConnection
<1> QED BY <1>1, StaysInOrder, PTL

-----------------------------------------------------------------------------
(* Client and server never both wait: also on a connection that is refused, *)
(* torn or in disorder, as long as no service is shadowed.                 *)

Has(s, kind) == \E i \in 1..Len(s) : s[i].kind = kind

NoShadow == \A r \in Ids : script[r].fate # "shadow"
OneReader == NoShadow => Alone

(* What a waiting client has asked for is on its way, or answered.         *)
HeaderThere ==
  NoShadow /\ pc = "idle" /\ client.waiting /\ serving < client.asked =>
    Has(Pending, "header")
AnswerThere ==
  pc = "idle" /\ client.waiting /\ serving = client.asked => Has(inbox, "final")

(* A reader of the rest will come to a 0 line, unless the client has yet   *)
(* to see that it is asked for more.                                       *)
RestThere ==
  \A r \in Ids : reader[r].phase = "rest" /\ ~client.gone =>
    inbox # <<>> \/ Has(Before(r), "zero")

AtBody == pc = "body" => reader[serving].phase \in {"plain", "rest", "done"}

Supplied ==
  OneReader /\ HeaderThere /\ AnswerThere /\ RestThere /\ AtBody /\ Joint(wire)

LEMMA HasLonger ==
  ASSUME NEW s \in Seq(Tokens), NEW t \in Seq(Tokens), NEW kind,
         Has(s, kind) \/ Has(t, kind)
  PROVE  Has(s \o t, kind)
<1>1. /\ Len(s \o t) = Len(s) + Len(t)
      /\ \A i \in 1..Len(s) : (s \o t)[i] = s[i]
      /\ \A i \in 1..Len(t) : (s \o t)[Len(s) + i] = t[i]
  BY Joined
<1>2. CASE Has(s, kind)
  <2>1. PICK i \in 1..Len(s) : s[i].kind = kind BY <1>2 DEF Has
  <2> QED BY <1>1, <2>1 DEF Has
<1>3. CASE Has(t, kind)
  <2>1. PICK i \in 1..Len(t) : t[i].kind = kind BY <1>3 DEF Has
  <2>2. Len(s) + i \in 1..Len(s \o t) BY <1>1
  <2> QED BY <1>1, <2>1, <2>2 DEF Has
<1> QED BY <1>2, <1>3

LEMMA HasTail ==
  ASSUME NEW s \in Seq(Tokens), s # <<>>, NEW kind, Has(s, kind), s[1].kind # kind
  PROVE  Has(Tail(s), kind)
<1>1. /\ Len(Tail(s)) = Len(s) - 1 /\ \A i \in 1..(Len(s) - 1) : Tail(s)[i] = s[i + 1]
  BY TailOf
<1>2. PICK i \in 1..Len(s) : s[i].kind = kind BY DEF Has
<1>3. i - 1 \in 1..Len(Tail(s)) /\ Tail(s)[i - 1] = s[i] BY <1>1, <1>2
<1> QED BY <1>2, <1>3 DEF Has

LEMMA HeaderAhead ==
  ASSUME TypeOK, NEW r \in Ids
  PROVE  Offer(r) \in Seq(Tokens) /\ Has(Offer(r), "header")
<1>1. Offer(r) \in Seq(Tokens) /\ Len(Offer(r)) >= 1 /\ Offer(r)[1] = Mark(r, "header")
  BY OfferFacts
<1>2. 1 \in 1..Len(Offer(r)) /\ Offer(r)[1].kind = "header" BY <1>1 DEF Mark
<1> QED BY <1>1, <1>2 DEF Has

LEMMA ZeroAhead ==
  ASSUME TypeOK, NEW r \in Ids
  PROVE  Rest(r) \in Seq(Tokens) /\ Has(Rest(r), "zero")
<1>1. /\ Rest(r) \in Seq(Tokens)
      /\ Due(r, script[r].offered, script[r].size, Rest(r))
      /\ script[r].offered \in Nat /\ script[r].size \in Nat
  BY RestType, ScriptType
<1>2. LET k == script[r].size - script[r].offered + 1
      IN  k \in 1..Len(Rest(r)) /\ Rest(r)[k].kind = "zero"
  BY <1>1 DEF Due
<1> QED BY <1>1, <1>2 DEF Has

(* What a client sends ends behind a CRLF.                                 *)
LEMMA RunJoint ==
  ASSUME NEW r \in Ids, NEW n \in Nat, NEW last \in 0..MaxChunks, n <= last
  PROVE  /\ Run(r, n + 1, last) \in Seq(Tokens)
         /\ Run(r, n + 1, last) # <<>> /\ Joint(Run(r, n + 1, last))
<1>1. /\ Run(r, n + 1, last) \in Seq(Tokens)
      /\ Len(Run(r, n + 1, last)) = last - n + 2
      /\ Run(r, n + 1, last)[last - n + 2] = Mark(r, "crlf")
  BY RunFacts
<1>2. last \in Nat BY BoundsAssumption
<1>3. Run(r, n + 1, last) # <<>>
  <2> HIDE DEF Run
  <2> QED BY <1>1, <1>2
<1> QED BY <1>1, <1>3 DEF Joint, Mark

LEMMA JointLonger ==
  ASSUME NEW s \in Seq(Tokens), NEW t \in Seq(Tokens), t # <<>>, Joint(t)
  PROVE  Joint(s \o t)
<1>1. /\ Len(s \o t) = Len(s) + Len(t) /\ Len(t) > 0
      /\ (s \o t)[Len(s) + Len(t)] = t[Len(t)]
  <2>1. Len(t) > 0 OBVIOUS
  <2>2. Len(t) \in 1..Len(t) BY <2>1
  <2> QED BY <2>1, <2>2, Joined
<1> QED BY <1>1 DEF Joint

LEMMA JointLeft ==
  ASSUME TypeOK, NEW k \in Cuts, Joint(wire)
  PROVE  Joint(Unfetched(k))
<1>1. wire \in Seq(Tokens) /\ k \in 1..Len(wire) BY DEF TypeOK, Cuts
<1>2. SUFFICES ASSUME Unfetched(k) # <<>>
               PROVE  Unfetched(k)[Len(Unfetched(k))].kind # "zero"
  BY DEF Joint
<1>3. /\ Fetched(k) \in Seq(Tokens) /\ Unfetched(k) \in Seq(Tokens)
      /\ Fetched(k) \o Unfetched(k) = wire
  BY CutsPart
<1>4. Len(Unfetched(k)) > 0 /\ Len(Unfetched(k)) \in 1..Len(Unfetched(k)) BY <1>2, <1>3
<1>5. /\ Len(wire) = Len(Fetched(k)) + Len(Unfetched(k))
      /\ wire[Len(Fetched(k)) + Len(Unfetched(k))] = Unfetched(k)[Len(Unfetched(k))]
  BY <1>3, <1>4, Joined
<1>6. wire # <<>> BY <1>1
<1> QED BY <1>5, <1>6 DEF Joint

LEMMA OfferJoint ==
  ASSUME TypeOK, NEW r \in Ids
  PROVE  Offer(r) \in Seq(Tokens) /\ Offer(r) # <<>> /\ Joint(Offer(r))
<1>1. /\ Offer(r) \in Seq(Tokens) /\ Offer(r) # <<>>
      /\ Offer(r)[1] = Mark(r, "header")
      /\ Tail(Offer(r)) = IF script[r].framing = "none" THEN <<>>
                          ELSE Run(r, 1, script[r].offered)
  BY OfferTail
<1>2. /\ Len(Tail(Offer(r))) = Len(Offer(r)) - 1 /\ Len(Offer(r)) > 0
      /\ \A i \in 1..(Len(Offer(r)) - 1) : Tail(Offer(r))[i] = Offer(r)[i + 1]
  BY <1>1, TailOf
<1>3. CASE script[r].framing = "none"
  <2>1. Len(Offer(r)) = 1
    <3>1. Tail(Offer(r)) = <<>> /\ Len(<<>>) = 0 BY <1>1, <1>3
    <3>2. Len(Offer(r)) \in Nat BY <1>1
    <3>3. Len(Offer(r)) - 1 = 0 BY <1>2, <3>1, Zenon
    <3> QED BY <3>2, <3>3
  <2> QED BY <1>1, <2>1 DEF Joint, Mark
<1>4. CASE script[r].framing # "none"
  <2> DEFINE run == Run(r, 1, script[r].offered)
  <2>1. run \in Seq(Tokens) /\ run # <<>> /\ Joint(run)
    <3>1. 0 + 1 = 1 /\ script[r].offered \in 0..MaxChunks /\ 0 <= script[r].offered
      BY ScriptType, BoundsAssumption
    <3> QED BY <3>1, RunJoint
  <2>2. Tail(Offer(r)) = run BY <1>1, <1>4
  <2> HIDE DEF run
  <2>3. Len(run) > 0 /\ run[Len(run)].kind # "zero" BY <2>1 DEF Joint
  <2>4. Len(run) \in 1..(Len(Offer(r)) - 1) /\ Len(run) + 1 = Len(Offer(r))
    BY <1>2, <2>1, <2>2, <2>3
  <2>5. run[Len(run)] = Offer(r)[Len(Offer(r))] BY <1>2, <2>2, <2>4
  <2> QED BY <1>1, <2>3, <2>5 DEF Joint
<1> QED BY <1>3, <1>4

LEMMA RestJoint ==
  ASSUME TypeOK, NEW r \in Ids
  PROVE  Rest(r) # <<>> /\ Joint(Rest(r))
BY ScriptType, RunJoint DEF Rest

-----------------------------------------------------------------------------
(* The steps of the client.                                                *)

LEMMA AsksSupplied ==
  ASSUME IInv, Supplied, ClientAsks
  PROVE  Supplied'
<1>1. /\ TypeOK /\ Turns /\ client.asked \in Nat /\ serving \in Nat /\ Requests \in Nat
      /\ client.asked + 1 \in Ids /\ Pending \in Seq(Tokens) /\ wire \in Seq(Tokens)
  BY PendingType, BoundsAssumption DEF IInv, TypeOK, ClientAsks, Ids
<1>2. /\ UNCHANGED <<script, base, reader, body, pc, serving, inbox>>
      /\ wire' = wire \o Offer(client.asked + 1)
      /\ client'.asked = client.asked + 1 /\ ~client.gone /\ ~client.waiting
  BY DEF ClientAsks, TypeOK
<1>3. /\ Offer(client.asked + 1) \in Seq(Tokens)
      /\ Has(Offer(client.asked + 1), "header")
      /\ Offer(client.asked + 1) # <<>> /\ Joint(Offer(client.asked + 1))
  BY <1>1, HeaderAhead, OfferJoint
<1>4. Pending' = Pending \o Offer(client.asked + 1) BY <1>1, <1>2, <1>3, MoreSent
<1>5. HeaderThere' BY <1>1, <1>3, <1>4, HasLonger DEF HeaderThere
<1>6. AnswerThere'
  <2>1. serving < client'.asked BY <1>1, <1>2 DEF Turns
  <2> QED BY <1>1, <1>2, <2>1 DEF AnswerThere
<1>7. RestThere'
  <2>1. pc # "body" BY <1>1, <1>2 DEF Turns, Working
  <2> QED BY <1>2, <2>1 DEF RestThere, IInv, Phased
<1>8. Joint(wire') BY <1>1, <1>2, <1>3, JointLonger
<1> QED BY <1>2, <1>5, <1>6, <1>7, <1>8
  DEF Supplied, OneReader, NoShadow, Alone, Active, AtBody

LEMMA SendsRestSupplied ==
  ASSUME IInv, Supplied, ClientSendsRest
  PROVE  Supplied'
<1>1. /\ TypeOK /\ inbox # <<>> /\ inbox[1].kind = "continue" /\ client.waiting
      /\ UNCHANGED <<script, client, base, reader, body, pc, serving>>
      /\ wire' = wire \o Rest(client.asked) /\ inbox' = Tail(inbox)
      /\ Len(inbox) > 0 /\ wire \in Seq(Tokens)
      /\ serving \in Nat /\ client.asked \in Nat
  BY AnswerTail, BoundsAssumption DEF IInv, TypeOK, ClientSendsRest
<1>2. client.asked \in Ids
  <2>1. 1 \in 1..Len(inbox) /\ inbox[1] \in Answers BY <1>1 DEF TypeOK
  <2> QED BY <1>1, <2>1 DEF IInv, AnswersMatch, Answers
<1>3. /\ Rest(client.asked) \in Seq(Tokens) /\ Has(Rest(client.asked), "zero")
      /\ Rest(client.asked) # <<>> /\ Joint(Rest(client.asked))
  BY <1>1, <1>2, ZeroAhead, RestJoint
<1>4. ~client.gone /\ ~(serving < client.asked)
  BY <1>1 DEF IInv, Turns
<1>5. HeaderThere' BY <1>1, <1>4 DEF HeaderThere
<1>6. AnswerThere'
  <2> SUFFICES ASSUME pc = "idle", serving = client.asked PROVE Has(Tail(inbox), "final")
    BY <1>1 DEF AnswerThere
  <2>1. PICK i \in 1..Len(inbox) : inbox[i].kind = "final"
    BY <1>1 DEF Supplied, AnswerThere, Has
  <2>2. i - 1 \in 1..(Len(inbox) - 1) /\ (i - 1) + 1 = i
    <3>1. i # 1 BY <1>1, <2>1
    <3>2. Len(inbox) \in Nat BY <1>1 DEF TypeOK
    <3> QED BY <3>1, <3>2
  <2>3. Tail(inbox)[i - 1] = inbox[i] /\ Len(Tail(inbox)) = Len(inbox) - 1
    BY <1>1, <2>2, AnswerTail
  <2> QED BY <2>1, <2>2, <2>3 DEF Has
<1>7. RestThere'
  <2> SUFFICES ASSUME NEW r \in Ids, reader[r].phase = "rest" PROVE Has(Before(r)', "zero")
    BY <1>1 DEF RestThere
  <2>1. Before(r)' = Before(r) \o Rest(client.asked) /\ Before(r) \in Seq(Tokens)
    BY <1>1, <1>3, MoreSent, PendingType
  <2> QED BY <1>3, <2>1, HasLonger
<1>8. Joint(wire') BY <1>1, <1>3, JointLonger
<1> QED BY <1>1, <1>5, <1>6, <1>7, <1>8
  DEF Supplied, OneReader, NoShadow, Alone, Active, AtBody

(* The client takes its reply, or leaves. *)
LEMMA ClientSupplied ==
  ASSUME IInv, Supplied, ClientTakesReply \/ ClientLeaves \/ ClientSeesClose
  PROVE  Supplied'
<1>1. /\ TypeOK /\ UNCHANGED <<script, wire, base, reader, body, pc, serving>>
      /\ client'.asked = client.asked /\ client'.waiting = FALSE
      /\ ~ClientTakesReply => client'.gone = TRUE
      /\ ClientTakesReply => client'.gone = client.gone
  BY DEF IInv, TypeOK, ClientTakesReply, ClientLeaves, ClientSeesClose
<1>2. RestThere'
  <2> SUFFICES ASSUME NEW r \in Ids, reader[r].phase = "rest", ~client.gone,
                      ClientTakesReply
               PROVE  FALSE
    BY <1>1 DEF RestThere
  <2>1. pc = "body" BY DEF IInv, Phased
  <2>2. inbox # <<>> /\ inbox[1].kind = "final" /\ 1 \in 1..Len(inbox)
    BY <1>1, AnswerTail DEF ClientTakesReply, TypeOK
  <2> QED BY <2>1, <2>2 DEF IInv, Turns, Working
<1> QED BY <1>1, <1>2
  DEF Supplied, OneReader, NoShadow, Alone, Active, HeaderThere, AnswerThere, AtBody

-----------------------------------------------------------------------------
(* The steps of the loop.                                                  *)

LEMMA FillSupplied ==
  ASSUME IInv, Supplied, Fill
  PROVE  Supplied'
<1>1. /\ TypeOK /\ pc = "idle" /\ Pending' = Pending
      /\ UNCHANGED <<script, client, reader, body, pc, serving, inbox>>
  BY FillKeeps DEF IInv, Fill
<1>2. Joint(wire')
  <2>1. PICK k \in Cuts : wire' = Unfetched(k) BY DEF Fill
  <2> QED BY <1>1, <2>1, JointLeft DEF Supplied
<1>3. RestThere' BY <1>1 DEF Supplied, RestThere, Before
<1> QED BY <1>1, <1>2, <1>3
  DEF Supplied, OneReader, NoShadow, Alone, Active, HeaderThere, AnswerThere, AtBody

LEMMA HeaderSupplied ==
  ASSUME IInv, Supplied, TakeHeader
  PROVE  Supplied'
<1>1. /\ pc = "idle" /\ pc' \in {"preview", "handle"} /\ wire' = wire
      /\ UNCHANGED <<script, client, body, inbox>> /\ serving' = client.asked
      /\ \A q \in Ids : q # client.asked => reader'[q] = reader[q]
      /\ \/ reader'[client.asked].phase = "preview" /\ pc' = "preview"
         \/ reader'[client.asked] = Fresh
  BY Begun DEF TakeHeader
<1>2. OneReader'
  <2> SUFFICES ASSUME NoShadow, NEW r \in Ids, Active(r)'
               PROVE  r = client.asked /\ pc' = "preview"
    BY <1>1 DEF OneReader, NoShadow, Alone
  <2>1. ~Active(r) BY <1>1 DEF Supplied, OneReader, Alone
  <2>2. r = client.asked BY <1>1, <2>1 DEF Active
  <2> QED BY <1>1, <2>2 DEF Active, Fresh
<1>3. RestThere'
  <2>1. \A r \in Ids : reader'[r].phase # "rest"
    BY <1>1, Begun DEF IInv, Phased, Fresh
  <2> QED BY <2>1 DEF RestThere
<1> QED BY <1>1, <1>2, <1>3 DEF Supplied, HeaderThere, AnswerThere, AtBody

(* The loop ends the connection, or has the preview. *)
LEMMA LoopSupplied ==
  ASSUME IInv, Supplied,
         TakeGarbage \/ TakeEof \/ PreviewRead \/ Panic \/ Finalize
  PROVE  Supplied'
<1>1. /\ UNCHANGED <<script, client, wire, base, reader, body, serving, inbox>>
      /\ pc' \in {"closed", "handle", "abandoned"}
      /\ \/ pc \in {"idle", "abandoned", "handle"}
         \/ reader[serving].phase \in {"previewed", "done"}
  BY DEF TakeGarbage, TakeEof, PreviewRead, Panic, Finalize, Close, stream, Fate, BodyRead
<1>2. OneReader'
  <2> SUFFICES ASSUME NoShadow, NEW r \in Ids, Active(r) PROVE FALSE
    BY <1>1 DEF OneReader, NoShadow, Alone, Active
  <2>1. r = serving /\ pc \in {"preview", "body"} BY DEF Supplied, OneReader, Alone
  <2>2. reader[serving].phase \in {"previewed", "done"} BY <1>1, <2>1
  <2> QED BY <2>1, <2>2 DEF Active
<1>3. RestThere' BY <1>1 DEF Supplied, RestThere, Before, Pending
<1> QED BY <1>1, <1>2, <1>3 DEF Supplied, HeaderThere, AnswerThere, AtBody

(* The final answer is given. *)
LEMMA AnswerSupplied ==
  ASSUME IInv, Supplied, Refuse \/ ShadowAnswer \/ Reply
  PROVE  Supplied'
<1>1. /\ TypeOK /\ Turns /\ UNCHANGED <<script, client, wire, base, body, serving>>
      /\ Pending' = Pending /\ pc \in {"handle", "body"} /\ pc' = "idle" /\ Send("final")
      /\ serving \in Nat
  <2>1. TypeOK /\ Turns /\ serving \in Nat BY BoundsAssumption DEF IInv, TypeOK
  <2>2. /\ UNCHANGED <<script, client, wire, base, body, serving>>
        /\ pc \in {"handle", "body"} /\ pc' = "idle" /\ Send("final")
    BY DEF Refuse, ShadowAnswer, Reply, Fate, Reads, BodyRead, stream
  <2> QED BY <2>1, <2>2 DEF Pending
<1>2. serving \in Ids /\ (client.waiting => serving = client.asked)
  BY <1>1 DEF Turns, Working
<1>3. AnswerThere'
  <2>1. Len(inbox') = Len(inbox) + 1 /\ inbox'[Len(inbox) + 1].kind = "final"
    BY <1>1, <1>2, SendType
  <2>2. Len(inbox) + 1 \in 1..Len(inbox') BY <1>1, <2>1 DEF TypeOK
  <2> QED BY <2>1, <2>2 DEF AnswerThere, Has
<1>4. HeaderThere' BY <1>1, <1>2 DEF HeaderThere
<1>5. ~ShadowAnswer => reader' = reader BY DEF Refuse, Reply
<1>6. OneReader'
  <2> SUFFICES ASSUME NoShadow, NEW r \in Ids, Active(r)' PROVE FALSE
    BY <1>1 DEF OneReader, NoShadow, Alone
  <2>1. ~ShadowAnswer BY <1>2 DEF NoShadow, ShadowAnswer, Fate
  <2>2. r = serving /\ pc = "body"
    BY <1>1, <1>5, <2>1 DEF Supplied, OneReader, Alone, Active
  <2>3. reader[serving].phase = "done" BY <2>1, <2>2 DEF Reply, Refuse, Fate, Reads, BodyRead
  <2> QED BY <1>5, <2>1, <2>2, <2>3 DEF Active
<1>7. RestThere'
  <2> SUFFICES ASSUME NEW r \in Ids, reader'[r].phase = "rest" PROVE FALSE
    BY DEF RestThere
  <2>1. reader[r].phase = "rest"
    <3>1. CASE ShadowAnswer
      <4>1. \A q \in Ids : q # serving => reader'[q] = reader[q] BY <3>1, Started
      <4>2. reader' = reader \/ reader'[serving].phase = "plain"
        BY <3>1, Started DEF AskRest, ShadowAnswer, Fate, Reads, BodyRead
      <4> QED BY <4>1, <4>2
    <3> QED BY <1>5, <3>1
  <2>2. pc = "body" /\ r = serving BY <2>1 DEF IInv, Phased
  <2> QED BY <2>1, <2>2 DEF Reply, Refuse, ShadowAnswer, Fate, Reads, BodyRead
<1> QED BY <1>1, <1>3, <1>4, <1>6, <1>7 DEF Supplied, AtBody

(* The handler goes for the body, or for what is beyond the preview. *)
LEMMA StartSupplied ==
  ASSUME IInv, Supplied, ReadPlain \/ AskRest
  PROVE  Supplied'
<1>1. /\ TypeOK /\ UNCHANGED <<script, client, base, wire, body, serving>>
      /\ Pending' = Pending /\ pc = "handle" /\ pc' = "body" /\ serving \in Ids
      /\ \A q \in Ids : q # serving => reader'[q] = reader[q]
  BY Started DEF IInv, ReadPlain, AskRest
<1>2. \/ ReadPlain /\ reader'[serving].phase = "plain"
      \/ AskRest /\ reader'[serving].phase = "rest"
  <2>1. reader \in [Ids -> [phase: ReaderPhases, buf: Seq(Tokens)]] BY <1>1 DEF TypeOK
  <2> QED BY <1>1, <2>1 DEF ReadPlain, AskRest
<1>3. OneReader'
  BY <1>1, <1>2 DEF Supplied, OneReader, NoShadow, Alone, Active
<1>4. RestThere'
  <2> SUFFICES ASSUME NEW r \in Ids, reader'[r].phase = "rest" PROVE inbox' # <<>>
    BY <1>1 DEF RestThere
  <2>1. r = serving /\ AskRest
    <3>1. \A q \in Ids : reader[q].phase # "rest" BY <1>1 DEF IInv, Phased
    <3> QED BY <1>1, <1>2, <3>1
  <2>2. Len(inbox') = Len(inbox) + 1 /\ inbox' \in Seq(Answers)
    BY <1>1, <2>1, SendType DEF AskRest
  <2> QED BY <1>1, <2>2 DEF TypeOK
<1> QED BY <1>1, <1>2, <1>3, <1>4 DEF Supplied, HeaderThere, AnswerThere, AtBody

-----------------------------------------------------------------------------
(* The steps of the readers.                                               *)

LEMMA RefillSupplied ==
  ASSUME IInv, Supplied, NEW r \in Ids, Refill(r)
  PROVE  Supplied'
<1>1. /\ TypeOK /\ UNCHANGED <<script, client, body, pc, serving, inbox>>
      /\ Active(r) /\ Before(r)' = Before(r) /\ reader'[r].phase = reader[r].phase
      /\ \A q \in Ids : q # r => reader'[q] = reader[q]
  BY Refilled DEF IInv, Refill
<1>2. OneReader' BY <1>1 DEF Supplied, OneReader, NoShadow, Alone, Active
<1>3. HeaderThere'
  BY <1>1 DEF HeaderThere, Supplied, OneReader, NoShadow, Alone
<1>4. RestThere'
  <2>1. \A q \in Ids : reader'[q].phase = "rest" => q = r BY <1>1, Refiller
  <2> QED BY <1>1, <2>1 DEF Supplied, RestThere
<1>5. Joint(wire')
  <2>1. CASE wire' = wire BY <2>1 DEF Supplied
  <2>2. CASE wire' # wire
    <3>1. PICK k \in Cuts : wire' = Unfetched(k) BY <2>2 DEF Refill
    <3> QED BY <1>1, <3>1, JointLeft DEF Supplied
  <2> QED BY <2>1, <2>2
<1>6. AtBody'
  <2>1. \A q \in Ids : reader'[q].phase = reader[q].phase BY <1>1
  <2>2. pc = "body" => serving \in Ids BY DEF IInv, Turns, Working
  <2> QED BY <1>1, <2>1, <2>2 DEF Supplied, AtBody
<1> QED BY <1>1, <1>2, <1>3, <1>4, <1>5, <1>6 DEF Supplied, AnswerThere

LEMMA ChunkSupplied ==
  ASSUME IInv, Supplied, NEW r \in Ids, TakeChunk(r)
  PROVE  Supplied'
<1>1. /\ UNCHANGED <<script, client, base, wire, pc, serving, inbox>>
      /\ \A q \in Ids : q # r => reader'[q] = reader[q]
      /\ reader'[r].phase = reader[r].phase
      /\ reader[r].buf[1].kind = "chunk"
      /\ Before(r) # <<>> /\ Before(r)[1] = reader[r].buf[1]
      /\ Before(r)' = Tail(Before(r)) /\ Before(r) \in Seq(Tokens)
  BY ChunkTaken, PendingType DEF IInv
<1>2. \A q \in Ids : reader'[q].phase = reader[q].phase BY <1>1
<1>3. RestThere'
  <2> SUFFICES ASSUME NEW q \in Ids, reader[q].phase = "rest", ~client.gone, inbox = <<>>
               PROVE  Has(Before(q)', "zero")
    BY <1>1, <1>2 DEF RestThere
  <2>1. Has(Before(q), "zero") BY DEF Supplied, RestThere
  <2>2. CASE q = r
    <3>1. Before(r)[1].kind # "zero" BY <1>1
    <3> QED BY <1>1, <2>1, <2>2, <3>1, HasTail
  <2>3. CASE q # r
    <3>1. Before(q)' = Before(q) BY <1>1, <2>3 DEF Before, Pending
    <3> QED BY <2>1, <3>1
  <2> QED BY <2>2, <2>3
<1>4. AtBody'
  <2>1. pc = "body" => serving \in Ids BY DEF IInv, Turns, Working
  <2> QED BY <1>1, <1>2, <2>1 DEF Supplied, AtBody
<1>5. OneReader' BY <1>1, <1>2 DEF Supplied, OneReader, NoShadow, Alone, Active
<1> QED BY <1>1, <1>3, <1>4, <1>5 
  DEF Supplied, HeaderThere, AnswerThere, NoShadow, Pending

LEMMA EndSupplied ==
  ASSUME IInv, Supplied, NEW r \in Ids, TakeEnd(r) \/ TakeBroken(r)
  PROVE  Supplied'
<1>1. /\ UNCHANGED <<script, client, base, wire, body, serving, inbox>>
      /\ Active(r) /\ Pending' = Pending
      /\ \A q \in Ids : q # r => reader'[q] = reader[q]
      /\ reader'[r].phase = IF reader[r].phase = "preview" THEN "previewed" ELSE "done"
      /\ pc' = pc \/ (reader[r].phase = "preview" /\ pc' = "closed")
  BY ReaderEnded
<1>2. OneReader'
  <2> SUFFICES ASSUME NoShadow, NEW q \in Ids, Active(q)'
               PROVE  q = serving /\ pc' \in {"preview", "body"}
    BY <1>1 DEF OneReader, NoShadow, Alone
  <2>1. q # r /\ Active(q) BY <1>1 DEF Active
  <2>2. r = serving /\ q = serving BY <1>1, <2>1 DEF Supplied, OneReader, Alone
  <2> QED BY <2>1, <2>2
<1>3. RestThere'
  <2> SUFFICES ASSUME NEW q \in Ids, reader'[q].phase = "rest", ~client.gone, inbox = <<>>
               PROVE  Has(Before(q)', "zero")
    BY <1>1 DEF RestThere
  <2>1. q # r /\ reader'[q] = reader[q] BY <1>1
  <2>2. Before(q)' = Before(q) BY <1>1, <2>1 DEF Before
  <2> QED BY <2>1, <2>2 DEF Supplied, RestThere
<1>4. AtBody'
  <2> SUFFICES ASSUME pc' = "body" PROVE reader'[serving].phase \in {"plain", "rest", "done"}
    BY <1>1 DEF AtBody
  <2>1. pc = "body" /\ serving \in Ids BY <1>1 DEF IInv, Turns, Working
  <2>2. reader[r].phase # "preview" BY <2>1 DEF IInv, Phased
  <2> QED BY <1>1, <2>1, <2>2 DEF Supplied, AtBody
<1>5. HeaderThere' BY <1>1 DEF Supplied, HeaderThere, NoShadow
<1>6. AnswerThere' BY <1>1 DEF Supplied, AnswerThere
<1> QED BY <1>1, <1>2, <1>3, <1>4, <1>5, <1>6 DEF Supplied

LEMMA StepSupplied ==
  ASSUME IInv, Supplied, [Next]_vars
  PROVE  Supplied'
<1>1. CASE ClientAsks \/ ClientAnswers \/ ClientLeaves
  BY <1>1, AsksSupplied, SendsRestSupplied, ClientSupplied DEF ClientAnswers
<1>2. CASE LoopNext
  BY <1>2, FillSupplied, HeaderSupplied, LoopSupplied, AnswerSupplied, StartSupplied
  DEF LoopNext
<1>3. ASSUME NEW r \in Ids, ReaderNext(r) PROVE Supplied'
  BY <1>3, RefillSupplied, ChunkSupplied, EndSupplied DEF ReaderNext
<1>4. CASE UNCHANGED vars
  BY <1>4 DEF vars, Supplied, OneReader, NoShadow, Alone, Active, HeaderThere,
    AnswerThere, RestThere, AtBody, Joint, Before, Pending
<1> QED BY <1>1, <1>2, <1>3, <1>4 DEF Next

LEMMA InitSupplied ==
  ASSUME Init
  PROVE  Supplied
BY DEF Init, Supplied, OneReader, Alone, Active, Fresh, HeaderThere, AnswerThere,
  RestThere, AtBody, Joint

(* The guard of a step of the loop, or of a reader at work, holds.         *)
ServerMoves ==
  \/ pc \in {"handle", "abandoned"}
  \/ pc = "idle" /\ (base # <<>> \/ Cuts # {})
  \/ pc = "preview" /\ reader[serving].phase = "previewed"
  \/ pc = "body" /\ reader[serving].phase = "done"
  \/ \E r \in Ids : Active(r) /\ (reader[r].buf # <<>> \/ base # <<>> \/ Cuts # {})

(* A client that waits has an answer to read, or the server has something  *)
(* to do, or has closed the connection.                                    *)
NeverBothWait ==
  NoShadow /\ client.waiting => inbox # <<>> \/ pc = "closed" \/ ServerMoves

(* What was sent can be read.                                              *)
LEMMA CanRead ==
  ASSUME TypeOK, Joint(wire), wire # <<>>
  PROVE  Cuts # {}
<1>1. wire \in Seq(Tokens) /\ Len(wire) \in 1..Len(wire) BY DEF TypeOK
<1> QED BY <1>1 DEF Cuts, Joint

(* A reader at work with nothing in its buffer has something to fetch.     *)
LEMMA ReaderFed ==
  ASSUME IInv, Supplied, NEW r \in Ids, Active(r), reader[r].buf = <<>>,
         ~client.gone, inbox = <<>>
  PROVE  Pending # <<>>
<1>1. /\ TypeOK /\ Before(r) = Pending /\ Pending \in Seq(Tokens)
      /\ Len(body[r]) \in Nat /\ script[r].offered \in Nat
  BY PendingType, ScriptType DEF IInv
<1>2. CASE InRun(r)
  <2>1. Due(r, Len(body[r]), script[r].offered, Pending) BY <1>1, <1>2, RunBefore
  <2>2. Len(Pending) > 0 BY <1>1, <2>1 DEF Due
  <2> QED BY <2>2
<1>3. CASE reader[r].phase = "rest"
  <2>1. Has(Pending, "zero") BY <1>1, <1>3 DEF Supplied, RestThere
  <2> QED BY <2>1 DEF Has
<1> QED BY <1>2, <1>3 DEF Active, InRun

(* Client and server never wait for each other: what Settles needs beyond  *)
(* fairness.                                                               *)
THEOREM NobodyStarves == Spec => []NeverBothWait
<1>1. Init => Supplied BY InitSupplied
<1>2. IInv /\ Supplied /\ [Next]_vars => Supplied' BY StepSupplied
<1>3. IInv /\ Supplied => NeverBothWait
  <2> SUFFICES ASSUME IInv, Supplied, NoShadow, client.waiting, inbox = <<>>,
                      pc # "closed"
               PROVE  ServerMoves
    BY DEF NeverBothWait
  <2>1. /\ TypeOK /\ Turns /\ ~client.gone /\ serving \in Nat /\ client.asked \in Nat
        /\ pc \in Places
    BY BoundsAssumption DEF IInv, TypeOK, Turns
  <2>2. Pending # <<>> => base # <<>> \/ Cuts # {}
    BY <2>1, PendingType, CanRead DEF Supplied
  <2>3. ASSUME NEW r \in Ids, Active(r) PROVE ServerMoves
    BY <2>1, <2>2, <2>3, ReaderFed DEF ServerMoves
  <2>4. CASE pc = "idle"
    <3>1. serving < client.asked
      <4>1. serving = client.asked => Has(<<>>, "final")
        BY <2>4 DEF Supplied, AnswerThere
      <4>2. ~Has(<<>>, "final")
        <5>1. 1..Len(<<>>) = {} OBVIOUS
        <5> QED BY <5>1 DEF Has
      <4> QED BY <2>1, <4>1, <4>2 DEF Turns
    <3>2. Has(Pending, "header") BY <2>4, <3>1 DEF Supplied, HeaderThere
    <3>3. Pending # <<>> BY <3>2 DEF Has
    <3> QED BY <2>2, <2>4, <3>3 DEF ServerMoves
  <2>5. CASE pc = "preview"
    <3>1. serving \in Ids /\ reader[serving].phase \in {"preview", "previewed"}
      BY <2>1, <2>5 DEF Turns, Working, IInv, Phased
    <3> QED BY <2>3, <2>5, <3>1 DEF ServerMoves, Active
  <2>6. CASE pc = "body"
    <3>1. serving \in Ids /\ reader[serving].phase \in {"plain", "rest", "done"}
      BY <2>1, <2>6 DEF Turns, Working, Supplied, AtBody
    <3> QED BY <2>3, <2>6, <3>1 DEF ServerMoves, Active
  <2> QED BY <2>1, <2>4, <2>5, <2>6 DEF Places, ServerMoves
<1> QED BY <1>1, <1>2, <1>3, Invariant, PTL DEF Spec
================================================================================
