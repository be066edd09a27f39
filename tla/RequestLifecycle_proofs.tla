------------------------ MODULE RequestLifecycle_proofs ------------------------
(* Proofs about RequestLifecycle, for every set of transactions, every bound *)
(* on the size of a body and every set of inputs.                            *)
EXTENDS RequestLifecycle, FiniteSetTheorems, TLAPS

(* What the assumption on the constants says of one transaction's input. *)
LEMMA InputFacts ==
  ASSUME TypeOK, NEW r \in Reqs
  PROVE  /\ input[r] \in Input
         /\ Full(r) \subseteq Parts
         /\ Preview(r) \subseteq Parts
         /\ ~Partial(r) => Preview(r) = Full(r)
         /\ \A n \in 0..input[r].size : 1..n \subseteq Parts
  BY InputsAssumption, MaxBodyAssumption
  DEF TypeOK, Input, WellFormed, Full, Preview, Partial, Parts

LEMMA BareTyped ==
  \A code \in {200, 204, 400, 404, 405, 408, 500} :
    Bare(code) \in Replies /\ Bare(code) # NoReply /\ Bare(code).form = "none"
  BY DEF Bare, Replies, NoReply

LEMMA WrittenTyped ==
  ASSUME NEW o \in OutStates, NEW reply \in Replies
  PROVE  Written(o, reply) \in OutStates
  BY DEF Written, OutStates

(* WriteHeader keeps the type of the response writer. *)
LEMMA WriteHeaderTyped ==
  ASSUME TypeOK, NEW r \in Reqs, NEW reply \in Replies, WriteHeader(r, reply)
  PROVE  out' \in [Reqs -> OutStates]
  BY WrittenTyped DEF TypeOK, WriteHeader

LEMMA ReadableTyped ==
  ASSUME TypeOK, NEW r \in Reqs
  PROVE  /\ \A b \in Readable(r) : b \subseteq Parts
         /\ \A b \in Obtainable(r) : b \subseteq Parts
         /\ \A b \in Rest(r) : b \subseteq Parts
  <1>1. \A b \in Readable(r) : b \subseteq Parts
    BY InputFacts DEF Readable
  <1>2. \A b \in Obtainable(r) : b \subseteq Parts
    BY <1>1, InputFacts DEF Obtainable
  <1>3. \A n \in input[r].offered..input[r].size : n \in 0..input[r].size
    BY InputFacts, MaxBodyAssumption DEF Input
  <1>4. \A b \in Rest(r) : b \subseteq Parts
    BY <1>3, InputFacts DEF Rest
  <1>5. QED BY <1>1, <1>2, <1>4

LEMMA ReplyForTyped ==
  ASSUME TypeOK, NEW r \in Reqs
  PROVE  ReplyFor(r) \in Replies
  <1>1. NoModification(r) \in Replies
    BY BareTyped DEF NoModification, TypeOK, ReqStates, Replies
  <1>2. req[r].body \in SUBSET Parts
    BY DEF TypeOK, ReqStates
  <1>3. QED BY <1>1, <1>2, BareTyped DEF ReplyFor, Replies

LEMMA ProcessRequestTyped ==
  ASSUME TypeOK, NEW r \in Reqs, NEW v \in Verdicts, NEW pass \in Passes,
         NEW partial \in BOOLEAN, ProcessRequest(r, v, pass, partial)
  PROVE  /\ tally' \in [Reqs -> TallyStates]
         /\ rec' \in [Reqs \X Passes -> Recorders]
  <1>1. tally' \in [Reqs -> TallyStates]
    <2>1. tally[r].observed + (IF v = "observe" THEN 1 ELSE 0) \in Nat
      BY DEF TypeOK, TallyStates
    <2>2. (tally[r].rejected \/ v = "reject") \in BOOLEAN
      OBVIOUS
    <2>3. QED BY ZenonT(60), <2>1, <2>2 DEF TypeOK, TallyStates, ProcessRequest
  <1>2. Launched(r, v) \in Recorders
    BY MaxAttemptsAssumption
    DEF Launched, Recorders, RecPhases, Targets, TypeOK, ReqStates
  <1>3. QED BY <1>1, <1>2 DEF ProcessRequest, TypeOK

LEMMA ProceedTyped ==
  ASSUME TypeOK, NEW r \in Reqs, NEW v \in Verdicts, Proceed(r, v)
  PROVE  out' \in [Reqs -> OutStates] /\ pc' \in [Reqs -> Phases]
  <1>1. CASE v = "reject"
    BY <1>1, WriteHeaderTyped, BareTyped DEF Proceed, Goto, Phases, TypeOK
  <1>2. CASE v # "reject"
    BY <1>2 DEF Proceed, Goto, Phases, TypeOK
  <1>3. QED BY <1>1, <1>2

LEMMA TypeInit == Init => TypeOK
  BY MaxAttemptsAssumption DEF Init, ReqStates, LinkStates, OutStates, TallyStates, TypeOK, Phases, Targets, Outcomes, NoReply, Recorders,
         IdleRecorder, RecPhases

LEMMA TypeProcess ==
  ASSUME TypeOK, NEW r \in Reqs, Process(r)
  PROVE  TypeOK'
  <1> USE DEF Goto, Phases, ReqStates, LinkStates
  <1>1. CASE Refuse(r)
    BY <1>1, WriteHeaderTyped, BareTyped DEF Refuse, TypeOK
  <1>2. CASE ShadowAnswer(r)
    <2>1. \A b \in Readable(r) :
            [status |-> 200, form |-> "original", body |-> b] \in Replies
      BY ReadableTyped DEF Replies
    <2>2. out' \in [Reqs -> OutStates]
      BY ZenonT(60), <1>2, <2>1, WriteHeaderTyped, BareTyped DEF ShadowAnswer
    <2>3. pc' \in [Reqs -> Phases]
      BY <1>2 DEF ShadowAnswer, TypeOK
    <2>4. QED BY <1>2, <2>2, <2>3 DEF ShadowAnswer, TypeOK
  <1>3. CASE Admit(r)
    BY <1>3 DEF Admit, TypeOK
  <1>4. CASE OptionsMode(r)
    BY <1>4, WriteHeaderTyped, BareTyped DEF OptionsMode, TypeOK
  <1>5. CASE ReadBody(r)
    <2>1. PICK b \in Obtainable(r) :
            /\ req' = [req EXCEPT ![r].body = b, ![r].orgBody = b,
                                  ![r].partial = Partial(r)]
            /\ link' = [link EXCEPT ![r].cut = b # Preview(r)]
      BY <1>5 DEF ReadBody
    <2> b \in SUBSET Parts /\ req \in [Reqs -> ReqStates]
      BY ReadableTyped DEF TypeOK
    <2>2. \A x \in BOOLEAN : [req EXCEPT ![r].body = b, ![r].orgBody = b,
                                 ![r].partial = x] \in [Reqs -> ReqStates]
      BY ZenonT(60)
    <2>3. \A x \in BOOLEAN : [link EXCEPT ![r].cut = x] \in [Reqs -> LinkStates]
      BY DEF TypeOK
    <2>4. Partial(r) \in BOOLEAN /\ (b # Preview(r)) \in BOOLEAN
      BY DEF Partial
    <2>5. req' \in [Reqs -> ReqStates] /\ link' \in [Reqs -> LinkStates]
      BY <2>1, <2>2, <2>3, <2>4
    <2>6. QED BY <1>5, <2>5 DEF ReadBody, TypeOK
  <1>6. CASE FirstPass(r)
    <2>1. PICK v \in Verdicts :
            /\ ProcessRequest(r, v, "first", req[r].partial)
            /\ req' = [req EXCEPT ![r].applied = TRUE,
                             ![r].pending = Recordable(v) /\ req[r].partial]
            /\ Proceed(r, v)
      BY <1>6 DEF FirstPass
    <2>2. req[r].partial \in BOOLEAN /\ "first" \in Passes
      BY DEF TypeOK, ReqStates, Passes
    <2>3. (Recordable(v) /\ req[r].partial) \in BOOLEAN
      BY <2>2 DEF Recordable
    <2> req \in [Reqs -> ReqStates]
      BY DEF TypeOK
    <2>4. \A x \in BOOLEAN : [req EXCEPT ![r].applied = TRUE, ![r].pending = x]
                               \in [Reqs -> ReqStates]
      BY ZenonT(60)
    <2>5. req' \in [Reqs -> ReqStates]
      BY <2>1, <2>3, <2>4
    <2>6. tally' \in [Reqs -> TallyStates] /\ rec' \in [Reqs \X Passes -> Recorders]
      BY ONLY TypeOK, <2>1, <2>2, ProcessRequestTyped
    <2>7. out' \in [Reqs -> OutStates] /\ pc' \in [Reqs -> Phases]
      BY <2>1, ProceedTyped
    <2>8. UNCHANGED <<input, link, queue, up>>
      BY <1>6 DEF FirstPass
    <2>9. QED BY <2>5, <2>6, <2>7, <2>8 DEF TypeOK
  <1>7. CASE FlushPass(r)
    <2>1. "flush" \in Passes
      BY DEF Passes
    <2>2. PICK v \in Verdicts : ProcessRequest(r, v, "flush", FALSE) /\ Proceed(r, v)
      BY <1>7 DEF FlushPass
    <2> req \in [Reqs -> ReqStates]
      BY DEF TypeOK
    <2>a. req' = [req EXCEPT ![r].pending = FALSE]
      BY <1>7 DEF FlushPass
    <2>3. req' \in [Reqs -> ReqStates]
      BY <2>a
    <2>4. QED
      BY <1>7, <2>1, <2>2, <2>3, ProcessRequestTyped, ProceedTyped
      DEF FlushPass, TypeOK
  <1>8. CASE SkipPolicy(r)
    BY ZenonT(60), <1>8 DEF SkipPolicy, TypeOK
  <1>9. CASE ScanPartial(r)
    BY <1>9 DEF ScanPartial, TypeOK
  <1>10. CASE Scan(r)
    <2>1. PICK o \in Possible(r) :
            req' = [req EXCEPT ![r].outcome = o,
                               ![r].target = IF o = "block" /\ Reqmod(r)
                                             THEN "rewritten" ELSE @]
      BY <1>10 DEF Scan
    <2>2. o \in Outcomes
      BY DEF Possible
    <2>3. (IF o = "block" /\ Reqmod(r) THEN "rewritten" ELSE req[r].target)
            \in Targets
      BY DEF TypeOK, Targets
    <2>4. req' \in [Reqs -> ReqStates]
      <3>1. \A t \in Targets : [req EXCEPT ![r].outcome = o, ![r].target = t]
                                \in [Reqs -> ReqStates]
        BY ZenonT(60), <2>2 DEF TypeOK
      <3>2. QED BY <2>1, <2>3, <3>1
    <2>5. QED BY <1>10, <2>4 DEF Scan, TypeOK
  <1>11. CASE ScanPanics(r)
    <2>1. (~Shadow(r)) \in BOOLEAN
      BY DEF Shadow
    <2>2. QED BY <1>11, <2>1 DEF ScanPanics, TypeOK
  <1>12. CASE Continue(r)
    BY <1>12 DEF Continue, TypeOK, OutStates
  <1>13. CASE ReadRest(r)
    <2>1. PICK b \in Rest(r) :
            /\ req' = [req EXCEPT ![r].body = b, ![r].orgBody = b,
                                  ![r].partial = FALSE]
            /\ link' = [link EXCEPT ![r].cut = @ \/ (link[r].gone /\ b # Full(r))]
      BY <1>13 DEF ReadRest
    <2> b \in SUBSET Parts /\ req \in [Reqs -> ReqStates]
      BY ReadableTyped DEF TypeOK
    <2>2. req' \in [Reqs -> ReqStates]
      BY ZenonT(60), <2>1
    <2>3. \A x \in BOOLEAN : [link EXCEPT ![r].cut = x] \in [Reqs -> LinkStates]
      BY DEF TypeOK
    <2>4. (link[r].cut \/ (link[r].gone /\ b # Full(r))) \in BOOLEAN
      OBVIOUS
    <2>5. link' \in [Reqs -> LinkStates]
      BY <2>1, <2>3, <2>4
    <2>6. QED BY <1>13, <2>2, <2>5 DEF ReadRest, TypeOK
  <1>14. CASE Reply(r)
    BY <1>14, ReplyForTyped, WriteHeaderTyped DEF Reply, TypeOK
  <1>15. QED
    BY <1>1, <1>2, <1>3, <1>4, <1>5, <1>6, <1>7, <1>8, <1>9, <1>10, <1>11,
       <1>12, <1>13, <1>14 DEF Process

LEMMA TypeRecord ==
  ASSUME TypeOK, NEW k \in Reqs \X Passes, Record(k)
  PROVE  TypeOK'
  <1> USE DEF Recorders, RecPhases
  <1>1. rec[k] \in Recorders /\ k[1] \in Reqs /\ k[2] \in Passes
    BY DEF TypeOK
  <1>2. CASE ReadTarget(k)
    <2>1. req[k[1]].target \in Targets
      BY <1>1 DEF TypeOK, ReqStates
    <2>2. rec' \in [Reqs \X Passes -> Recorders]
      BY <1>1, <1>2, <2>1 DEF ReadTarget, TypeOK
    <2>3. QED BY <1>2, <2>2 DEF ReadTarget, TypeOK
  <1>3. CASE StoreFiles(k)
    <2>1. PICK stored \in Uploads(k) :
            rec' = [rec EXCEPT ![k].phase = "sending",
                               ![k].body = IF rec[k].wildcard \/ stored # {}
                                           THEN {} ELSE @,
                               ![k].files = stored,
                               ![k].attempts = 0]
      BY <1>3 DEF StoreFiles
    <2>2. stored \in SUBSET Parts
      BY <1>1 DEF Uploads
    <2>3. (IF rec[k].wildcard \/ stored # {} THEN {} ELSE rec[k].body)
            \in SUBSET Parts
      BY <1>1
    <2>4. \A b \in SUBSET Parts :
            [rec EXCEPT ![k].phase = "sending", ![k].body = b, ![k].files = stored,
                        ![k].attempts = 0]
              \in [Reqs \X Passes -> Recorders]
      <3>1. 0 \in 0..MaxAttempts /\ rec \in [Reqs \X Passes -> Recorders]
        BY MaxAttemptsAssumption DEF TypeOK
      <3>2. \A b \in SUBSET Parts :
              [rec[k] EXCEPT !.phase = "sending", !.body = b, !.files = stored,
                             !.attempts = 0] \in Recorders
        BY <1>1, <2>2, <3>1
      <3>3. QED BY ZenonT(60), <1>1, <3>1, <3>2
    <2>5. rec' \in [Reqs \X Passes -> Recorders]
      BY <2>1, <2>3, <2>4
    <2>6. QED BY <1>3, <2>5 DEF StoreFiles, TypeOK
  <1>4. CASE Enqueue(k) \/ AttemptFails(k)
    <2>1. rec[k].copies \in Nat /\ rec[k].copies + 1 \in Nat
      BY <1>1
    <2>2. Message(k, rec[k].copies + 1) \in Messages
      BY <1>1, <2>1 DEF Message, Messages
    <2>3. queue' \subseteq Messages
      BY <1>4, <2>2 DEF Enqueue, AttemptFails, Accept, TypeOK
    <2>4. rec[k].attempts < MaxAttempts => rec[k].attempts + 1 \in 0..MaxAttempts
      BY <1>1, MaxAttemptsAssumption
    <2>5. CASE Enqueue(k)
      <3>1. rec' \in [Reqs \X Passes -> Recorders]
        BY <1>1, <2>1, <2>4, <2>5 DEF Enqueue, TypeOK
      <3>2. QED BY <2>3, <2>5, <3>1 DEF Enqueue, TypeOK
    <2>6. CASE AttemptFails(k)
      <3>1. rec' \in [Reqs \X Passes -> Recorders]
        <4>1. CASE rec' = [rec EXCEPT ![k].attempts = @ + 1, ![k].copies = @ + 1]
          BY <1>1, <2>1, <2>4, <2>6, <4>1 DEF AttemptFails, TypeOK
        <4>2. CASE rec' = [rec EXCEPT ![k].attempts = @ + 1]
          BY <1>1, <2>4, <2>6, <4>2 DEF AttemptFails, TypeOK
        <4>3. QED BY <2>6, <4>1, <4>2 DEF AttemptFails
      <3>2. QED BY <2>3, <2>6, <3>1 DEF AttemptFails, TypeOK
    <2>7. QED BY <1>4, <2>5, <2>6
  <1>5. CASE EnqueueFails(k) \/ SkipRecording(k) \/ ReadHeaders(k)
    BY SMTT(30), <1>1, <1>5 DEF EnqueueFails, SkipRecording, ReadHeaders, TypeOK
  <1>6. QED BY <1>2, <1>3, <1>4, <1>5 DEF Record

(* What one step of recorder k does: to the recorder, and to the queue.     *)
Keeps(k) == /\ rec'[k].body = rec[k].body /\ rec'[k].files = rec[k].files
            /\ rec'[k].wildcard = rec[k].wildcard

Prepares(k) ==
  /\ Keeps(k) /\ queue' = queue
  /\ rec'[k].copies = rec[k].copies /\ rec'[k].attempts = rec[k].attempts
  /\ \/ rec[k].phase = "launched" /\ rec'[k].phase \in {"headers", "dropped"}
     \/ rec[k].phase = "headers" /\ rec'[k].phase = "storing"

Builds(k) ==
  /\ queue' = queue
  /\ rec[k].phase = "storing" /\ rec'[k].phase = "sending"
  /\ rec'[k].copies = rec[k].copies /\ rec'[k].attempts = 0
  /\ rec'[k].wildcard = rec[k].wildcard
  /\ rec'[k].files \in Uploads(k)
  /\ rec'[k].body = IF rec[k].wildcard \/ rec'[k].files # {} THEN {}
                    ELSE rec[k].body

Sends(k) ==
  /\ Keeps(k) /\ rec'[k].target = rec[k].target
  /\ rec[k].phase = "sending"
  /\ rec'[k].phase \in {"sending", "sent", "dropped"}
  /\ \/ /\ rec[k].attempts < MaxAttempts /\ rec'[k].phase # "dropped"
        /\ rec'[k].attempts = rec[k].attempts + 1
        /\ rec'[k].copies = rec[k].copies + 1
        /\ Accept(k)
     \/ /\ rec[k].attempts < MaxAttempts /\ rec'[k].phase = "sending"
        /\ rec'[k].attempts = rec[k].attempts + 1
        /\ rec'[k].copies = rec[k].copies
        /\ queue' = queue
     \/ /\ rec'[k].phase = "dropped"
        /\ rec'[k].attempts = rec[k].attempts
        /\ rec'[k].copies = rec[k].copies
        /\ queue' = queue

LEMMA RecorderStep ==
  ASSUME TypeOK, NEW k \in Reqs \X Passes, Record(k)
  PROVE  /\ UNCHANGED <<input, pc, req, link, out, tally, up>>
         /\ \A j \in Reqs \X Passes : j # k => rec'[j] = rec[j]
         /\ Prepares(k) \/ Builds(k) \/ Sends(k)
  <1>1. UNCHANGED <<input, pc, req, link, out, tally, up>>
    BY DEF Record, SkipRecording, ReadTarget, ReadHeaders, StoreFiles, Enqueue,
           AttemptFails, EnqueueFails
  <1>2. rec \in [Reqs \X Passes -> Recorders] /\ rec[k] \in Recorders
    BY DEF TypeOK
  <1>3. \A j \in Reqs \X Passes : j # k => rec'[j] = rec[j]
    BY <1>2 DEF Record, SkipRecording, ReadTarget, ReadHeaders, StoreFiles, Enqueue,
                AttemptFails, EnqueueFails
  <1>4. CASE SkipRecording(k)
    BY <1>2, <1>4 DEF SkipRecording, Prepares, Keeps, Recorders
  <1>5. CASE ReadTarget(k)
    BY <1>2, <1>5 DEF ReadTarget, Prepares, Keeps, Recorders
  <1>6. CASE ReadHeaders(k)
    BY <1>2, <1>6 DEF ReadHeaders, Prepares, Keeps, Recorders
  <1>7. CASE StoreFiles(k)
    <2>1. PICK stored \in Uploads(k) :
            rec'[k] = [rec[k] EXCEPT !.phase = "sending",
                                     !.body = IF rec[k].wildcard \/ stored # {}
                                              THEN {} ELSE @,
                                     !.files = stored,
                                     !.attempts = 0]
      BY <1>2, <1>7 DEF StoreFiles
    <2>2. /\ rec'[k].phase = "sending" /\ rec'[k].files = stored
          /\ rec'[k].wildcard = rec[k].wildcard
          /\ rec'[k].copies = rec[k].copies /\ rec'[k].attempts = 0
          /\ rec'[k].body = IF rec[k].wildcard \/ stored # {} THEN {}
                            ELSE rec[k].body
      BY <1>2, <2>1 DEF Recorders
    <2>3. rec[k].phase = "storing" /\ queue' = queue
      BY <1>7 DEF StoreFiles
    <2>4. QED BY <1>1, <1>3, <2>1, <2>2, <2>3 DEF Builds
  <1>8. CASE Enqueue(k)
    BY <1>2, <1>8 DEF Enqueue, Sends, Keeps, Recorders
  <1>9. CASE AttemptFails(k)
    <2>1. CASE /\ Accept(k)
               /\ rec' = [rec EXCEPT ![k].attempts = @ + 1, ![k].copies = @ + 1]
      BY <1>2, <1>9, <2>1 DEF AttemptFails, Sends, Keeps, Recorders
    <2>2. CASE queue' = queue /\ rec' = [rec EXCEPT ![k].attempts = @ + 1]
      BY <1>2, <1>9, <2>2 DEF AttemptFails, Sends, Keeps, Recorders
    <2>3. QED BY <1>9, <2>1, <2>2 DEF AttemptFails
  <1>10. CASE EnqueueFails(k)
    BY <1>2, <1>10 DEF EnqueueFails, Sends, Keeps, Recorders
  <1>11. QED
    BY <1>1, <1>3, <1>4, <1>5, <1>6, <1>7, <1>8, <1>9, <1>10 DEF Record

LEMMA TypeStep ==
  ASSUME TypeOK, [Next]_vars
  PROVE  TypeOK'
  <1>1. ASSUME NEW r \in Reqs, Finish(r) PROVE TypeOK'
    <2>1. Bare(200) \in Replies
      BY BareTyped
    <2>2. (IF out[r].reply = NoReply THEN Written(out[r], Bare(200)) ELSE out[r])
            \in OutStates
      BY <2>1, WrittenTyped DEF TypeOK
    <2>3. \A o \in OutStates : [o EXCEPT !.flushed = TRUE] \in OutStates
      BY DEF OutStates
    <2>4. QED BY <1>1, <2>2, <2>3 DEF Finish, TypeOK
  <1>2. ASSUME NEW r \in Reqs, HeaderRace(r) PROVE TypeOK'
    BY <1>2 DEF HeaderRace, TypeOK
  <1>3. ASSUME NEW r \in Reqs, ClientSendsRest(r) PROVE TypeOK'
    BY <1>3 DEF ClientSendsRest, TypeOK, LinkStates
  <1>4. ASSUME NEW r \in Reqs, ClientLeaves(r) PROVE TypeOK'
    BY <1>4 DEF ClientLeaves, TypeOK, LinkStates
  <1>5. CASE UNCHANGED vars
    BY <1>5 DEF vars, TypeOK
  <1>6. QED
    BY <1>1, <1>2, <1>3, <1>4, <1>5, TypeProcess, TypeRecord
    DEF Next, Quiet

(* Every variable keeps its type: the set of queued messages, the response  *)
(* writer and both flags of the ICAPRequest struct stay well formed.        *)
THEOREM TypeCorrect == Spec => []TypeOK
  <1>1. TypeOK /\ [Next]_vars => TypeOK'
    BY TypeStep
  <1>2. QED BY TypeInit, <1>1, PTL DEF Spec

-----------------------------------------------------------------------------
(* The inductive invariant.  A step of one transaction leaves the state of  *)
(* every other one alone, so each step is examined at its own transaction.  *)

Untouched(s) ==
  /\ pc'[s] = pc[s] /\ req'[s] = req[s] /\ out'[s] = out[s]
  /\ tally'[s] = tally[s] /\ link'[s].cut = link[s].cut
  /\ \A p \in Passes : rec'[<<s, p>>] = rec[<<s, p>>]

Inv(r) == PolicyInv(r) /\ BodyInv(r) /\ ReplyInv(r)

LEMMA UntouchedKeeps ==
  ASSUME NEW s \in Reqs, Inv(s), Untouched(s), input' = input
  PROVE  Inv(s)'
  <1>1. PolicyInv(s)'
    BY DEF Inv, Untouched, PolicyInv, NoRecorder, Shadow
  <1>2. BodyInv(s)'
    BY DEF Inv, Untouched, BodyInv, Sound, Shadow, Full
  <1>3. ReplyInv(s)'
    BY DEF Inv, Untouched, ReplyInv, Shadow, ReplyFor, NoModification, Reqmod
  <1>4. QED BY <1>1, <1>2, <1>3 DEF Inv

(* A step of r leaves every other transaction alone. *)
LEMMA ProcessFrame ==
  ASSUME TypeOK, NEW r \in Reqs, Process(r), NEW s \in Reqs, s # r
  PROVE  Untouched(s)
  <1> USE DEF Untouched, Goto, WriteHeader, TypeOK
  <1>1. CASE Refuse(r)       BY <1>1 DEF Refuse
  <1>2. CASE ShadowAnswer(r) BY <1>2 DEF ShadowAnswer
  <1>3. CASE Admit(r)        BY <1>3 DEF Admit
  <1>4. CASE OptionsMode(r)  BY <1>4 DEF OptionsMode
  <1>5. CASE ReadBody(r)     BY <1>5 DEF ReadBody
  <1>6. CASE FirstPass(r)    BY <1>6 DEF FirstPass, ProcessRequest, Proceed
  <1>7. CASE FlushPass(r)    BY <1>7 DEF FlushPass, ProcessRequest, Proceed
  <1>8. CASE SkipPolicy(r)   BY <1>8 DEF SkipPolicy
  <1>9. CASE ScanPartial(r)  BY <1>9 DEF ScanPartial
  <1>10. CASE Scan(r)        BY <1>10 DEF Scan
  <1>11. CASE ScanPanics(r)  BY <1>11 DEF ScanPanics
  <1>12. CASE Continue(r)    BY <1>12 DEF Continue
  <1>13. CASE ReadRest(r)    BY <1>13 DEF ReadRest
  <1>14. CASE Reply(r)       BY <1>14 DEF Reply
  <1>15. QED
    BY <1>1, <1>2, <1>3, <1>4, <1>5, <1>6, <1>7, <1>8, <1>9, <1>10, <1>11,
       <1>12, <1>13, <1>14 DEF Process

(* The first header written is the one the client gets. *)
LEMMA FirstHeader ==
  ASSUME TypeOK, NEW r \in Reqs, ReplyInv(r), out[r].calls = 0,
         NEW reply \in Replies, WriteHeader(r, reply)
  PROVE  /\ out'[r].calls = 1 /\ out'[r].reply = reply /\ reply # NoReply
         /\ out'[r].flushed = out[r].flushed
         /\ out'[r].continued = out[r].continued
  <1>1. out[r].reply = NoReply
    BY DEF ReplyInv
  <1>2. out'[r] = Written(out[r], reply)
    BY DEF WriteHeader, TypeOK
  <1>3. reply # NoReply
    BY DEF Replies, NoReply
  <1>4. QED BY <1>1, <1>2, <1>3 DEF Written

(* The same for a bare status line, in the form the invariant needs. *)
LEMMA BareHeader ==
  ASSUME TypeOK, NEW r \in Reqs, ReplyInv(r), ~Shadow(r), input' = input,
         req' = req, pc[r] \in {"new", "read"}, NEW code \in {200, 204, 400, 404, 405, 408, 500},
         WriteHeader(r, Bare(code)), Goto(r, "end")
  PROVE  ReplyInv(r)' /\ pc'[r] = "end"
  <1>1. out[r].calls = 0
    BY DEF ReplyInv
  <1>2. out'[r].calls = 1 /\ out'[r].reply = Bare(code) /\ Bare(code) # NoReply
        /\ Bare(code).form = "none"
    BY <1>1, FirstHeader, BareTyped
  <1>3. pc'[r] = "end"
    BY DEF Goto, TypeOK
  <1>4. req'[r].outcome = "none"
    BY DEF ReplyInv
  <1>5. QED BY <1>2, <1>3, <1>4 DEF ReplyInv, Shadow

(* A step that only moves pc, away from the states the invariant names. *)
LEMMA OnlyMoves ==
  ASSUME TypeOK, NEW r \in Reqs, Inv(r), UNCHANGED <<input, req, tally, rec, link>>
  PROVE  /\ NoRecorder(r)' = NoRecorder(r)
         /\ Shadow(r)' = Shadow(r) /\ Sound(r)' = Sound(r) /\ Full(r)' = Full(r)
  BY DEF NoRecorder, Shadow, Sound, Full

LEMMA RefuseInv ==
  ASSUME TypeOK, NEW r \in Reqs, Inv(r), Refuse(r)
  PROVE  Inv(r)'
  <1>1. ~Shadow(r)
    BY DEF Refuse, Shadow
  <1>2. ReplyInv(r)' /\ pc'[r] = "end"
    BY <1>1, BareHeader DEF Refuse, Inv
  <1>3. pc[r] = "new" /\ UNCHANGED <<input, req, tally, rec, link>>
    BY DEF Refuse
  <1>4. PolicyInv(r)'
    BY <1>2, <1>3, OnlyMoves DEF Inv, PolicyInv
  <1>5. BodyInv(r)'
    BY <1>2, <1>3, OnlyMoves DEF Inv, BodyInv, ReplyInv
  <1>6. QED BY <1>2, <1>4, <1>5 DEF Inv

LEMMA ShadowAnswerInv ==
  ASSUME TypeOK, NEW r \in Reqs, Inv(r), ShadowAnswer(r)
  PROVE  Inv(r)'
  <1>1. pc[r] = "new" /\ Shadow(r) /\ UNCHANGED <<input, req, tally, rec, link>>
    BY DEF ShadowAnswer
  <1>2. pc'[r] \in {"read", "drained"}
    BY DEF ShadowAnswer, Goto, TypeOK
  <1>3. PolicyInv(r)'
    BY <1>1, <1>2, OnlyMoves DEF Inv, PolicyInv
  <1>4. BodyInv(r)'
    BY <1>1, <1>2, OnlyMoves DEF Inv, BodyInv
  <1>5. PICK reply \in Replies : WriteHeader(r, reply)
    <2>1. \A b \in Readable(r) :
            [status |-> 200, form |-> "original", body |-> b] \in Replies
      BY ReadableTyped DEF Replies
    <2>2. QED BY ZenonT(60), <2>1, BareTyped DEF ShadowAnswer
  <1>6. out'[r].calls # 0 /\ out'[r].reply # NoReply
    <2>1. out'[r] = Written(out[r], reply) /\ out[r].calls \in Nat
      BY <1>5 DEF WriteHeader, TypeOK, OutStates
    <2>2. reply # NoReply
      BY DEF Replies, NoReply
    <2>3. QED BY <2>1, <2>2 DEF Written
  <1>7. ReplyInv(r)'
    BY <1>1, <1>2, <1>6, OnlyMoves DEF Inv, ReplyInv
  <1>8. QED BY <1>3, <1>4, <1>7 DEF Inv

(* Admit, ScanPartial, Continue: the goroutine moves on. *)
LEMMA MoveInv ==
  ASSUME TypeOK, NEW r \in Reqs, Inv(r),
         Admit(r) \/ ScanPartial(r) \/ Continue(r)
  PROVE  Inv(r)'
  <1> USE DEF Inv
  <1>1. UNCHANGED <<input, req, tally, rec, link>>
    BY DEF Admit, ScanPartial, Continue
  <1>2. /\ out'[r].calls = out[r].calls /\ out'[r].reply = out[r].reply
        /\ out'[r].flushed = out[r].flushed
    BY DEF Admit, ScanPartial, Continue, TypeOK, OutStates
  <1>3. CASE Admit(r)
    <2>1. pc[r] = "new" /\ pc'[r] = "read" /\ ~Shadow(r)
      BY <1>3 DEF Admit, Goto, TypeOK, Shadow
    <2>2. PolicyInv(r)'  BY <1>1, <2>1, OnlyMoves DEF PolicyInv
    <2>3. BodyInv(r)'    BY <1>1, <2>1, OnlyMoves DEF BodyInv
    <2>4. ReplyInv(r)'   BY <1>1, <1>2, <2>1, OnlyMoves DEF ReplyInv
    <2>5. QED BY <2>2, <2>3, <2>4
  <1>4. CASE ScanPartial(r)
    <2>1. pc[r] = "scan" /\ req[r].partial
          /\ pc'[r] = IF Shadow(r) THEN "end" ELSE "continue"
      BY <1>4 DEF ScanPartial, Goto, TypeOK
    <2>2. PolicyInv(r)'  BY <1>1, <2>1, OnlyMoves DEF PolicyInv
    <2>3. BodyInv(r)'    BY <1>1, <2>1, OnlyMoves DEF BodyInv, ReplyInv
    <2>4. ReplyInv(r)'   BY <1>1, <1>2, <2>1, OnlyMoves DEF ReplyInv
    <2>5. QED BY <2>2, <2>3, <2>4
  <1>5. CASE Continue(r)
    <2>1. pc[r] = "continue" /\ pc'[r] = "rest"
      BY <1>5 DEF Continue, Goto, TypeOK
    <2>2. PolicyInv(r)'  BY <1>1, <2>1, OnlyMoves DEF PolicyInv
    <2>3. BodyInv(r)'    BY <1>1, <2>1, OnlyMoves DEF BodyInv
    <2>4. ReplyInv(r)'   BY <1>1, <1>2, <2>1, OnlyMoves DEF ReplyInv
    <2>5. QED BY <2>2, <2>3, <2>4
  <1>6. QED BY <1>3, <1>4, <1>5

LEMMA OptionsModeInv ==
  ASSUME TypeOK, NEW r \in Reqs, Inv(r), OptionsMode(r)
  PROVE  Inv(r)'
  <1>1. ~Shadow(r) /\ pc[r] = "read"
    BY DEF OptionsMode, Shadow
  <1>2. ReplyInv(r)' /\ pc'[r] = "end"
    BY <1>1, BareHeader DEF OptionsMode, Inv
  <1>3. UNCHANGED <<input, req, tally, rec, link>>
    BY DEF OptionsMode
  <1>4. PolicyInv(r)'
    BY <1>1, <1>2, <1>3, OnlyMoves DEF Inv, PolicyInv
  <1>5. BodyInv(r)'
    BY <1>1, <1>2, <1>3, OnlyMoves DEF Inv, BodyInv, ReplyInv
  <1>6. QED BY <1>2, <1>4, <1>5 DEF Inv

LEMMA ReadBodyInv ==
  ASSUME TypeOK, NEW r \in Reqs, Inv(r), ReadBody(r)
  PROVE  Inv(r)'
  <1> USE DEF Inv
  <1>1. PICK b \in Obtainable(r) :
          /\ req' = [req EXCEPT ![r].body = b, ![r].orgBody = b,
                                ![r].partial = Partial(r)]
          /\ link' = [link EXCEPT ![r].cut = b # Preview(r)]
    BY DEF ReadBody
  <1>2. /\ pc[r] \in {"read", "drained"} /\ pc'[r] = "policy"
        /\ UNCHANGED <<input, out, tally, rec>>
    BY DEF ReadBody, Goto, TypeOK
  <1>3. /\ req'[r].body = b /\ req'[r].orgBody = b
        /\ req'[r].partial = Partial(r)
        /\ req'[r].applied = req[r].applied /\ req'[r].pending = req[r].pending
        /\ req'[r].outcome = req[r].outcome
        /\ link'[r].cut = (b # Preview(r))
    BY <1>1 DEF TypeOK, ReqStates, LinkStates
  <1>4. ~req[r].applied /\ ~req[r].pending /\ NoRecorder(r)
    BY <1>2 DEF PolicyInv
  <1>5. /\ NoRecorder(r)' = NoRecorder(r) /\ Shadow(r)' = Shadow(r)
        /\ Full(r)' = Full(r)
    BY <1>2 DEF NoRecorder, Shadow, Full
  <1>6. PolicyInv(r)'
    BY <1>2, <1>3, <1>4, <1>5 DEF PolicyInv
  <1>7. BodyInv(r)'
    <2>1. Sound(r)' => b = Preview(r)
      BY <1>3 DEF Sound
    <2>2. Sound(r)' /\ ~req'[r].partial => b = Full(r)
      BY <2>1, <1>3, InputFacts
    <2>3. \A p \in Passes : rec'[<<r, p>>].phase = "idle"
      BY <1>2, <1>4 DEF NoRecorder
    <2>4. QED BY <2>2, <2>3, <1>2, <1>3, <1>5 DEF BodyInv
  <1>8. ReplyInv(r)'
    BY <1>2, <1>3, <1>5 DEF ReplyInv
  <1>9. QED BY <1>6, <1>7, <1>8

(* What one call of ProcessRequest does to the recorders and to the tally, *)
(* when nothing of the transaction was recorded before.                    *)
LEMMA ProcessRequestEffect ==
  ASSUME TypeOK, NEW r \in Reqs, NEW v \in Verdicts, NEW pass \in Passes,
         NEW partial \in BOOLEAN, NoRecorder(r), tally[r].observed = 0,
         ~tally[r].rejected, ProcessRequest(r, v, pass, partial)
  PROVE  /\ tally'[r].observed <= 1
         /\ tally'[r].observed # 0 => v = "observe"
         /\ tally'[r].rejected <=> v = "reject"
         /\ Recordable(v) =>
              tally'[r].observed = 0 /\ ~tally'[r].rejected
         /\ ~Recordable(v) \/ partial => NoRecorder(r)'
         /\ \A q \in Passes \ {pass} : rec'[<<r, q>>].phase = "idle"
         /\ \A p \in Passes :
              rec'[<<r, p>>].phase = "idle"
              \/ /\ rec'[<<r, p>>].phase = "launched"
                 /\ rec'[<<r, p>>].body = req[r].body
  <1>1. /\ tally'[r].observed = IF v = "observe" THEN 1 ELSE 0
        /\ tally'[r].rejected <=> v = "reject"
    BY DEF ProcessRequest, TypeOK, TallyStates
  <1>2. CASE Recordable(v) /\ ~partial
    <2>1. \A p \in Passes : rec'[<<r, p>>] =
            IF p = pass THEN Launched(r, v) ELSE rec[<<r, p>>]
      BY <1>2 DEF ProcessRequest, TypeOK
    <2>2. QED BY <1>1, <1>2, <2>1 DEF Launched, NoRecorder, Recordable
  <1>3. CASE ~(Recordable(v) /\ ~partial)
    <2>1. rec' = rec
      BY <1>3 DEF ProcessRequest
    <2>2. NoRecorder(r)' /\ \A p \in Passes : rec'[<<r, p>>].phase = "idle"
      BY <2>1 DEF NoRecorder
    <2>3. /\ tally'[r].observed <= 1
          /\ tally'[r].observed # 0 => v = "observe"
          /\ tally'[r].rejected <=> v = "reject"
      BY <1>1
    <2>4. Recordable(v) => v # "observe" /\ v # "reject"
      BY DEF Recordable
    <2>5. Recordable(v) => tally'[r].observed = 0 /\ ~tally'[r].rejected
      BY <1>1, <2>4
    <2>6. QED BY <2>2, <2>3, <2>5
  <1>4. QED BY <1>2, <1>3

(* Where a pass leads. *)
LEMMA ProceedEffect ==
  ASSUME TypeOK, NEW r \in Reqs, Inv(r), NEW v \in Verdicts,
         pc[r] = "policy", Proceed(r, v)
  PROVE  /\ pc'[r] = IF v = "reject" THEN "end" ELSE "scan"
         /\ out'[r].calls = 0 <=> out'[r].reply = NoReply
         /\ ~Shadow(r) => out'[r].calls = (IF v = "reject" THEN 1 ELSE 0)
         /\ ~Shadow(r) => ~out'[r].flushed
         /\ ~Shadow(r) => out'[r].reply.form = "none"
  <1> USE DEF Inv
  <1>1. pc'[r] = IF v = "reject" THEN "end" ELSE "scan"
    BY DEF Proceed, Goto, TypeOK
  <1>2. CASE v = "reject"
    <2>1. out'[r] = Written(out[r], Bare(400)) /\ out[r].calls \in Nat
      BY <1>2 DEF Proceed, WriteHeader, TypeOK, OutStates
    <2>2. QED BY <1>1, <1>2, <2>1, BareTyped DEF Written, ReplyInv, NoReply
  <1>3. CASE v # "reject"
    <2>1. out' = out
      BY <1>3 DEF Proceed
    <2>2. QED BY <1>1, <1>3, <2>1 DEF ReplyInv, NoReply
  <1>4. QED BY <1>2, <1>3

(* Both passes of the business logic. *)
LEMMA PassInv ==
  ASSUME TypeOK, NEW r \in Reqs, Inv(r), FirstPass(r) \/ FlushPass(r)
  PROVE  Inv(r)'
  <1> USE DEF Inv
  <1>1. PICK v \in Verdicts, pass \in Passes, partial \in BOOLEAN :
          /\ partial = req[r].partial
          /\ ProcessRequest(r, v, pass, partial)
          /\ Proceed(r, v)
          /\ req'[r].applied
          /\ req'[r].pending = (Recordable(v) /\ partial)
          /\ req'[r].partial = req[r].partial
          /\ req'[r].body = req[r].body /\ req'[r].orgBody = req[r].orgBody
          /\ req'[r].outcome = req[r].outcome
    <2>1. req[r].partial \in BOOLEAN /\ "first" \in Passes /\ "flush" \in Passes
      BY DEF TypeOK, ReqStates, Passes
    <2>2. CASE FirstPass(r)
      <3>1. PICK v \in Verdicts :
              /\ ProcessRequest(r, v, "first", req[r].partial)
              /\ req' = [req EXCEPT ![r].applied = TRUE,
                               ![r].pending = Recordable(v) /\ req[r].partial]
              /\ Proceed(r, v)
        BY <2>2 DEF FirstPass
      <3>2. /\ req'[r].applied
            /\ req'[r].pending = (Recordable(v) /\ req[r].partial)
            /\ req'[r].partial = req[r].partial
            /\ req'[r].body = req[r].body /\ req'[r].orgBody = req[r].orgBody
            /\ req'[r].outcome = req[r].outcome
        BY <3>1 DEF TypeOK, ReqStates
      <3>3. QED BY <2>1, <3>1, <3>2
    <2>3. CASE FlushPass(r)
      <3>1. PICK v \in Verdicts :
              /\ ProcessRequest(r, v, "flush", FALSE)
              /\ req' = [req EXCEPT ![r].pending = FALSE]
              /\ Proceed(r, v)
        BY <2>3 DEF FlushPass
      <3>2. req[r].applied /\ ~req[r].partial /\ req[r].partial = FALSE
        BY <2>1, <2>3 DEF FlushPass
      <3>3. /\ req'[r].applied /\ req'[r].pending = FALSE
            /\ req'[r].partial = req[r].partial
            /\ req'[r].body = req[r].body /\ req'[r].orgBody = req[r].orgBody
            /\ req'[r].outcome = req[r].outcome
        BY <3>1, <3>2 DEF TypeOK, ReqStates
      <3>4. FALSE \in BOOLEAN /\ req'[r].pending = (Recordable(v) /\ FALSE)
        BY <3>3
      <3>5. QED BY <2>1, <3>1, <3>2, <3>3, <3>4
    <2>4. QED BY <2>2, <2>3
  <1>2. /\ pc[r] = "policy"
        /\ ~req[r].applied \/ req[r].pending
        /\ UNCHANGED <<input, link>>
    BY DEF FirstPass, FlushPass
  <1>3. NoRecorder(r) /\ tally[r].observed = 0 /\ ~tally[r].rejected
    BY <1>2 DEF PolicyInv
  <1>4. Shadow(r)' = Shadow(r) /\ Sound(r)' = Sound(r) /\ Full(r)' = Full(r)
    BY <1>2 DEF Shadow, Sound, Full
  <1>5. PolicyInv(r)'
    <2>1. /\ tally'[r].observed <= 1
          /\ tally'[r].observed # 0 => v = "observe"
          /\ tally'[r].rejected <=> v = "reject"
          /\ Recordable(v) => tally'[r].observed = 0 /\ ~tally'[r].rejected
          /\ ~Recordable(v) \/ partial => NoRecorder(r)'
          /\ \A q \in Passes \ {pass} : rec'[<<r, q>>].phase = "idle"
      BY <1>1, <1>3, ProcessRequestEffect
    <2>2. pc'[r] = IF v = "reject" THEN "end" ELSE "scan"
      BY <1>1, <1>2, ProceedEffect
    <2>3. Recordable("reject") = FALSE /\ Recordable("observe") = FALSE
      BY DEF Recordable
    <2>4. QED BY <1>1, <2>1, <2>2, <2>3 DEF PolicyInv
  <1>6. BodyInv(r)'
    <2>1. \A p \in Passes :
            rec'[<<r, p>>].phase = "idle"
            \/ /\ rec'[<<r, p>>].phase = "launched"
               /\ rec'[<<r, p>>].body = req[r].body
      BY <1>1, <1>3, ProcessRequestEffect
    <2>2. partial => \A p \in Passes : rec'[<<r, p>>].phase = "idle"
      BY <1>1, <1>3, ProcessRequestEffect DEF NoRecorder
    <2>3. Sound(r) /\ ~req[r].partial =>
            req[r].body = Full(r) /\ req[r].orgBody = Full(r)
      BY <1>2 DEF BodyInv
    <2>4. req'[r].outcome = "none"
      BY <1>1, <1>2 DEF ReplyInv
    <2>5. Sound(r) /\ (\E p \in Passes : rec'[<<r, p>>].phase # "idle")
            => req[r].body = Full(r)
      BY <1>1, <2>2, <2>3
    <2>6. Sound(r) =>
            \A p \in Passes : \/ rec'[<<r, p>>].phase = "idle"
                              \/ /\ rec'[<<r, p>>].phase = "launched"
                                 /\ rec'[<<r, p>>].body = Full(r)
      BY <2>1, <2>5
    <2>7. Sound(r) /\ ~req'[r].partial =>
            req'[r].body = Full(r) /\ req'[r].orgBody = Full(r)
      BY <1>1, <2>3
    <2>8. QED BY <1>4, <2>4, <2>6, <2>7 DEF BodyInv
  <1>7. ReplyInv(r)'
    <2>1. /\ pc'[r] = IF v = "reject" THEN "end" ELSE "scan"
          /\ out'[r].calls = 0 <=> out'[r].reply = NoReply
          /\ ~Shadow(r) => out'[r].calls = (IF v = "reject" THEN 1 ELSE 0)
          /\ ~Shadow(r) => ~out'[r].flushed
          /\ ~Shadow(r) => out'[r].reply.form = "none"
      BY <1>1, <1>2, ProceedEffect
    <2>2. req'[r].outcome = "none"
      BY <1>1, <1>2 DEF ReplyInv
    <2>3. QED BY <1>4, <2>1, <2>2 DEF ReplyInv
  <1>8. QED BY <1>5, <1>6, <1>7

LEMMA SkipPolicyInv ==
  ASSUME TypeOK, NEW r \in Reqs, Inv(r), SkipPolicy(r)
  PROVE  Inv(r)'
  <1> USE DEF Inv
  <1>1. /\ pc[r] = "policy" /\ pc'[r] = "scan"
        /\ UNCHANGED <<input, link, out, tally, rec>>
        /\ req[r].pending => ~req[r].applied \/ req[r].partial
    BY DEF SkipPolicy, Goto, TypeOK
  <1>2. /\ req'[r].applied /\ req'[r].pending = req[r].pending
        /\ req'[r].partial = req[r].partial
        /\ req'[r].body = req[r].body /\ req'[r].orgBody = req[r].orgBody
        /\ req'[r].outcome = req[r].outcome
    BY DEF SkipPolicy, TypeOK, ReqStates
  <1>3. /\ NoRecorder(r)' = NoRecorder(r) /\ Shadow(r)' = Shadow(r)
        /\ Full(r)' = Full(r) /\ Sound(r)' = Sound(r)
    BY <1>1 DEF NoRecorder, Shadow, Full, Sound
  <1>4. PolicyInv(r)'  BY <1>1, <1>2, <1>3 DEF PolicyInv
  <1>5. BodyInv(r)'    BY <1>1, <1>2, <1>3 DEF BodyInv
  <1>6. ReplyInv(r)'   BY <1>1, <1>2, <1>3 DEF ReplyInv
  <1>7. QED BY <1>4, <1>5, <1>6

LEMMA ScanInv ==
  ASSUME TypeOK, NEW r \in Reqs, Inv(r), Scan(r) \/ ScanPanics(r)
  PROVE  Inv(r)'
  <1> USE DEF Inv
  <1>1. /\ pc[r] = "scan" /\ ~req[r].partial
        /\ pc'[r] \in {"end", "reply", "panic"}
        /\ pc'[r] \in {"end", "reply"} => pc'[r] = IF Shadow(r) THEN "end" ELSE "reply"
        /\ UNCHANGED <<input, link, out, tally, rec>>
    BY DEF Scan, ScanPanics, Goto, TypeOK
  <1>2. /\ req'[r].applied = req[r].applied /\ req'[r].pending = req[r].pending
        /\ req'[r].partial = req[r].partial
        /\ req'[r].body = req[r].body /\ req'[r].orgBody = req[r].orgBody
    BY ZenonT(60) DEF Scan, ScanPanics, TypeOK, ReqStates
  <1>3. /\ NoRecorder(r)' = NoRecorder(r) /\ Shadow(r)' = Shadow(r)
        /\ Full(r)' = Full(r) /\ Sound(r)' = Sound(r)
    BY <1>1 DEF NoRecorder, Shadow, Full, Sound
  <1>4. PolicyInv(r)'  BY <1>1, <1>2, <1>3 DEF PolicyInv
  <1>5. BodyInv(r)'    BY <1>1, <1>2, <1>3 DEF BodyInv
  <1>6. ReplyInv(r)'   BY <1>1, <1>2, <1>3 DEF ReplyInv
  <1>7. QED BY <1>4, <1>5, <1>6

LEMMA ReadRestInv ==
  ASSUME TypeOK, NEW r \in Reqs, Inv(r), ReadRest(r)
  PROVE  Inv(r)'
  <1> USE DEF Inv
  <1>1. PICK b \in Rest(r) :
          /\ req' = [req EXCEPT ![r].body = b, ![r].orgBody = b,
                                ![r].partial = FALSE]
          /\ link' = [link EXCEPT ![r].cut = @ \/ (link[r].gone /\ b # Full(r))]
    BY DEF ReadRest
  <1>2. /\ pc[r] = "rest" /\ pc'[r] = "policy"
        /\ UNCHANGED <<input, out, tally, rec>>
    BY DEF ReadRest, Goto, TypeOK
  <1>3. /\ req'[r].body = b /\ req'[r].orgBody = b /\ ~req'[r].partial
        /\ req'[r].applied = req[r].applied /\ req'[r].pending = req[r].pending
        /\ req'[r].outcome = req[r].outcome
    BY <1>1 DEF TypeOK, ReqStates
  <1>4. link'[r].cut <=> link[r].cut \/ (link[r].gone /\ b # Full(r))
    BY <1>1 DEF TypeOK, LinkStates
  <1>5. NoRecorder(r)
    BY <1>2 DEF PolicyInv
  <1>6. /\ NoRecorder(r)' = NoRecorder(r) /\ Shadow(r)' = Shadow(r)
        /\ Full(r)' = Full(r)
    BY <1>2 DEF NoRecorder, Shadow, Full
  <1>7. PolicyInv(r)'
    BY <1>2, <1>3, <1>6 DEF PolicyInv
  <1>8. BodyInv(r)'
    <2>1. Sound(r)' => b = Full(r)
      BY <1>2, <1>4 DEF Sound, Rest
    <2>2. \A p \in Passes : rec'[<<r, p>>].phase = "idle"
      BY <1>2, <1>5 DEF NoRecorder
    <2>3. QED BY <2>1, <2>2, <1>3, <1>6 DEF BodyInv
  <1>9. ReplyInv(r)'
    BY <1>2, <1>3, <1>6 DEF ReplyInv
  <1>10. QED BY <1>7, <1>8, <1>9

LEMMA ReplyStepInv ==
  ASSUME TypeOK, NEW r \in Reqs, Inv(r), Reply(r)
  PROVE  Inv(r)'
  <1> USE DEF Inv
  <1>1. /\ pc[r] = "reply" /\ pc'[r] = "end"
        /\ UNCHANGED <<input, req, link, tally, rec>>
    BY DEF Reply, Goto, TypeOK
  <1>2. ~Shadow(r) /\ out[r].calls = 0 /\ ~req[r].partial
    BY <1>1 DEF ReplyInv
  <1>3. /\ out'[r].calls = 1 /\ out'[r].reply = ReplyFor(r)
        /\ ReplyFor(r) # NoReply
    BY <1>2, FirstHeader, ReplyForTyped DEF Reply
  <1>4. PolicyInv(r)'  BY <1>1, OnlyMoves DEF PolicyInv
  <1>5. BodyInv(r)'    BY <1>1, <1>2, OnlyMoves DEF BodyInv
  <1>6. ReplyFor(r)' = ReplyFor(r)
    BY <1>1 DEF ReplyFor, NoModification, Reqmod
  <1>7. ReplyInv(r)'
    BY <1>1, <1>2, <1>3, <1>6, OnlyMoves DEF ReplyInv
  <1>8. QED BY <1>4, <1>5, <1>7

(* Every step of the goroutine that processes r keeps r's invariant. *)
LEMMA ProcessInv ==
  ASSUME TypeOK, NEW r \in Reqs, Inv(r), Process(r)
  PROVE  Inv(r)'
  BY RefuseInv, ShadowAnswerInv, MoveInv, OptionsModeInv, ReadBodyInv, PassInv,
     SkipPolicyInv, ScanInv, ReadRestInv, ReplyStepInv
  DEF Process

(* A recorder that has started is left alone by the goroutine it serves. *)
LEMMA ProcessRecorders ==
  ASSUME TypeOK, NEW r \in Reqs, Inv(r), Process(r)
  PROVE  /\ queue' = queue /\ input' = input
         /\ \A k \in Reqs \X Passes :
              /\ rec[k].phase # "idle" => rec'[k] = rec[k]
              /\ \/ rec'[k] = rec[k]
                 \/ rec'[k].copies = 0 /\ rec'[k].attempts = 0
  <1>1. queue' = queue /\ input' = input
    BY DEF Process, Refuse, ShadowAnswer, Admit, OptionsMode, ReadBody,
           FirstPass, FlushPass, SkipPolicy, ScanPartial, Scan, ScanPanics,
           Continue, ReadRest, Reply
  <1>2. CASE FirstPass(r) \/ FlushPass(r)
    <2>1. NoRecorder(r)
      BY <1>2 DEF FirstPass, FlushPass, Inv, PolicyInv
    <2>2. PICK v \in Verdicts, pass \in Passes, partial \in BOOLEAN :
            ProcessRequest(r, v, pass, partial)
      <3>1. req[r].partial \in BOOLEAN /\ "first" \in Passes /\ "flush" \in Passes
        BY DEF TypeOK, ReqStates, Passes
      <3>2. QED BY <1>2, <3>1 DEF FirstPass, FlushPass
    <2>3. Launched(r, v).copies = 0 /\ Launched(r, v).attempts = 0
      BY DEF Launched
    <2>4. QED BY <1>1, <2>1, <2>2, <2>3 DEF ProcessRequest, NoRecorder, TypeOK
  <1>3. CASE ~(FirstPass(r) \/ FlushPass(r))
    <2>1. rec' = rec
      BY <1>3 DEF Process, Refuse, ShadowAnswer, Admit, OptionsMode, ReadBody,
           SkipPolicy, ScanPartial, Scan, ScanPanics, Continue, ReadRest, Reply
    <2>2. QED BY <1>1, <2>1
  <1>4. QED BY <1>2, <1>3

LEMMA FinishInv ==
  ASSUME TypeOK, NEW r \in Reqs, Inv(r), Finish(r)
  PROVE  Inv(r)'
  <1> USE DEF Inv
  <1>1. UNCHANGED <<input, pc, req, link, tally, rec>> /\ HandlerReturned(r)
    BY DEF Finish
  <1>2. /\ out'[r].flushed
        /\ out'[r].calls = IF out[r].reply = NoReply THEN out[r].calls + 1
                                                     ELSE out[r].calls
        /\ out'[r].reply = IF out[r].reply = NoReply THEN Bare(200)
                                                     ELSE out[r].reply
    <2> DEFINE w == IF out[r].reply = NoReply THEN Written(out[r], Bare(200))
                                              ELSE out[r]
    <2>1. out'[r] = [w EXCEPT !.flushed = TRUE]
      BY DEF Finish, TypeOK
    <2>2. w \in OutStates
      BY WrittenTyped, BareTyped DEF TypeOK
    <2>3. out'[r].flushed /\ out'[r].calls = w.calls /\ out'[r].reply = w.reply
      BY <2>1, <2>2 DEF OutStates
    <2>4. QED BY <2>3 DEF Written
  <1>3. PolicyInv(r)'  BY <1>1, OnlyMoves DEF PolicyInv
  <1>4. BodyInv(r)'    BY <1>1, OnlyMoves DEF BodyInv
  <1>5. Bare(200) # NoReply /\ Bare(200).form = "none" /\ out[r].calls \in Nat
    BY BareTyped DEF TypeOK, OutStates
  <1>6. ReplyInv(r)'
    <2>1. ReplyFor(r)' = ReplyFor(r)
      BY <1>1 DEF ReplyFor, NoModification, Reqmod
    <2>2. QED BY <1>1, <1>2, <1>5, <2>1, OnlyMoves DEF ReplyInv, HandlerReturned
  <1>7. QED BY <1>3, <1>4, <1>6

(* The steps of the client and of the runtime leave r's invariant alone. *)
LEMMA ClientInv ==
  ASSUME TypeOK, NEW r \in Reqs, Inv(r),
         HeaderRace(r) \/ ClientSendsRest(r) \/ ClientLeaves(r)
  PROVE  \A s \in Reqs : Inv(s) => Inv(s)'
  <1> SUFFICES ASSUME NEW s \in Reqs, Inv(s) PROVE Inv(s)'
    OBVIOUS
  <1>1. UNCHANGED <<input, pc, req, out, tally, rec>>
    BY DEF HeaderRace, ClientSendsRest, ClientLeaves
  <1>2. link'[s].cut = link[s].cut
    BY DEF HeaderRace, ClientSendsRest, ClientLeaves, TypeOK, LinkStates
  <1>3. QED BY <1>1, <1>2, UntouchedKeeps DEF Untouched

LEMMA RecordInv ==
  ASSUME TypeOK, NEW k \in Reqs \X Passes, Record(k), \A s \in Reqs : Inv(s),
         QueueInv
  PROVE  \A s \in Reqs : Inv(s)'
  <1> SUFFICES ASSUME NEW s \in Reqs PROVE Inv(s)'
    OBVIOUS
  <1> USE DEF Inv
  <1>0. rec[k].copies > 0 => rec[k].phase \in {"sending", "sent", "dropped"}
    BY DEF QueueInv
  <1>1. UNCHANGED <<input, pc, req, link, out, tally>>
    BY RecorderStep
  <1>2. \A j \in Reqs \X Passes : j # k => rec'[j] = rec[j]
    BY RecorderStep
  <1>3. /\ rec[k].phase # "idle" /\ rec'[k].phase # "idle"
        /\ rec'[k].wildcard = rec[k].wildcard
        /\ \/ /\ rec[k].phase \in {"launched", "headers"}
              /\ rec'[k].phase \in {"headers", "storing", "dropped"}
              /\ rec'[k].body = rec[k].body
              /\ rec'[k].copies = 0
           \/ /\ rec[k].phase = "storing" /\ rec'[k].phase = "sending"
              /\ rec'[k].files \in Uploads(k)
              /\ rec'[k].body = IF rec[k].wildcard \/ rec'[k].files # {}
                                THEN {} ELSE rec[k].body
           \/ /\ rec[k].phase = "sending"
              /\ rec'[k].phase \in {"sending", "sent", "dropped"}
              /\ rec'[k].body = rec[k].body /\ rec'[k].files = rec[k].files
    <2>1. rec[k].copies \in Nat
      BY DEF TypeOK, Recorders
    <2>2. CASE Prepares(k)
      BY <1>0, <2>1, <2>2 DEF Prepares, Keeps
    <2>3. CASE Builds(k)
      BY <2>3 DEF Builds
    <2>4. CASE Sends(k)
      BY <2>4 DEF Sends, Keeps
    <2>5. QED BY <2>2, <2>3, <2>4, RecorderStep
  <1>4. \A p \in Passes : rec'[<<s, p>>].phase = "idle" <=> rec[<<s, p>>].phase = "idle"
    BY <1>2, <1>3
  <1>5. PolicyInv(s)'
    <2>1. NoRecorder(s)' <=> NoRecorder(s)
      BY <1>4 DEF NoRecorder
    <2>2. QED BY <1>1, <1>4, <2>1 DEF PolicyInv, Shadow
  <1>6. BodyInv(s)'
    <2>1. Sound(s)' = Sound(s) /\ Full(s)' = Full(s)
      BY <1>1 DEF Sound, Shadow, Full
    <2>2. CASE k[1] # s
      <3>1. \A p \in Passes : rec'[<<s, p>>] = rec[<<s, p>>]
        BY <1>2, <2>2
      <3>2. BodyInv(s)
        OBVIOUS
      <3>3. CASE ~Sound(s)
        BY <2>1, <3>3 DEF BodyInv
      <3>4. CASE Sound(s)
        BY <1>1, <2>1, <3>1, <3>2, <3>4 DEF BodyInv
      <3>5. QED BY <3>3, <3>4
    <2>3. CASE k[1] = s
      <3>1. k = <<s, k[2]>> /\ k[2] \in Passes
        BY <2>3
      <3>2. \A p \in Passes : p # k[2] => rec'[<<s, p>>] = rec[<<s, p>>]
        BY <1>2, <3>1
      <3>3. rec[k].phase = "storing" => rec'[k].files \in Uploads(k)
        BY <1>3
      <3>4. Uploads(k) = IF input[s].multipart /\ ~rec[k].wildcard
                         THEN SUBSET rec[k].body ELSE {{}}
        BY <3>1 DEF Uploads
      <3>5. BodyInv(s)
        OBVIOUS
      <3>6. Sound(s) => /\ rec[k].phase \in {"launched", "headers", "storing"} =>
                             rec[k].body = Full(s)
                        /\ (\/ rec[k].phase \in {"sending", "sent"}
                            \/ rec[k].phase = "dropped" /\ rec[k].copies > 0) =>
                             /\ rec[k].files \subseteq Full(s)
                             /\ rec[k].files # {} => input[s].multipart
                             /\ rec[k].body =
                                  IF rec[k].wildcard \/ rec[k].files # {}
                                  THEN {} ELSE Full(s)
        BY <3>1, <3>5 DEF BodyInv
      <3>7. Sound(s) => /\ rec'[k].phase \in {"launched", "headers", "storing"} =>
                             rec'[k].body = Full(s)
                        /\ (\/ rec'[k].phase \in {"sending", "sent"}
                            \/ rec'[k].phase = "dropped" /\ rec'[k].copies > 0) =>
                             /\ rec'[k].files \subseteq Full(s)
                             /\ rec'[k].files # {} => input[s].multipart
                             /\ rec'[k].body =
                                  IF rec'[k].wildcard \/ rec'[k].files # {}
                                  THEN {} ELSE Full(s)
        <4>1. CASE rec[k].phase = "storing"
          <5>1. /\ rec'[k].phase = "sending" /\ rec'[k].wildcard = rec[k].wildcard
                /\ rec'[k].files \in Uploads(k)
                /\ rec'[k].body = IF rec[k].wildcard \/ rec'[k].files # {}
                                  THEN {} ELSE rec[k].body
            BY <1>3, <4>1
          <5>2. Sound(s) => rec[k].body = Full(s)
            BY <3>6, <4>1
          <5>3. rec'[k].files \in (IF input[s].multipart /\ ~rec[k].wildcard
                                   THEN SUBSET rec[k].body ELSE {{}})
            BY <3>4, <5>1
          <5>4. rec'[k].files \subseteq rec[k].body
                /\ (rec'[k].files # {} => input[s].multipart)
            BY <5>3
          <5>5. QED BY <5>1, <5>2, <5>4
        <4>2. CASE rec[k].phase # "storing"
          BY <1>3, <3>6, <4>2
        <4>3. QED BY <4>1, <4>2
      <3>8. QED BY <1>1, <2>1, <3>1, <3>2, <3>5, <3>7 DEF BodyInv
    <2>4. QED BY <2>2, <2>3
  <1>7. ReplyInv(s)'
    BY <1>1 DEF ReplyInv, Shadow, ReplyFor, NoModification, Reqmod
  <1>8. QED BY <1>5, <1>6, <1>7

LEMMA QueueStep ==
  ASSUME TypeOK, NEW k \in Reqs \X Passes, Record(k), QueueInv
  PROVE  QueueInv'
  <1>1. \A m \in queue : m.req \in Reqs /\ m.pass \in Passes
    BY DEF TypeOK, Messages
  <1>2. \A j \in Reqs \X Passes : j # k => rec'[j] = rec[j]
    BY RecorderStep
  <1>3. /\ rec[k] \in Recorders /\ rec[k].copies \in Nat /\ rec[k].attempts \in Nat
        /\ k = <<k[1], k[2]>>
    BY DEF TypeOK, Recorders
  <1>4. /\ rec[k].copies <= rec[k].attempts
        /\ rec[k].copies > 0 => rec[k].phase \in {"sending", "sent", "dropped"}
    BY DEF QueueInv
  <1>5. CASE /\ queue' = queue
             /\ rec'[k].copies = rec[k].copies
             /\ rec[k].copies <= rec'[k].attempts
             /\ rec[k].copies > 0 =>
                  /\ rec'[k].phase \in {"sending", "sent", "dropped"}
                  /\ \A n \in Nat : Message(k, n)' = Message(k, n)
    <2>1. \A m \in queue : <<m.req, m.pass>> # k =>
            /\ rec'[<<m.req, m.pass>>] = rec[<<m.req, m.pass>>]
      BY <1>1, <1>2
    <2>2. ASSUME NEW m \in queue
          PROVE  /\ m.copy \in 1..rec'[<<m.req, m.pass>>].copies
                 /\ m = Message(<<m.req, m.pass>>, m.copy)'
      <3>1. m.copy \in 1..rec[<<m.req, m.pass>>].copies
            /\ m = Message(<<m.req, m.pass>>, m.copy)
        BY DEF QueueInv
      <3>2. CASE <<m.req, m.pass>> = k
        BY <1>3, <1>5, <3>1, <3>2
      <3>3. CASE <<m.req, m.pass>> # k
        BY <2>1, <3>1, <3>3 DEF Message
      <3>4. QED BY <3>2, <3>3
    <2>3. ASSUME NEW j \in Reqs \X Passes
          PROVE  /\ rec'[j].copies <= rec'[j].attempts
                 /\ rec'[j].copies > 0 =>
                      rec'[j].phase \in {"sending", "sent", "dropped"}
      BY <1>2, <1>5 DEF QueueInv
    <2>4. QED BY <1>5, <2>2, <2>3 DEF QueueInv
  <1>6. CASE /\ Accept(k) /\ rec[k].phase = "sending"
             /\ rec'[k].phase \in {"sending", "sent"}
             /\ rec'[k].copies = rec[k].copies + 1
             /\ rec'[k].attempts = rec[k].attempts + 1
             /\ \A n \in Nat : Message(k, n)' = Message(k, n)
    <2>c. PICK c \in Nat : c = rec[k].copies + 1
      BY <1>3
    <2>b. Message(k, c)' = Message(k, c)
      BY <1>6
    <2>1. queue' = queue \cup {Message(k, c)}
          /\ Message(k, c).copy = c
          /\ <<Message(k, c).req, Message(k, c).pass>> = k
      BY <1>3, <1>6, <2>c DEF Accept, Message
    <2>2. ASSUME NEW m \in queue
          PROVE  /\ m.copy \in 1..rec'[<<m.req, m.pass>>].copies
                 /\ m = Message(<<m.req, m.pass>>, m.copy)'
      <3>1. m.copy \in 1..rec[<<m.req, m.pass>>].copies
            /\ m = Message(<<m.req, m.pass>>, m.copy)
        BY DEF QueueInv
      <3>2. CASE <<m.req, m.pass>> = k
        BY <1>3, <1>6, <3>1, <3>2
      <3>3. CASE <<m.req, m.pass>> # k
        <4>1. rec'[<<m.req, m.pass>>] = rec[<<m.req, m.pass>>]
          BY <1>1, <1>2, <3>3
        <4>2. QED BY <3>1, <4>1 DEF Message
      <3>4. QED BY <3>2, <3>3
    <2>3. c \in 1..rec'[k].copies
      BY <1>3, <1>6, <2>c
    <2>4. ASSUME NEW j \in Reqs \X Passes
          PROVE  /\ rec'[j].copies <= rec'[j].attempts
                 /\ rec'[j].copies > 0 =>
                      rec'[j].phase \in {"sending", "sent", "dropped"}
      BY <1>2, <1>3, <1>4, <1>6 DEF QueueInv
    <2>5. ASSUME NEW m \in queue'
          PROVE  /\ m.copy \in 1..rec'[<<m.req, m.pass>>].copies
                 /\ m = Message(<<m.req, m.pass>>, m.copy)'
      <3>1. CASE m \in queue
        BY <2>2, <3>1
      <3>2. CASE m = Message(k, c)
        BY <2>1, <2>3, <2>b, <3>2
      <3>3. QED BY <2>1, <3>1, <3>2
    <2>6. QED BY <2>4, <2>5 DEF QueueInv
  <1>7. QED
    <2>1. CASE Prepares(k)
      BY <1>3, <1>4, <1>5, <2>1 DEF Prepares
    <2>2. CASE Builds(k)
      BY <1>3, <1>4, <1>5, <2>2 DEF Builds
    <2>3. CASE Sends(k)
      <3>1. \A n \in Nat : Message(k, n)' = Message(k, n)
        BY <2>3 DEF Sends, Keeps, Message
      <3>2. CASE Accept(k) /\ rec'[k].copies = rec[k].copies + 1
        BY <1>3, <1>6, <2>3, <3>1, <3>2 DEF Sends
      <3>3. CASE queue' = queue /\ rec'[k].copies = rec[k].copies
        BY <1>3, <1>4, <1>5, <2>3, <3>1, <3>3 DEF Sends
      <3>4. QED BY <2>3, <3>2, <3>3 DEF Sends
    <2>4. QED BY <2>1, <2>2, <2>3, RecorderStep

LEMMA InvInit == Init => IInv
  <1> SUFFICES ASSUME Init PROVE IInv
    OBVIOUS
  <1>1. Passes # {} /\ \A k \in Reqs \X Passes : rec[k].phase = "idle"
    BY DEF Init, IdleRecorder, Passes
  <1>2. ASSUME NEW r \in Reqs PROVE PolicyInv(r)
    BY <1>1 DEF Init, PolicyInv, NoRecorder
  <1>3. ASSUME NEW r \in Reqs PROVE BodyInv(r)
    BY <1>1 DEF Init, BodyInv
  <1>4. ASSUME NEW r \in Reqs PROVE ReplyInv(r)
    BY DEF Init, ReplyInv, NoReply
  <1>5. QueueInv
    BY DEF Init, QueueInv, IdleRecorder
  <1>6. QED BY <1>2, <1>3, <1>4, <1>5 DEF IInv

LEMMA InvNext == TypeOK /\ IInv /\ [Next]_vars => IInv'
  <1> SUFFICES ASSUME TypeOK, IInv, [Next]_vars PROVE IInv'
    OBVIOUS
  <1>1. (\A r \in Reqs : Inv(r)) /\ QueueInv
    BY DEF IInv, Inv
  <1>2. SUFFICES (\A s \in Reqs : Inv(s)') /\ QueueInv'
    BY DEF IInv, Inv
  <1>3. ASSUME queue' = queue,
               \A k \in Reqs \X Passes :
                 /\ rec[k].phase # "idle" => rec'[k] = rec[k]
                 /\ \/ rec'[k] = rec[k]
                    \/ rec'[k].copies = 0 /\ rec'[k].attempts = 0
        PROVE  QueueInv'
    <2>1. \A m \in queue : <<m.req, m.pass>> \in Reqs \X Passes
      BY DEF TypeOK, Messages
    <2>2. \A k \in Reqs \X Passes : rec[k].copies \in Nat
      BY DEF TypeOK, Recorders
    <2>3. ASSUME NEW k \in Reqs \X Passes
          PROVE  /\ rec'[k].copies <= rec'[k].attempts
                 /\ rec'[k].copies > 0 =>
                      rec'[k].phase \in {"sending", "sent", "dropped"}
      BY <1>1, <1>3 DEF QueueInv
    <2>4. ASSUME NEW m \in queue
          PROVE  /\ m.copy \in 1..rec'[<<m.req, m.pass>>].copies
                 /\ m = Message(<<m.req, m.pass>>, m.copy)'
      <3>1. /\ m.copy \in 1..rec[<<m.req, m.pass>>].copies
            /\ m = Message(<<m.req, m.pass>>, m.copy)
        BY <1>1 DEF QueueInv
      <3>2. rec[<<m.req, m.pass>>].copies > 0
        BY <2>1, <2>2, <3>1
      <3>3. rec[<<m.req, m.pass>>].phase # "idle"
        BY <1>1, <2>1, <3>2 DEF QueueInv
      <3>4. rec'[<<m.req, m.pass>>] = rec[<<m.req, m.pass>>]
        BY <1>3, <2>1, <3>3
      <3>5. QED BY <3>1, <3>4 DEF Message
    <2>5. QED BY <1>3, <2>3, <2>4 DEF QueueInv
  <1>4. ASSUME NEW r \in Reqs, Process(r)
        PROVE  (\A s \in Reqs : Inv(s)') /\ QueueInv'
    <2>1. Inv(r)'
      BY <1>1, <1>4, ProcessInv
    <2>2. \A s \in Reqs : s # r => Inv(s)'
      BY <1>1, <1>4, ProcessFrame, ProcessRecorders, UntouchedKeeps
    <2>3. QueueInv'
      BY <1>1, <1>3, <1>4, ProcessRecorders
    <2>4. QED BY <2>1, <2>2, <2>3
  <1>5. ASSUME NEW r \in Reqs, Finish(r)
        PROVE  (\A s \in Reqs : Inv(s)') /\ QueueInv'
    <2>1. Inv(r)'
      BY <1>1, <1>5, FinishInv
    <2>2. \A s \in Reqs : s # r => Untouched(s)
      BY <1>5 DEF Finish, Untouched, TypeOK
    <2>3. input' = input /\ queue' = queue /\ rec' = rec
      BY <1>5 DEF Finish
    <2>4. QED BY <1>1, <1>3, <2>1, <2>2, <2>3, UntouchedKeeps
  <1>6. ASSUME NEW r \in Reqs,
               HeaderRace(r) \/ ClientSendsRest(r) \/ ClientLeaves(r)
        PROVE  (\A s \in Reqs : Inv(s)') /\ QueueInv'
    <2>1. queue' = queue /\ rec' = rec
      BY <1>6 DEF HeaderRace, ClientSendsRest, ClientLeaves
    <2>2. QED BY <1>1, <1>3, <1>6, <2>1, ClientInv
  <1>7. ASSUME NEW k \in Reqs \X Passes, Record(k)
        PROVE  (\A s \in Reqs : Inv(s)') /\ QueueInv'
    BY <1>1, <1>7, RecordInv, QueueStep
  <1>8. CASE UNCHANGED vars
    <2>1. \A s \in Reqs : Untouched(s)
      BY <1>8 DEF vars, Untouched
    <2>2. input' = input /\ queue' = queue /\ rec' = rec
      BY <1>8 DEF vars
    <2>3. QED BY <1>1, <1>3, <2>1, <2>2, UntouchedKeeps
  <1>9. QED BY <1>4, <1>5, <1>6, <1>7, <1>8 DEF Next, Quiet

(* The conjunction of the flags', the bodies', the replies' and the queue's  *)
(* invariants holds throughout.                                              *)
THEOREM Invariant == Spec => []IInv
  BY TypeCorrect, InvInit, InvNext, PTL DEF Spec

-----------------------------------------------------------------------------
(* What follows from it.                                                     *)

(* No transaction is recorded twice, or both recorded and counted as a       *)
(* candidate domain, whatever the two passes of RespAndReqMods decided.      *)
THEOREM AccountsOnce == Spec => []AccountedOnce
  <1>1. TypeOK /\ IInv => AccountedOnce
    <2> SUFFICES ASSUME TypeOK, IInv, NEW r \in Reqs
                 PROVE  Cardinality(Recorded(r)) + tally[r].observed <= 1
      BY DEF AccountedOnce
    <2>1. PolicyInv(r) /\ tally[r].observed \in Nat
      BY DEF IInv, TypeOK, TallyStates
    <2>2. PICK p \in Passes : \A q \in Passes \ {p} : rec[<<r, q>>].phase = "idle"
      BY <2>1 DEF PolicyInv
    <2>3. Recorded(r) = {} \/ Recorded(r) = {p}
      BY <2>2 DEF Recorded
    <2>4. Cardinality({}) = 0 /\ Cardinality({p}) = 1
      BY FS_EmptySet, FS_Singleton
    <2>5. tally[r].observed # 0 => Recorded(r) = {}
      BY <2>1 DEF PolicyInv, NoRecorder, Recorded
    <2>6. tally[r].observed <= 1
      BY <2>1 DEF PolicyInv
    <2>7. QED BY <2>1, <2>3, <2>4, <2>5, <2>6
  <1>2. QED BY <1>1, TypeCorrect, Invariant, PTL

(* The recorder of a queued message. *)
LEMMA QueuedBy ==
  ASSUME TypeOK, IInv, NEW m \in queue
  PROVE  /\ m.req \in Reqs /\ m.pass \in Passes
         /\ rec[<<m.req, m.pass>>].phase \in {"sending", "sent", "dropped"}
         /\ rec[<<m.req, m.pass>>].copies > 0
         /\ m.copy \in 1..rec[<<m.req, m.pass>>].copies
         /\ m = Message(<<m.req, m.pass>>, m.copy)
  <1>1. m.req \in Reqs /\ m.pass \in Passes
    BY DEF TypeOK, Messages
  <1>2. rec[<<m.req, m.pass>>].copies \in Nat
    BY <1>1 DEF TypeOK, Recorders
  <1>3. m.copy \in 1..rec[<<m.req, m.pass>>].copies
        /\ m = Message(<<m.req, m.pass>>, m.copy)
    BY DEF IInv, QueueInv
  <1>4. rec[<<m.req, m.pass>>].copies > 0
    BY <1>2, <1>3
  <1>5. rec[<<m.req, m.pass>>].phase \in {"sending", "sent", "dropped"}
    BY <1>1, <1>4 DEF IInv, QueueInv
  <1>6. QED BY <1>1, <1>3, <1>4, <1>5

(* A queued body is the whole body: no preview reaches the queue, whichever  *)
(* of the two passes started the recorder.                                   *)
THEOREM RecordsWhole == Spec => []RecordedBodyWhole
  <1>1. TypeOK /\ IInv => RecordedBodyWhole
    <2> SUFFICES ASSUME TypeOK, IInv, NEW m \in queue, Sound(m.req),
                        ~m.wildcard, m.files = {}
                 PROVE  m.body = Full(m.req)
      BY DEF RecordedBodyWhole
    <2>1. m.req \in Reqs /\ m.pass \in Passes
      BY DEF TypeOK, Messages
    <2>2. /\ rec[<<m.req, m.pass>>].phase \in {"sending", "sent", "dropped"}
          /\ rec[<<m.req, m.pass>>].copies > 0
          /\ m = Message(<<m.req, m.pass>>, m.copy)
      BY <2>1, QueuedBy
    <2>3. /\ m.body = rec[<<m.req, m.pass>>].body
          /\ m.files = rec[<<m.req, m.pass>>].files
          /\ m.wildcard = rec[<<m.req, m.pass>>].wildcard
      BY <2>2 DEF Message
    <2>4. BodyInv(m.req)
      BY <2>1 DEF IInv
    <2>5. QED BY <2>1, <2>2, <2>3, <2>4 DEF BodyInv
  <1>2. QED BY <1>1, TypeCorrect, Invariant, PTL

(* A transaction the business logic refused has no recorder, running or done. *)
THEOREM RefusedUnrecorded == Spec => []RejectedNeverRecorded
  <1>1. IInv => RejectedNeverRecorded
    BY DEF IInv, PolicyInv, NoRecorder, RejectedNeverRecorded, Recorded
  <1>2. QED BY <1>1, Invariant, PTL

(* The handler of a transaction that is not shadowed writes one header.      *)
THEOREM WritesOneHeader == Spec => []OneHeader
  <1>1. IInv => OneHeader
    BY DEF IInv, ReplyInv, OneHeader
  <1>2. QED BY <1>1, Invariant, PTL

(* No deferred recording is forgotten by a transaction that ends.            *)
THEOREM ResolvesDeferral == Spec => []DeferralResolved
  <1>1. IInv => DeferralResolved
    BY DEF IInv, PolicyInv, DeferralResolved
  <1>2. QED BY <1>1, Invariant, PTL

(* What a service does not modify comes back as a 204, or whole: no reply of *)
(* an undisturbed transaction is shortened by the two passes, but for a byte *)
(* range that is not allowed a 204.                                          *)
THEOREM ReturnsOriginalWhole == Spec => []OriginalReturnedWhole
  <1>1. IInv => OriginalReturnedWhole
    <2> SUFFICES ASSUME IInv, NEW r \in Reqs, Sound(r), pc[r] = "end",
                        req[r].outcome \in {"nomod", "range"}, ~LosesRange(r)
                 PROVE  out[r].reply =
                          IF input[r].allow204 THEN Bare(204)
                          ELSE [status |-> 200, form |-> "original",
                                body |-> Full(r)]
      BY DEF OriginalReturnedWhole
    <2>1. out[r].reply = ReplyFor(r) /\ ~req[r].partial
      BY DEF IInv, ReplyInv, Sound
    <2>2. req[r].body = Full(r) /\ req[r].orgBody = Full(r)
      BY <2>1 DEF IInv, BodyInv
    <2>3. QED BY <2>1, <2>2 DEF ReplyFor, NoModification, LosesRange
  <1>2. QED BY <1>1, Invariant, PTL

(* A written reply is never replaced, and no 100 Continue follows it: the    *)
(* only step that continues a body does so before any header is written.     *)
THEOREM RepliesFinal == Spec => ReplyIsFinal
  <1> DEFINE Kept(r) == out[r].reply # NoReply =>
                          /\ out'[r].reply = out[r].reply
                          /\ out'[r].continued = out[r].continued
  <1>1. TypeOK /\ IInv /\ [Next]_vars => \A r \in Reqs : Kept(r)
    <2> SUFFICES ASSUME TypeOK, IInv, [Next]_vars, NEW r \in Reqs PROVE Kept(r)
      OBVIOUS
    <2>1. \A reply : Written(out[r], reply).continued = out[r].continued
                     /\ (out[r].reply # NoReply
                           => Written(out[r], reply).reply = out[r].reply)
      BY DEF Written
    <2>2. \A reply : WriteHeader(r, reply) => Kept(r)
      BY <2>1 DEF WriteHeader, TypeOK
    <2>3. ASSUME NEW s \in Reqs, Process(s) PROVE Kept(r)
      <3>1. CASE s # r
        BY <2>3, <3>1, ProcessFrame DEF Untouched
      <3>2. CASE s = r
        <4>1. CASE Continue(r)
          BY <4>1 DEF Continue, IInv, ReplyInv
        <4>2. CASE ShadowAnswer(r)
          BY <2>2, <4>2 DEF ShadowAnswer
        <4>3. CASE FirstPass(r) \/ FlushPass(r)
          BY <2>2, <4>3 DEF FirstPass, FlushPass, Proceed
        <4>4. CASE Refuse(r) \/ OptionsMode(r) \/ Reply(r)
          BY <2>2, <4>4 DEF Refuse, OptionsMode, Reply
        <4>5. CASE Admit(r) \/ ReadBody(r) \/ SkipPolicy(r) \/ ScanPartial(r)
                   \/ Scan(r) \/ ScanPanics(r) \/ ReadRest(r)
          BY <4>5 DEF Admit, ReadBody, SkipPolicy, ScanPartial, Scan,
                      ScanPanics, ReadRest
        <4>6. QED
          BY <2>3, <3>2, <4>1, <4>2, <4>3, <4>4, <4>5 DEF Process
      <3>3. QED BY <3>1, <3>2
    <2>4. ASSUME NEW s \in Reqs, Finish(s) PROVE Kept(r)
      <3>1. CASE s # r
        BY <2>4, <3>1 DEF Finish, TypeOK
      <3>2. CASE s = r /\ out[r].reply # NoReply
        BY <2>4, <3>2 DEF Finish, TypeOK, OutStates
      <3>3. QED BY <3>1, <3>2
    <2>5. ASSUME \/ \E s \in Reqs : HeaderRace(s) \/ ClientSendsRest(s)
                                    \/ ClientLeaves(s)
                 \/ \E k \in Reqs \X Passes : Record(k)
                 \/ UNCHANGED vars
          PROVE  Kept(r)
      BY <2>5 DEF HeaderRace, ClientSendsRest, ClientLeaves, Record, SkipRecording, ReadTarget,
                  ReadHeaders, StoreFiles, Enqueue, AttemptFails, EnqueueFails,
                  vars
    <2>6. QED BY <2>3, <2>4, <2>5 DEF Next, Quiet
  <1>2. TypeOK /\ IInv /\ [Next]_vars => [\A r \in Reqs : Kept(r)]_vars
    BY <1>1
  <1>3. QED BY <1>2, TypeCorrect, Invariant, PTL DEF Spec, ReplyIsFinal

-----------------------------------------------------------------------------
(* The two passes, the recorders and the detached processing implement the   *)
(* recording contract: a first and a flush pass that refuses is Refuse, a    *)
(* message of an undisturbed transaction is Publish, the end of the reply is *)
(* Answer, and every other step leaves the contract's state unchanged.       *)

OwedMap == [r \in Reqs |-> Owed(r)]
Log == {Entry(m) : m \in {n \in queue : Sound(n.req)}}
Forms == [pass: Passes, files: SUBSET Parts, wildcard: BOOLEAN, target: Targets]
Refused == {r \in Reqs : tally[r].rejected /\ ~Shadow(r)}
AnsweredSet == {r \in Reqs : out[r].flushed}

LEMMA ContractInit == Init => Contract!Init
  <1> SUFFICES ASSUME Init PROVE Contract!Init
    OBVIOUS
  <1>1. OwedMap \in [Reqs -> SUBSET SUBSET Parts]
    BY TypeInit, InputFacts DEF OwedMap, Owed
  <1>2. Log = {} /\ Refused = {} /\ AnsweredSet = {}
    BY DEF Init, Log, Refused, AnsweredSet
  <1>3. QED BY <1>1, <1>2 DEF Contract!Init, OwedMap, Log, Refused, AnsweredSet

(* Nothing of a transaction without a recorder is in the log. *)
LEMMA NotInLog ==
  ASSUME TypeOK, IInv, NEW r \in Reqs, NoRecorder(r)
  PROVE  (\A m \in queue : m.req # r) /\ (\A e \in Log : e.req # r)
  <1>1. \A m \in queue : m.req # r
    BY QueuedBy DEF NoRecorder
  <1>2. QED BY <1>1 DEF Log, Entry

LEMMA ProcessLog ==
  ASSUME TypeOK, IInv, NEW r \in Reqs, Process(r)
  PROVE  OwedMap' = OwedMap /\ Log' = Log /\ AnsweredSet' = AnsweredSet
  <1>1. queue' = queue /\ input' = input
    BY ProcessRecorders DEF Inv, IInv
  <1>2. OwedMap' = OwedMap
    BY <1>1 DEF OwedMap, Owed, Full
  <1>3. \A m \in queue : m.req \in Reqs
    BY DEF TypeOK, Messages
  <1>4. \A s \in Reqs : s # r => Sound(s)' = Sound(s)
    BY <1>1, ProcessFrame DEF Untouched, Sound, Shadow
  <1>5. Log' = Log
    <2>1. CASE ReadBody(r) \/ ReadRest(r)
      <3>1. NoRecorder(r)
        BY <2>1 DEF ReadBody, ReadRest, IInv, PolicyInv
      <3>2. \A m \in queue : m.req # r
        BY <3>1, NotInLog
      <3>3. \A m \in queue : Sound(m.req)' = Sound(m.req)
        BY <1>3, <1>4, <3>2
      <3>4. QED BY <1>1, <3>3 DEF Log
    <2>2. CASE ~(ReadBody(r) \/ ReadRest(r))
      <3>1. link' = link
        BY <2>2 DEF Process, Refuse, ShadowAnswer, Admit, OptionsMode,
                FirstPass, FlushPass, SkipPolicy, ScanPartial, Scan, ScanPanics,
                Continue, Reply
      <3>2. \A s \in Reqs : Sound(s)' = Sound(s)
        BY <1>1, <3>1 DEF Sound, Shadow
      <3>3. QED BY <1>1, <1>3, <3>2 DEF Log
    <2>3. QED BY <2>1, <2>2
  <1>6. \A s \in Reqs : out'[s].flushed = out[s].flushed
    <2>1. \A reply : Written(out[r], reply).flushed = out[r].flushed
      BY DEF Written
    <2>2. \A reply : WriteHeader(r, reply) => out'[r].flushed = out[r].flushed
      BY <2>1 DEF WriteHeader, TypeOK
    <2>3. CASE Continue(r)
      BY <2>3 DEF Continue, TypeOK, OutStates
    <2>4. CASE ShadowAnswer(r)
      BY <2>2, <2>4, ProcessFrame DEF ShadowAnswer, Untouched
    <2>5. CASE FirstPass(r) \/ FlushPass(r)
      BY <2>2, <2>5, ProcessFrame DEF FirstPass, FlushPass, Proceed, Untouched
    <2>6. CASE Refuse(r) \/ OptionsMode(r) \/ Reply(r)
      BY <2>2, <2>6, ProcessFrame DEF Refuse, OptionsMode, Reply, Untouched
    <2>7. CASE Admit(r) \/ ReadBody(r) \/ SkipPolicy(r) \/ ScanPartial(r)
               \/ Scan(r) \/ ScanPanics(r) \/ ReadRest(r)
      BY <2>7 DEF Admit, ReadBody, SkipPolicy, ScanPartial, Scan,
                  ScanPanics, ReadRest
    <2>8. QED BY <2>3, <2>4, <2>5, <2>6, <2>7, ProcessFrame DEF Process, Untouched
  <1>7. AnsweredSet' = AnsweredSet
    BY <1>6 DEF AnsweredSet
  <1>8. QED BY <1>2, <1>5, <1>7

(* The refusals of a step: none, or the one transaction whose pass refused. *)
LEMMA ProcessRefused ==
  ASSUME TypeOK, IInv, NEW r \in Reqs, Process(r)
  PROVE  \/ Refused' = Refused
         \/ /\ Refused' = Refused \cup {r}
            /\ NoRecorder(r) /\ ~out[r].flushed
  <1>1. \A s \in Reqs : Shadow(s)' = Shadow(s)
    BY ProcessRecorders DEF Inv, IInv, Shadow
  <1>2. \A s \in Reqs : s # r => tally'[s].rejected = tally[s].rejected
    BY ProcessFrame DEF Untouched
  <1>3. CASE FirstPass(r) \/ FlushPass(r)
    <2>1. NoRecorder(r)
      BY <1>3 DEF FirstPass, FlushPass, IInv, PolicyInv
    <2>2. ~Shadow(r) => ~out[r].flushed
      BY <1>3 DEF FirstPass, FlushPass, IInv, ReplyInv
    <2>3. ~tally[r].rejected
      BY <1>3 DEF FirstPass, FlushPass, IInv, PolicyInv
    <2>4. CASE tally'[r].rejected /\ ~Shadow(r)
      BY <1>1, <1>2, <2>1, <2>2, <2>4 DEF Refused
    <2>5. CASE ~(tally'[r].rejected /\ ~Shadow(r))
      BY <1>1, <1>2, <2>3, <2>5 DEF Refused
    <2>6. QED BY <2>4, <2>5
  <1>4. CASE ~(FirstPass(r) \/ FlushPass(r))
    <2>1. tally' = tally
      BY <1>4 DEF Process, Refuse, ShadowAnswer, Admit, OptionsMode, ReadBody,
           SkipPolicy, ScanPartial, Scan, ScanPanics, Continue, ReadRest, Reply
    <2>2. QED BY <1>1, <2>1 DEF Refused
  <1>5. QED BY <1>3, <1>4

(* The message of a recorder that sends is one more copy of a recording the *)
(* contract allows.                                                         *)
LEMMA Publishes ==
  ASSUME TypeOK, IInv, NEW k \in Reqs \X Passes, Sound(k[1]), Accept(k),
         rec[k].phase = "sending", rec[k].attempts < MaxAttempts,
         UNCHANGED <<input, link>>
  PROVE  /\ k[1] \notin Refused
         /\ \E b \in Owed(k[1]), f \in Forms, n \in 1..MaxAttempts :
              /\ \A e \in Log : e.req = k[1] =>
                   e.body = b /\ e.form = f /\ e.copy < n
              /\ Log' = Log \cup {[req |-> k[1], body |-> b, form |-> f, copy |-> n]}
  <1> DEFINE c == rec[k].copies + 1
             new == Message(k, c)
  <1>1. k[1] \in Reqs /\ k[2] \in Passes /\ k = <<k[1], k[2]>> /\ rec[k] \in Recorders
    BY DEF TypeOK
  <1>2. PolicyInv(k[1]) /\ BodyInv(k[1])
    BY <1>1 DEF IInv
  <1>3. k[1] \notin Refused
    BY <1>1, <1>2 DEF PolicyInv, NoRecorder, Refused
  <1>4. c \in 1..MaxAttempts /\ c \in Nat
    <2>1. /\ rec[k].copies \in Nat /\ rec[k].attempts \in Nat
          /\ rec[k].copies <= rec[k].attempts
      BY <1>1 DEF Recorders, IInv, QueueInv
    <2>2. QED BY <2>1, MaxAttemptsAssumption
  <1>5. new.body \cup new.files \in Owed(k[1])
    <2>1. /\ rec[k].files \subseteq Full(k[1])
          /\ rec[k].files # {} => input[k[1]].multipart
          /\ rec[k].body = IF rec[k].wildcard \/ rec[k].files # {}
                           THEN {} ELSE Full(k[1])
      BY <1>1, <1>2 DEF BodyInv
    <2>2. new.body = rec[k].body /\ new.files = rec[k].files
      BY DEF Message
    <2>3. QED BY <2>1, <2>2 DEF Owed
  <1>6. Form(new) \in Forms
    BY <1>1 DEF Form, Forms, Message, Recorders
  <1>7. \A e \in Log : e.req = k[1] =>
          /\ e.body = new.body \cup new.files
          /\ e.form = Form(new) /\ e.copy < c
    <2> SUFFICES ASSUME NEW m \in queue, m.req = k[1]
                 PROVE  /\ m.body = new.body /\ m.files = new.files
                        /\ Form(m) = Form(new) /\ m.copy < c
      BY DEF Log, Entry
    <2>1. /\ m.pass \in Passes /\ rec[<<k[1], m.pass>>].phase # "idle"
          /\ m.copy \in 1..rec[<<k[1], m.pass>>].copies
          /\ m = Message(<<k[1], m.pass>>, m.copy)
      BY QueuedBy
    <2>2. m.pass = k[2]
      BY <1>1, <1>2, <2>1 DEF PolicyInv
    <2>3. m = Message(k, m.copy) /\ m.copy \in 1..rec[k].copies
      BY <1>1, <2>1, <2>2
    <2>4. m.copy < c
      BY <1>1, <2>3 DEF Recorders
    <2>5. m.body = new.body /\ m.files = new.files /\ Form(m) = Form(new)
      BY <2>3 DEF Message, Form
    <2>6. QED BY <2>4, <2>5
  <1>8. Log' = Log \cup {Entry(new)}
    <2>1. queue' = queue \cup {new} /\ new.req = k[1]
      BY DEF Accept, Message
    <2>2. \A s \in Reqs : Sound(s)' = Sound(s)
      BY DEF Sound, Shadow
    <2>3. \A m \in queue' : m.req \in Reqs
      BY <1>1, <2>1 DEF TypeOK, Messages
    <2>4. {n \in queue' : Sound(n.req)'} = {n \in queue : Sound(n.req)} \cup {new}
      BY <1>1, <2>1, <2>2, <2>3
    <2>5. QED BY <2>4 DEF Log
  <1>9. Entry(new) = [req |-> k[1], body |-> new.body \cup new.files,
                      form |-> Form(new), copy |-> c]
    BY DEF Entry, Message
  <1>10. QED BY <1>3, <1>4, <1>5, <1>6, <1>7, <1>8, <1>9

LEMMA RecordLog ==
  ASSUME TypeOK, IInv, NEW k \in Reqs \X Passes, Record(k)
  PROVE  \/ Log' = Log
         \/ /\ k[1] \notin Refused
            /\ \E b \in Owed(k[1]), f \in Forms, n \in 1..MaxAttempts :
                 /\ \A e \in Log : e.req = k[1] =>
                      e.body = b /\ e.form = f /\ e.copy < n
                 /\ Log' = Log \cup {[req |-> k[1], body |-> b, form |-> f, copy |-> n]}
  <1>1. UNCHANGED <<input, link>>
    BY RecorderStep
  <1>2. \A m \in queue : m.req \in Reqs
    BY DEF TypeOK, Messages
  <1>3. \A s \in Reqs : Sound(s)' = Sound(s)
    BY <1>1 DEF Sound, Shadow
  <1>4. CASE Accept(k) /\ Sends(k) /\ rec[k].attempts < MaxAttempts /\ Sound(k[1])
    BY <1>1, <1>4, Publishes DEF Sends
  <1>5. CASE Accept(k) /\ ~Sound(k[1])
    <2>1. queue' = queue \cup {Message(k, rec[k].copies + 1)}
          /\ Message(k, rec[k].copies + 1).req = k[1]
      BY <1>5 DEF Accept, Message
    <2>2. k[1] \in Reqs
      OBVIOUS
    <2>3. {n \in queue' : Sound(n.req)'} = {n \in queue : Sound(n.req)}
      BY <1>2, <1>3, <1>5, <2>1, <2>2
    <2>4. QED BY <2>3 DEF Log
  <1>6. CASE queue' = queue
    BY <1>2, <1>3, <1>6 DEF Log
  <1>7. QED
    BY <1>4, <1>5, <1>6, RecorderStep DEF Prepares, Builds, Sends

(* The implementation: every behaviour of the request lifecycle is, seen     *)
(* through OwedMap, Log, Refused and AnsweredSet, one the contract allows.      *)
THEOREM KeepsRecordingContract == Spec => KeepsContract
  <1>1. TypeOK /\ IInv /\ [Next]_vars => [Contract!Next]_(Contract!cvars)
    <2> SUFFICES ASSUME TypeOK, IInv, [Next]_vars
                 PROVE  [Contract!Next]_(Contract!cvars)
      OBVIOUS
    <2> USE DEF Contract!Next, Contract!cvars, Contract!Publish, Contract!Refuse,
                Contract!Answer, Contract!Copies
    <2>1. ASSUME UNCHANGED <<OwedMap, Log, Refused, AnsweredSet>>
          PROVE  [Contract!Next]_(Contract!cvars)
      BY <2>1 DEF OwedMap, Log, Refused, AnsweredSet
    <2>2. ASSUME NEW r \in Reqs, Process(r)
          PROVE  [Contract!Next]_(Contract!cvars)
      <3>1. UNCHANGED <<OwedMap, Log, AnsweredSet>>
        BY <2>2, ProcessLog
      <3>2. CASE Refused' = Refused
        BY <2>1, <3>1, <3>2
      <3>3. CASE Refused' = Refused \cup {r} /\ NoRecorder(r) /\ ~out[r].flushed
        <4>1. r \notin AnsweredSet /\ \A e \in Log : e.req # r
          BY <3>3, NotInLog DEF AnsweredSet
        <4>2. Contract!Refuse(r)
          BY <3>1, <3>3, <4>1 DEF OwedMap, Log, Refused, AnsweredSet
        <4>3. QED BY <4>2
      <3>4. QED BY <2>2, <3>2, <3>3, ProcessRefused
    <2>3. ASSUME NEW r \in Reqs, Finish(r)
          PROVE  [Contract!Next]_(Contract!cvars)
      <3>1. UNCHANGED <<input, link, tally, queue>>
        BY <2>3 DEF Finish
      <3>2. UNCHANGED <<OwedMap, Log, Refused>>
        BY <3>1 DEF OwedMap, Owed, Log, Refused, Full, Sound, Shadow
      <3>3. AnsweredSet' = AnsweredSet \cup {r}
        <4>1. out'[r].flushed
          BY <2>3, FinishInv DEF Finish, TypeOK, OutStates, Written
        <4>2. \A s \in Reqs : s # r => out'[s] = out[s]
          BY <2>3 DEF Finish, TypeOK
        <4>3. QED BY <4>1, <4>2 DEF AnsweredSet
      <3>4. Contract!Answer(r)
        BY <3>2, <3>3 DEF OwedMap, Log, Refused, AnsweredSet
      <3>5. QED BY <3>4
    <2>4. ASSUME NEW r \in Reqs,
                 HeaderRace(r) \/ ClientSendsRest(r) \/ ClientLeaves(r)
          PROVE  [Contract!Next]_(Contract!cvars)
      <3>1. UNCHANGED <<input, out, tally, queue>>
        BY <2>4 DEF HeaderRace, ClientSendsRest, ClientLeaves
      <3>2. \A s \in Reqs : link'[s].cut = link[s].cut
        BY <2>4 DEF HeaderRace, ClientSendsRest, ClientLeaves, TypeOK, LinkStates
      <3>3. \A m \in queue : m.req \in Reqs
        BY DEF TypeOK, Messages
      <3>4. Log' = Log
        BY <3>1, <3>2, <3>3 DEF Log, Sound, Shadow
      <3>5. UNCHANGED <<OwedMap, Refused, AnsweredSet>>
        BY <3>1 DEF OwedMap, Owed, Refused, AnsweredSet, Full, Shadow
      <3>6. QED BY <2>1, <3>4, <3>5
    <2>5. ASSUME NEW k \in Reqs \X Passes, Record(k)
          PROVE  [Contract!Next]_(Contract!cvars)
      <3>1. UNCHANGED <<input, out, tally>>
        BY <2>5 DEF Record, SkipRecording, ReadTarget, ReadHeaders, StoreFiles, Enqueue, AttemptFails,
           EnqueueFails
      <3>2. UNCHANGED <<OwedMap, Refused, AnsweredSet>>
        BY <3>1 DEF OwedMap, Owed, Refused, AnsweredSet, Full, Shadow
      <3>3. CASE Log' = Log
        BY <2>1, <3>2, <3>3
      <3>4. ASSUME k[1] \notin Refused,
                   NEW b \in Owed(k[1]), NEW f \in Forms, NEW n \in 1..MaxAttempts,
                   \A e \in Log : e.req = k[1] =>
                     e.body = b /\ e.form = f /\ e.copy < n,
                   Log' = Log \cup {[req |-> k[1], body |-> b, form |-> f, copy |-> n]}
            PROVE  Contract!Publish(k[1])
        <4>1. k[1] \in Reqs /\ OwedMap[k[1]] = Owed(k[1])
          BY DEF OwedMap
        <4>2. \E b1 \in OwedMap[k[1]], f1 \in Forms, n1 \in 1..MaxAttempts :
                /\ \A e \in {m \in Log : m.req = k[1]} :
                     e.body = b1 /\ e.form = f1 /\ e.copy < n1
                /\ Log' = Log \cup {[req |-> k[1], body |-> b1, form |-> f1,
                                     copy |-> n1]}
          BY <3>4, <4>1
        <4>3. QED
          BY <3>2, <3>4, <4>2 DEF OwedMap, Log, Refused, AnsweredSet, Forms
      <3>5. k[1] \in Reqs
        OBVIOUS
      <3>6. CASE Contract!Publish(k[1])
        BY <3>5, <3>6 DEF Contract!Next
      <3>7. \/ Log' = Log
            \/ /\ k[1] \notin Refused
               /\ \E b \in Owed(k[1]), f \in Forms, n \in 1..MaxAttempts :
                    /\ \A e \in Log : e.req = k[1] =>
                         e.body = b /\ e.form = f /\ e.copy < n
                    /\ Log' = Log \cup {[req |-> k[1], body |-> b, form |-> f,
                                         copy |-> n]}
        BY <2>5, RecordLog
      <3>8. Log' = Log \/ Contract!Publish(k[1])
        <4> HIDE DEF Contract!Publish
        <4>1. QED BY <3>4, <3>7
      <3>9. QED
        <4> HIDE DEF Contract!Next, Contract!cvars, Contract!Publish
        <4>1. QED BY <3>3, <3>6, <3>8
    <2>6. CASE UNCHANGED vars
      BY <2>1, <2>6 DEF vars, OwedMap, Owed, Log, Refused, AnsweredSet, Full, Sound, Shadow
    <2>7. QED BY <2>2, <2>3, <2>4, <2>5, <2>6 DEF Next, Quiet
  <1>2. QED
    BY <1>1, ContractInit, TypeCorrect, Invariant, PTL
    DEF Spec, KeepsContract, Contract!Spec

-----------------------------------------------------------------------------
(* No goroutine goes in circles: the policy and the service are passed at    *)
(* most twice, the second time with the whole body, and a recorder is never  *)
(* started anew, neither by the second pass nor after a failed enqueue.      *)

StepsLeft(r) ==
  CASE pc[r] = "new" -> 9
    [] pc[r] \in {"read", "drained"} -> 8
    [] pc[r] = "policy" -> IF req[r].partial THEN 7 ELSE 3
    [] pc[r] = "scan" -> IF req[r].partial THEN 6 ELSE 2
    [] pc[r] = "continue" -> 5
    [] pc[r] = "rest" -> 4
    [] pc[r] = "reply" -> 1
    [] OTHER -> 0

RecorderStepsLeft(k) ==
  CASE rec[k].phase = "idle" -> MaxAttempts + 5
    [] rec[k].phase = "launched" -> MaxAttempts + 4
    [] rec[k].phase = "headers" -> MaxAttempts + 3
    [] rec[k].phase = "storing" -> MaxAttempts + 2
    [] rec[k].phase = "sending" -> MaxAttempts + 1 - rec[k].attempts
    [] OTHER -> 0

Advances(r) ==
  /\ StepsLeft(r)' <= StepsLeft(r)
  /\ Process(r) => StepsLeft(r)' < StepsLeft(r)

RecorderAdvances(k) ==
  /\ RecorderStepsLeft(k)' <= RecorderStepsLeft(k)
  /\ Record(k) => RecorderStepsLeft(k)' < RecorderStepsLeft(k)

LEMMA ProcessAdvances ==
  ASSUME TypeOK, IInv, NEW r \in Reqs, Process(r)
  PROVE  StepsLeft(r)' < StepsLeft(r)
  <1> USE DEF StepsLeft, Goto
  <1>1. pc \in [Reqs -> Phases] /\ req \in [Reqs -> ReqStates]
    BY DEF TypeOK
  <1>2. CASE Refuse(r) \/ ShadowAnswer(r) \/ Admit(r)
    <2>1. pc[r] = "new" /\ pc'[r] \in {"read", "drained", "end"}
      BY <1>1, <1>2 DEF Refuse, ShadowAnswer, Admit
    <2>2. QED BY <2>1
  <1>3. CASE OptionsMode(r)
    BY <1>1, <1>3 DEF OptionsMode
  <1>4. CASE ReadBody(r)
    <2>1. pc[r] \in {"read", "drained"} /\ pc'[r] = "policy"
      BY <1>1, <1>4 DEF ReadBody
    <2>2. QED BY <2>1
  <1>5. CASE FirstPass(r) \/ FlushPass(r)
    <2>1. PICK v \in Verdicts : Proceed(r, v)
      BY <1>5 DEF FirstPass, FlushPass
    <2>2. pc[r] = "policy" /\ pc'[r] \in {"scan", "end"}
      BY <1>1, <1>5, <2>1 DEF FirstPass, FlushPass, Proceed
    <2>3. req'[r].partial = req[r].partial
      BY <1>1, <1>5 DEF FirstPass, FlushPass, ReqStates
    <2>4. QED BY <2>2, <2>3
  <1>6. CASE SkipPolicy(r)
    <2>1. pc[r] = "policy" /\ pc'[r] = "scan" /\ req'[r].partial = req[r].partial
      BY <1>1, <1>6 DEF SkipPolicy, ReqStates
    <2>2. QED BY <2>1
  <1>7. CASE ScanPartial(r) \/ Scan(r) \/ ScanPanics(r)
    <2>1. /\ pc[r] = "scan"
          /\ pc'[r] \in IF req[r].partial THEN {"end", "continue"}
                        ELSE {"end", "reply", "panic"}
      BY <1>1, <1>7 DEF ScanPartial, Scan, ScanPanics
    <2>2. QED BY <2>1
  <1>8. CASE Continue(r)
    BY <1>1, <1>8 DEF Continue
  <1>9. CASE ReadRest(r)
    <2>1. pc[r] = "rest" /\ pc'[r] = "policy" /\ ~req'[r].partial
      BY <1>1, <1>9 DEF ReadRest, ReqStates
    <2>2. QED BY <2>1
  <1>10. CASE Reply(r)
    BY <1>1, <1>10 DEF Reply
  <1>11. QED
    BY <1>2, <1>3, <1>4, <1>5, <1>6, <1>7, <1>8, <1>9, <1>10 DEF Process

LEMMA StepsCounted ==
  ASSUME TypeOK, NEW k \in Reqs \X Passes
  PROVE  RecorderStepsLeft(k) \in 0..(MaxAttempts + 5)
  <1>1. rec[k].attempts \in 0..MaxAttempts
    BY DEF TypeOK, Recorders
  <1>2. QED BY <1>1, MaxAttemptsAssumption DEF RecorderStepsLeft

LEMMA RecordAdvances ==
  ASSUME TypeOK, NEW k \in Reqs \X Passes, Record(k)
  PROVE  RecorderStepsLeft(k)' < RecorderStepsLeft(k)
  <1>1. rec[k].attempts \in 0..MaxAttempts
    BY DEF TypeOK, Recorders
  <1>2. CASE Prepares(k)
    BY <1>2, MaxAttemptsAssumption DEF Prepares, RecorderStepsLeft
  <1>3. CASE Builds(k)
    <2>1. /\ rec[k].phase = "storing" /\ rec'[k].phase = "sending"
          /\ rec'[k].attempts = 0
      BY <1>3 DEF Builds
    <2>2. /\ RecorderStepsLeft(k) = MaxAttempts + 2
          /\ RecorderStepsLeft(k)' = MaxAttempts + 1
      BY <2>1, MaxAttemptsAssumption DEF RecorderStepsLeft
    <2>3. QED BY <2>2, MaxAttemptsAssumption
  <1>4. CASE Sends(k)
    <2>1. rec[k].phase = "sending"
      BY <1>4 DEF Sends
    <2>2. RecorderStepsLeft(k) = MaxAttempts + 1 - rec[k].attempts
      BY <2>1 DEF RecorderStepsLeft
    <2>3. CASE rec'[k].phase = "sending"
      <3>1. RecorderStepsLeft(k)' = MaxAttempts + 1 - rec'[k].attempts
        BY <2>3 DEF RecorderStepsLeft
      <3>2. rec'[k].attempts = rec[k].attempts + 1
        BY <1>4, <2>3 DEF Sends
      <3>3. QED BY <1>1, <2>2, <3>1, <3>2, MaxAttemptsAssumption
    <2>4. CASE rec'[k].phase \in {"sent", "dropped"}
      <3>1. RecorderStepsLeft(k)' = 0
        BY <2>4 DEF RecorderStepsLeft
      <3>2. QED BY <1>1, <2>2, <3>1, MaxAttemptsAssumption
    <2>5. QED BY <1>4, <2>3, <2>4 DEF Sends
  <1>5. QED BY <1>2, <1>3, <1>4, RecorderStep

(* A transaction is processed in at most nine steps, and a recorder in four  *)
(* and one for every attempt of the SDK, whatever fails and whatever the     *)
(* others do: RespAndReqMods and processRecordAction retry nothing.          *)
THEOREM GoesForward ==
  Spec => [][/\ \A r \in Reqs : Advances(r)
             /\ \A k \in Reqs \X Passes : RecorderAdvances(k)]_vars
  <1>1. TypeOK /\ IInv /\ [Next]_vars =>
          [/\ \A r \in Reqs : Advances(r)
           /\ \A k \in Reqs \X Passes : RecorderAdvances(k)]_vars
    <2> SUFFICES ASSUME TypeOK, IInv, [Next]_vars
                 PROVE  /\ \A r \in Reqs : Advances(r)
                        /\ \A k \in Reqs \X Passes : RecorderAdvances(k)
      OBVIOUS
    <2>1. \A r \in Reqs : StepsLeft(r) \in Nat
      BY DEF StepsLeft
    <2>2. \A k \in Reqs \X Passes : RecorderStepsLeft(k) \in Nat
      BY StepsCounted, MaxAttemptsAssumption
    <2>3. ASSUME NEW r \in Reqs, pc'[r] = pc[r], req'[r] = req[r]
          PROVE  StepsLeft(r)' = StepsLeft(r)
      BY <2>3 DEF StepsLeft
    <2>4. ASSUME NEW k \in Reqs \X Passes, rec'[k] = rec[k]
          PROVE  RecorderStepsLeft(k)' = RecorderStepsLeft(k)
      BY <2>4 DEF RecorderStepsLeft
    <2>5. ASSUME NEW r \in Reqs PROVE StepsLeft(r)' <= StepsLeft(r)
      <3>1. CASE Process(r)
        <4>1. StepsLeft(r)' < StepsLeft(r) /\ StepsLeft(r) \in Nat
          BY <2>1, <3>1, ProcessAdvances
        <4>2. StepsLeft(r)' \in Nat
          BY DEF StepsLeft
        <4>3. QED BY <4>1, <4>2
      <3>2. ASSUME NEW s \in Reqs, Process(s), s # r
            PROVE  pc'[r] = pc[r] /\ req'[r] = req[r]
        BY <3>2, ProcessFrame DEF Untouched
      <3>3. ASSUME ~\E s \in Reqs : Process(s)
            PROVE  pc'[r] = pc[r] /\ req'[r] = req[r]
        BY <3>3 DEF Next, Quiet, vars, Finish, HeaderRace, ClientSendsRest,
                    ClientLeaves, Record, SkipRecording, ReadTarget, ReadHeaders,
                    StoreFiles, Enqueue, AttemptFails, EnqueueFails
      <3>4. pc'[r] = pc[r] /\ req'[r] = req[r] => StepsLeft(r)' <= StepsLeft(r)
        BY <2>1, <2>3
      <3>5. QED BY <3>1, <3>2, <3>3, <3>4
    <2>6. ASSUME NEW k \in Reqs \X Passes
          PROVE  RecorderStepsLeft(k)' <= RecorderStepsLeft(k)
      <3>1. /\ RecorderStepsLeft(k) \in 0..(MaxAttempts + 5)
            /\ RecorderStepsLeft(k)' \in 0..(MaxAttempts + 5)
        <4>1. TypeOK'
          BY TypeStep
        <4>2. rec'[k].attempts \in 0..MaxAttempts
          BY <4>1 DEF TypeOK, Recorders
        <4>3. RecorderStepsLeft(k)' \in 0..(MaxAttempts + 5)
          BY <4>2, MaxAttemptsAssumption DEF RecorderStepsLeft
        <4>4. QED BY <4>3, StepsCounted
      <3>2. CASE rec[k].phase = "idle"
        <4>1. RecorderStepsLeft(k) = MaxAttempts + 5
          BY <3>2 DEF RecorderStepsLeft
        <4>2. QED BY <3>1, <4>1, MaxAttemptsAssumption
      <3>3. CASE rec'[k] = rec[k]
        BY <2>2, <2>4, <3>3
      <3>4. CASE Record(k)
        BY <2>2, <3>1, <3>4, RecordAdvances, MaxAttemptsAssumption
      <3>5. ASSUME NEW l \in Reqs \X Passes, Record(l), l # k PROVE rec'[k] = rec[k]
        BY <3>5, RecorderStep
      <3>6. ASSUME NEW s \in Reqs, Process(s), rec[k].phase # "idle"
            PROVE  rec'[k] = rec[k]
        BY <3>6, ProcessRecorders DEF IInv, Inv
      <3>7. ASSUME ~\E l \in Reqs \X Passes : Record(l), ~\E s \in Reqs : Process(s)
            PROVE  rec'[k] = rec[k]
        BY <3>7 DEF Next, Quiet, vars, Finish, HeaderRace, ClientSendsRest, ClientLeaves
      <3>8. QED BY <3>2, <3>3, <3>4, <3>5, <3>6, <3>7
    <2>7. QED
      BY <2>5, <2>6, ProcessAdvances, RecordAdvances DEF Advances, RecorderAdvances
  <1>2. QED BY <1>1, TypeCorrect, Invariant, PTL DEF Spec
=============================================================================
