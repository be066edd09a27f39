-------------------------- MODULE ScanService_proofs --------------------------
(* Type correctness and the safety properties of ScanService, and that it  *)
(* implements ServiceContract, for every set of calls, services and        *)
(* configurations.                                                         *)
(*                                                                         *)
(* A call shares nothing with other calls but the loaded sections, which   *)
(* stay once they are there; so the invariant is one of each call.         *)
EXTENDS ScanService, FiniteSetTheorems, TLAPS

-----------------------------------------------------------------------------
(* The lists of a section that config.Init lets through decide as the      *)
(* README promises, whatever the extension and in whatever order they are  *)
(* written.                                                                *)

LEMMA AsteriskAlone ==
  ASSUME NEW lists \in ListsOfSections, ValidLists(lists), NEW l \in Lists
  PROVE  CatchAll(lists[l]) <=> Listed(Any, lists[l])
<1>1. lists[l] \in Seq(Extensions) BY DEF ListsOfSections
<1>2. ASSUME CatchAll(lists[l]) PROVE Listed(Any, lists[l])
  BY <1>1, <1>2 DEF CatchAll, Listed
<1>3. ASSUME Listed(Any, lists[l]) PROVE CatchAll(lists[l])
  BY <1>1, <1>3 DEF CatchAll, Listed, ValidLists
<1> QED BY <1>2, <1>3

LEMMA OneCatchAll ==
  ASSUME NEW lists \in ListsOfSections, ValidLists(lists)
  PROVE  \E l \in Lists : \A k \in Lists : CatchAll(lists[k]) <=> k = l
<1>1. PICK l \in Lists : \A k \in Lists : Listed(Any, lists[k]) <=> k = l
  BY DEF ValidLists
<1> QED BY <1>1, AsteriskAlone

(* An extension that stands in one list stands in no other.                *)
LEMMA ListedOnce ==
  ASSUME NEW lists \in ListsOfSections, ValidLists(lists), NEW ext,
         NEW l \in Lists, NEW k \in Lists,
         Listed(ext, lists[l]), Listed(ext, lists[k])
  PROVE  l = k
<1>1. PICK i \in DOMAIN lists[l] : lists[l][i] = ext BY DEF Listed
<1>2. PICK j \in DOMAIN lists[k] : lists[k][j] = ext BY DEF Listed
<1> QED BY <1>1, <1>2 DEF ValidLists

(* The list of the README is determined: the one that names the extension, *)
(* or the catch-all.                                                       *)
LEMMA PromisedIs ==
  ASSUME NEW lists \in ListsOfSections, ValidLists(lists), NEW ext \in Extensions,
         NEW l \in Lists,
         \/ Listed(ext, lists[l])
         \/ CatchAll(lists[l]) /\ \A k \in Lists : ~Listed(ext, lists[k])
  PROVE  Promised(ext, lists) = l
<1> DEFINE P(m) == \/ Listed(ext, lists[m])
                   \/ CatchAll(lists[m]) /\ \A k \in Lists : ~Listed(ext, lists[k])
<1>1. P(l) OBVIOUS
<1>2. PICK o \in Lists : \A k \in Lists : CatchAll(lists[k]) <=> k = o
  BY OneCatchAll
<1>3. ASSUME NEW m \in Lists, P(m) PROVE m = l
  <2>1. CASE Listed(ext, lists[m]) BY <2>1, <1>1, ListedOnce
  <2>2. CASE ~Listed(ext, lists[m]) BY <2>2, <1>1, <1>2, <1>3
  <2> QED BY <2>1, <2>2
<1>4. Promised(ext, lists) = CHOOSE m \in Lists : P(m) BY DEF Promised
<1> HIDE DEF P
<1> QED BY <1>1, <1>3, <1>4

(* The order of the lists: each comes once, and the catch-all last. *)
LEMMA CatchAllLast ==
  ASSUME NEW lists \in ListsOfSections, ValidLists(lists)
  PROVE  /\ InitExtsArr(lists) \in Seq(Lists)
         /\ Len(InitExtsArr(lists)) = 3
         /\ \A l \in Lists : \E i \in 1..3 : InitExtsArr(lists)[i] = l
         /\ CatchAll(lists[InitExtsArr(lists)[3]])
         /\ ~CatchAll(lists[InitExtsArr(lists)[1]])
         /\ ~CatchAll(lists[InitExtsArr(lists)[2]])
<1>1. PICK o \in Lists : \A k \in Lists : CatchAll(lists[k]) <=> k = o
  BY OneCatchAll
<1>2. CASE o = "process"
  <2>1. InitExtsArr(lists) = <<"reject", "bypass", "process">>
    BY <1>1, <1>2 DEF InitExtsArr, Lists
  <2> QED BY <2>1, <1>1, <1>2, SMTT(30) DEF Lists
<1>3. CASE o = "reject"
  <2>1. InitExtsArr(lists) = <<"process", "bypass", "reject">>
    BY <1>1, <1>3 DEF InitExtsArr, Lists
  <2> QED BY <2>1, <1>1, <1>3, SMTT(30) DEF Lists
<1>4. CASE o = "bypass"
  <2>1. InitExtsArr(lists) = <<"process", "reject", "bypass">>
    BY <1>1, <1>4 DEF InitExtsArr, Lists
  <2> QED BY <2>1, <1>1, <1>4, SMTT(30) DEF Lists
<1> QED BY <1>2, <1>3, <1>4 DEF Lists

(* Stopping at the first list that takes the file finds the promised one:  *)
(* that only the last of them is a catch-all is what config.Init and       *)
(* InitExtsArr are for.                                                    *)
THEOREM DecidesAsPromised ==
  ASSUME NEW lists \in ListsOfSections, ValidLists(lists), NEW ext \in Extensions
  PROVE  CheckTheExtension(ext, lists) = Promised(ext, lists)
<1> DEFINE order == InitExtsArr(lists)
           takes(i) == ifFileExtIsX(ext, lists[order[i]])
<1>1. /\ order[1] \in Lists /\ order[2] \in Lists /\ order[3] \in Lists
      /\ \A l \in Lists : \E i \in 1..3 : order[i] = l
      /\ CatchAll(lists[order[3]])
      /\ ~CatchAll(lists[order[1]]) /\ ~CatchAll(lists[order[2]])
  BY CatchAllLast
<1>2. /\ takes(1) <=> Listed(ext, lists[order[1]])
      /\ takes(2) <=> Listed(ext, lists[order[2]])
      /\ takes(3)
  BY <1>1 DEF ifFileExtIsX
<1>3. CheckTheExtension(ext, lists) =
        CASE takes(1) -> order[1]
          [] ~takes(1) /\ takes(2) -> order[2]
          [] ~takes(1) /\ ~takes(2) /\ takes(3) -> order[3]
          [] OTHER -> "process"
  BY DEF CheckTheExtension
<1> HIDE DEF order, takes
<1>4. CASE takes(1) BY <1>1, <1>2, <1>3, <1>4, PromisedIs
<1>5. CASE ~takes(1) /\ takes(2) BY <1>1, <1>2, <1>3, <1>5, PromisedIs
<1>6. CASE ~takes(1) /\ ~takes(2)
  <2>1. CheckTheExtension(ext, lists) = order[3] BY <1>2, <1>3, <1>6
  <2>2. CASE Listed(ext, lists[order[3]]) BY <2>1, <2>2, <1>1, PromisedIs
  <2>3. CASE ~Listed(ext, lists[order[3]])
    <3>1. ASSUME NEW k \in Lists PROVE ~Listed(ext, lists[k])
      <4>1. k = order[1] \/ k = order[2] \/ k = order[3] BY <1>1
      <4> QED BY <4>1, <1>2, <1>6, <2>3
    <3> QED BY <2>1, <3>1, <1>1, PromisedIs
  <2> QED BY <2>2, <2>3
<1> QED BY <1>4, <1>5, <1>6

-----------------------------------------------------------------------------
(* Taking the file out of a body and putting it back: the result is a      *)
(* body, and the same one if the body is canonical.                        *)

(* A set of parts has a first one: the intervals that end in it are        *)
(* well-founded by inclusion.                                              *)
LEMMA FirstIn ==
  ASSUME NEW S \in SUBSET Nat, S # {}
  PROVE  First(S) \in S /\ \A j \in S : First(S) <= j
<1> DEFINE T == {0..i : i \in S}
<1>1. T \subseteq FiniteSubsetsOf(Nat)
  <2> SUFFICES ASSUME NEW i \in S PROVE 0..i \in FiniteSubsetsOf(Nat) OBVIOUS
  <2>1. IsFiniteSet(0..i) BY FS_Interval
  <2> QED BY <2>1 DEF FiniteSubsetsOf
<1>2. PICK t \in T : \A u \in T : <<u, t>> \notin StrictSubsetOrdering(Nat)
  <2>1. T # {} OBVIOUS
  <2>2. IsWellFoundedOn(StrictSubsetOrdering(Nat), FiniteSubsetsOf(Nat))
    BY FS_StrictSubsetOrderingWellFounded
  <2> HIDE DEF T
  <2> QED BY <1>1, <2>1, <2>2, WFMin
<1>3. PICK x \in S : t = 0..x OBVIOUS
<1>4. ASSUME NEW y \in S PROVE x <= y
  <2> SUFFICES ASSUME y < x PROVE FALSE OBVIOUS
  <2>1. 0..y \in SUBSET Nat /\ 0..x \in SUBSET Nat /\ 0..y \subseteq 0..x
    OBVIOUS
  <2>2. x \in 0..x /\ x \notin 0..y OBVIOUS
  <2>3. <<0..y, 0..x>> \in StrictSubsetOrdering(Nat)
    BY <2>1, <2>2 DEF StrictSubsetOrdering
  <2> QED BY <2>3, <1>2, <1>3
<1> QED BY <1>4 DEF First

(* The file of a form is one of its parts, or nothing. *)
LEMMA TheFileType ==
  ASSUME NEW b \in Bodies
  PROVE  TheFile(b).payload \in Payloads
<1>1. b.parts \in Seq(Parts) /\ DOMAIN b.parts \in SUBSET Nat BY DEF Bodies
<1>2. CASE FileParts(b) = {} BY <1>2, PayloadsAssumption DEF TheFile
<1>3. CASE FileParts(b) # {}
  <2>1. First(FileParts(b)) \in DOMAIN b.parts
    <3>1. FileParts(b) \in SUBSET Nat BY <1>1 DEF FileParts
    <3>2. First(FileParts(b)) \in FileParts(b) BY <3>1, <1>3, FirstIn
    <3> QED BY <3>2 DEF FileParts
  <2>2. b.parts[First(FileParts(b))] \in Parts BY <2>1, <1>1
  <2>3. b.parts[First(FileParts(b))].payload \in Payloads BY <2>2 DEF Parts
  <2> QED BY <2>3, <1>3 DEF TheFile
<1> QED BY <1>2, <1>3

LEMMA FileType ==
  ASSUME NEW b \in Bodies
  PROVE  GetFileFromRequest(b) \in Payloads
<1>1. b.payload \in Payloads BY DEF Bodies
<1> QED BY <1>1, TheFileType DEF GetFileFromRequest

LEMMA RebuiltType ==
  ASSUME NEW b \in Bodies, NEW payload \in Payloads
  PROVE  Rebuilt(b, payload) \in Bodies
<1> DEFINE part(i) ==
      [field |-> b.parts[i].field, file |-> b.parts[i].file, bare |-> TRUE,
       payload |-> IF i \in Replaced(b) /\ i = First(Replaced(b))
                   THEN payload ELSE b.parts[i].payload]
           parts == [i \in DOMAIN b.parts |-> part(i)]
<1>1. b.parts \in Seq(Parts) BY DEF Bodies
<1>2. ASSUME NEW i \in DOMAIN b.parts PROVE part(i) \in Parts
  <2>1. b.parts[i] \in Parts BY <1>1
  <2> QED BY <2>1 DEF Parts
<1> HIDE DEF part
<1>3. parts \in Seq(Parts)
  <2>1. DOMAIN b.parts = 1..Len(b.parts) /\ Len(b.parts) \in Nat BY <1>1
  <2> QED BY <2>1, <1>2
<1>4. Rebuilt(b, payload) = [b EXCEPT !.exact = TRUE, !.parts = parts]
  BY DEF Rebuilt, part
<1> HIDE DEF parts
<1> QED BY <1>3, <1>4 DEF Bodies

LEMMA BodyType ==
  ASSUME NEW b \in Bodies, NEW payload \in Payloads
  PROVE  BodyAfterScanning(b, payload) \in Bodies
<1>1. [b EXCEPT !.payload = payload] \in Bodies BY DEF Bodies
<1>2. [b EXCEPT !.payload = payload, !.exact = TRUE] \in Bodies BY DEF Bodies
<1>3. CASE GetContentType(b) = "MultipartForm"
  BY <1>3, RebuiltType DEF BodyAfterScanning
<1>4. CASE GetContentType(b) # "MultipartForm"
  <2>1. CASE GetContentType(b) = "EncodedFile" \/ b.base64
    BY <2>1, <1>4, <1>2 DEF BodyAfterScanning, GetContentType
  <2>2. CASE ~(GetContentType(b) = "EncodedFile" \/ b.base64)
    BY <2>2, <1>4, <1>1 DEF BodyAfterScanning, GetContentType
  <2> QED BY <2>1, <2>2
<1> QED BY <1>3, <1>4

(* The part that is replaced is the one the file was taken from, or there  *)
(* is none to be replaced.                                                 *)
LEMMA PutBackWhereTaken ==
  ASSUME NEW b \in Bodies, Canonical(b), NEW i \in DOMAIN b.parts,
         i \in Replaced(b), i = First(Replaced(b))
  PROVE  b.parts[i].payload = TheFile(b).payload
<1>1. b.parts \in Seq(Parts) /\ DOMAIN b.parts \in SUBSET Nat BY DEF Bodies
<1>2. CASE FileParts(b) = {}
  <2>1. b.parts[i].field = "" BY <1>2 DEF Replaced, TheFile
  <2> QED BY <2>1, <1>2 DEF Canonical
<1>3. CASE FileParts(b) # {}
  <2> DEFINE k == First(FileParts(b))
  <2>1. FileParts(b) \in SUBSET Nat /\ Replaced(b) \in SUBSET Nat
    BY <1>1 DEF FileParts, Replaced
  <2>2. k \in FileParts(b) /\ \A j \in FileParts(b) : k <= j
    BY <2>1, <1>3, FirstIn
  <2>3. TheFile(b) = [field |-> b.parts[k].field, file |-> b.parts[k].file,
                      payload |-> b.parts[k].payload]
    BY <1>3 DEF TheFile
  <2> HIDE DEF k
  <2>4. TheFile(b).field = b.parts[k].field /\ TheFile(b).file = b.parts[k].file
    BY <2>3
  <2>5. k \in Replaced(b) BY <2>2, <2>4 DEF Replaced, FileParts
  <2>6. \A j \in Replaced(b) : i <= j BY <2>1, <2>5, FirstIn
  <2>7. i \in FileParts(b) BY <2>2, <2>4 DEF Replaced, FileParts
  <2>8. i = k BY <2>1, <2>2, <2>5, <2>6, <2>7
  <2> QED BY <2>8, <2>3
<1> QED BY <1>2, <1>3

(* A canonical body from which a file is taken and put back is the same:   *)
(* what echo does to a request loses nothing but what Canonical names.     *)
THEOREM RoundTrip ==
  ASSUME NEW b \in Bodies, Canonical(b)
  PROVE  BodyAfterScanning(b, GetFileFromRequest(b)) = b
<1>1. CASE GetContentType(b) # "MultipartForm"
  <2>1. GetFileFromRequest(b) = b.payload BY <1>1 DEF GetFileFromRequest
  <2>2. b.exact = TRUE BY DEF Canonical, Bodies
  <2>3. [b EXCEPT !.payload = b.payload] = b BY DEF Bodies
  <2>4. [b EXCEPT !.payload = b.payload, !.exact = TRUE] = b BY <2>2 DEF Bodies
  <2>5. CASE GetContentType(b) = "EncodedFile" \/ b.base64
    BY <2>5, <2>1, <2>4, <1>1 DEF BodyAfterScanning, GetContentType
  <2>6. CASE ~(GetContentType(b) = "EncodedFile" \/ b.base64)
    BY <2>6, <2>1, <2>3, <1>1 DEF BodyAfterScanning
  <2> QED BY <2>5, <2>6
<1>2. CASE GetContentType(b) = "MultipartForm"
  <2> DEFINE file == TheFile(b).payload
             part(i) ==
               [field |-> b.parts[i].field, file |-> b.parts[i].file,
                bare |-> TRUE,
                payload |-> IF i \in Replaced(b) /\ i = First(Replaced(b))
                            THEN file ELSE b.parts[i].payload]
  <2>1. b.parts \in Seq(Parts) BY DEF Bodies
  <2>2. ASSUME NEW i \in DOMAIN b.parts PROVE part(i) = b.parts[i]
    <3>1. b.parts[i] \in Parts BY <2>1
    <3>2. b.parts[i].bare = TRUE BY <3>1 DEF Canonical, Parts
    <3>3. b.parts[i] = [field |-> b.parts[i].field, file |-> b.parts[i].file,
                        bare |-> TRUE, payload |-> b.parts[i].payload]
      BY <3>1, <3>2 DEF Parts
    <3>4. CASE i \in Replaced(b) /\ i = First(Replaced(b))
      <4>1. file = b.parts[i].payload BY <3>4, PutBackWhereTaken
      <4> QED BY <4>1, <3>3
    <3>5. CASE ~(i \in Replaced(b) /\ i = First(Replaced(b)))
      BY <3>5, <3>3
    <3> QED BY <3>4, <3>5
  <2> HIDE DEF part
  <2>3. [i \in DOMAIN b.parts |-> part(i)] = b.parts
    <3>1. b.parts = [i \in DOMAIN b.parts |-> b.parts[i]] BY <2>1
    <3> QED BY <3>1, <2>2, Zenon
  <2>4. Rebuilt(b, file)
          = [b EXCEPT !.exact = TRUE, !.parts = [i \in DOMAIN b.parts |-> part(i)]]
    BY DEF Rebuilt, part
  <2>5. b.exact = TRUE BY DEF Canonical, Bodies
  <2>6. [b EXCEPT !.exact = TRUE, !.parts = b.parts] = b BY <2>5 DEF Bodies
  <2>7. BodyAfterScanning(b, GetFileFromRequest(b)) = Rebuilt(b, file)
    <3>1. GetFileFromRequest(b) = file BY <1>2 DEF GetFileFromRequest
    <3> QED BY <3>1, <1>2 DEF BodyAfterScanning
  <2> HIDE DEF file
  <2> QED BY <2>3, <2>4, <2>6, <2>7, Zenon
<1> QED BY <1>1, <1>2

-----------------------------------------------------------------------------
(* A call of a service.                                                    *)

(* Nothing has come of the call yet. *)
Unanswered(c) ==
  reply[c].outcome = "none" /\ c \notin rewritten /\ answer[c] = "none"

Ready(c) == Vendor(c) # "unknown" /\ loaded[Vendor(c)] # NotLoaded

(* The scanner is to see the file. *)
Due(c) ==
  ~Ranged(c) /\ ~Connects(c) /\ ListOf(c) = "process" /\ ~TooLarge(c)

(* What PolicyRespected, VerdictHonoured and PassesUnchanged say of a call *)
(* that returns outcome o and body b after answer a of a lookup.           *)
Policy(c, o, a) ==
  Ranged(c) \/ Connects(c) \/
    /\ ListOf(c) = "reject" =>
         a = "none" /\ scan[c].chan = "none" /\ o \in {"bad", "block"}
    /\ ListOf(c) = "bypass" => a = "none" /\ scan[c].chan = "none" /\ o = "nomod"
    /\ ListOf(c) = "process" /\ o = "nomod" =>
         \/ a # "none" \/ scan[c].chan # "none"
         \/ TooLarge(c) /\ Conf(c).original

Verdict(c, o, a) ==
  /\ scan[c].chan # "none" =>
       o = IF scan[c].result = "FOUND" THEN "block" ELSE "nomod"
  /\ a # "none" =>
       /\ a = "malicious" <=> o = "block"
       /\ a \in {"failed", "late"} /\ ~Conf(c).lenient => o \in {"bad", "timeout"}

Unchanged(c, o, b) ==
  /\ o = "nomod" => b = job[c].body
  /\ o = "modified" /\ Canonical(job[c].body) => b = job[c].body

Fine(c, o, b, a) ==
  /\ Policy(c, o, a)
  /\ Verdict(c, o, a)
  /\ Unchanged(c, o, b)
  /\ scan[c].chan \in {"none", "closed"}

CallInv(c) ==
  /\ pc[c] # "done" => Unanswered(c)
  /\ pc[c] \in {"new", "begun", "lookup", "send"} => scan[c].chan = "none"
  /\ pc[c] \in {"begun", "lookup", "send", "wait", "done"} => Ready(c)
  /\ pc[c] \in {"lookup", "send", "wait"} => Due(c)
  /\ pc[c] = "wait" => scan[c].chan # "none"
  /\ pc[c] = "done" => Fine(c, reply[c].outcome, reply[c].body, answer[c])
  /\ scan[c].finished <=> scan[c].chan = "closed"

IInv ==
  /\ TypeOK
  /\ \A s \in Services : Accepted(settings[s])
  /\ loaded["unknown"] = NotLoaded
  /\ \A c \in Calls : CallInv(c)

(* The call returns.  (Some actions leave a, or the body, as it was.) *)
Returning(c, o, b, a) ==
  /\ pc[c] \in {"begun", "lookup", "send", "wait"}
  /\ o \in Outcomes /\ b \in Bodies /\ a \in Answers
  /\ o = "range" => ~Reqmod(c)
  /\ Return(c, o, b)
  /\ rewritten' = IF o = "block" /\ Reqmod(c) THEN rewritten \cup {c} ELSE rewritten
  /\ answer' = [answer EXCEPT ![c] = a]
  /\ UNCHANGED <<inputs, loaded, scan>>

-----------------------------------------------------------------------------
(* What follows from the types.                                            *)

LEMMA JobType ==
  ASSUME TypeOK, NEW c \in Calls
  PROVE  /\ job[c] \in Job /\ WellFormedJob(job[c])
         /\ job[c].service \in Services /\ Vendor(c) \in Vendors
         /\ job[c].body \in Bodies /\ job[c].marks \in Marks
<1>1. job[c] \in Jobs BY DEF TypeOK
<1>2. job[c] \in Job /\ WellFormedJob(job[c]) BY <1>1, JobsAssumption
<1>3. job[c].service \in Services /\ job[c].body \in Bodies /\ job[c].marks \in Marks
  BY <1>2 DEF Job
<1> QED BY <1>2, <1>3, ServicesAssumption DEF Vendor

LEMMA NoBodyType == NoBody \in Bodies
<1>1. <<>> \in Seq(Parts) OBVIOUS
<1> QED BY <1>1, PayloadsAssumption DEF NoBody, Bodies

LEMMA EchoedType ==
  ASSUME TypeOK, NEW c \in Calls
  PROVE  /\ ReturningHttpMessage(c) \in Bodies
         /\ Canonical(job[c].body) => ReturningHttpMessage(c) = job[c].body
<1>1. job[c].body \in Bodies BY JobType
<1>2. CASE Reqmod(c)
  <2>1. ReturningHttpMessage(c)
          = BodyAfterScanning(job[c].body, GetFileFromRequest(job[c].body))
    BY <1>2 DEF ReturningHttpMessage, File
  <2> QED BY <2>1, <1>1, FileType, BodyType, RoundTrip
<1>3. CASE ~Reqmod(c) BY <1>1, <1>3 DEF ReturningHttpMessage
<1> QED BY <1>2, <1>3

LEMMA ExtensionType ==
  ASSUME TypeOK, NEW c \in Calls
  PROVE  Extension(c) \in Extensions
<1>1. job[c].marks \in Marks BY JobType
<1> DEFINE m == job[c].marks
<1>2. /\ m.magic \in Extensions \cup {NoExtension}
      /\ m.mime \in Extensions \cup {NoExtension}
      /\ m.suffix \in Extensions \cup {NoExtension}
  BY <1>1 DEF Marks
<1>3. Extension(c) = GetMimeExtension(m) BY DEF Extension
<1> HIDE DEF m
<1>4. CASE m.magic # NoExtension
  BY <1>2, <1>3, <1>4, ExtensionsAssumption DEF GetMimeExtension
<1>5. CASE m.magic = NoExtension /\ m.mime # NoExtension
  BY <1>2, <1>3, <1>5, ExtensionsAssumption DEF GetMimeExtension
<1>6. CASE m.magic = NoExtension /\ m.mime = NoExtension /\ m.suffix # NoExtension
  BY <1>2, <1>3, <1>6, ExtensionsAssumption DEF GetMimeExtension
<1>7. CASE m.magic = NoExtension /\ m.mime = NoExtension /\ m.suffix = NoExtension
  BY <1>2, <1>3, <1>7, ExtensionsAssumption DEF GetMimeExtension
<1> QED BY <1>4, <1>5, <1>6, <1>7

(* A call that goes by a section goes by its lists as the README says. *)
LEMMA ListIsPromised ==
  ASSUME IInv, NEW c \in Calls, Ready(c)
  PROVE  Promised(Extension(c), Conf(c).exts) = ListOf(c)
<1>1. loaded[Vendor(c)] \in Services BY JobType DEF IInv, TypeOK, Ready
<1>2. settings[loaded[Vendor(c)]] \in Sections
  BY <1>1, ConfigurationsAssumption DEF IInv, TypeOK
<1>3. Conf(c).exts \in ListsOfSections BY <1>2 DEF Conf, Sections
<1>4. ValidLists(Conf(c).exts) BY <1>1 DEF IInv, Accepted, Conf
<1>5. Extension(c) \in Extensions BY ExtensionType DEF IInv
<1> QED BY <1>3, <1>4, <1>5, DecidesAsPromised DEF ListOf

LEMMA OutcomeOfList ==
  ASSUME NEW ext, NEW lists
  PROVE  CheckTheExtension(ext, lists) \in Lists
<1> DEFINE order == InitExtsArr(lists)
<1>1. order[1] \in Lists /\ order[2] \in Lists /\ order[3] \in Lists
  BY DEF InitExtsArr, Lists
<1> QED BY <1>1 DEF CheckTheExtension, Lists
-----------------------------------------------------------------------------
(* What a call goes by does not change once it is under way.               *)

LEMMA Static ==
  ASSUME UNCHANGED inputs, NEW c \in Calls,
         loaded'[Vendor(c)] = loaded[Vendor(c)]
  PROVE  /\ Vendor(c)' = Vendor(c) /\ Conf(c)' = Conf(c) /\ Reqmod(c)' = Reqmod(c)
         /\ Ranged(c)' = Ranged(c) /\ Connects(c)' = Connects(c)
         /\ ListOf(c)' = ListOf(c) /\ TooLarge(c)' = TooLarge(c)
         /\ job'[c] = job[c]
<1>1. job' = job /\ settings' = settings BY DEF inputs
<1>2. Vendor(c)' = Vendor(c) BY <1>1 DEF Vendor
<1>3. Conf(c)' = Conf(c) BY <1>1, <1>2 DEF Conf
<1>4. Reqmod(c)' = Reqmod(c) BY <1>1 DEF Reqmod
<1>5. Ranged(c)' = Ranged(c) /\ Connects(c)' = Connects(c)
  BY <1>1, <1>2, <1>4 DEF Ranged, Connects
<1>6. ListOf(c)' = ListOf(c) BY <1>1, <1>3 DEF ListOf, Extension
<1>7. File(c)' = File(c) BY <1>1, <1>4 DEF File
<1>8. TooLarge(c)' = TooLarge(c) BY <1>3, <1>7 DEF TooLarge
<1> QED BY <1>1, <1>2, <1>3, <1>4, <1>5, <1>6, <1>8

(* Whatever others do, a call keeps its invariant while its own state, and *)
(* the section it goes by, stay.                                           *)
LEMMA Frame ==
  ASSUME UNCHANGED inputs, NEW c \in Calls, CallInv(c),
         pc'[c] = pc[c], reply'[c] = reply[c], answer'[c] = answer[c],
         scan'[c] = scan[c], c \in rewritten' <=> c \in rewritten,
         pc[c] # "new" => loaded'[Vendor(c)] = loaded[Vendor(c)]
  PROVE  CallInv(c)'
<1>1. CASE pc[c] = "new"
  <2>1. Unanswered(c)' BY <1>1 DEF CallInv, Unanswered
  <2> QED BY <1>1, <2>1 DEF CallInv, Unanswered
<1>2. CASE pc[c] # "new"
  <2>1. /\ Vendor(c)' = Vendor(c) /\ Conf(c)' = Conf(c) /\ Reqmod(c)' = Reqmod(c)
        /\ Ranged(c)' = Ranged(c) /\ Connects(c)' = Connects(c)
        /\ ListOf(c)' = ListOf(c) /\ TooLarge(c)' = TooLarge(c)
        /\ job'[c] = job[c]
    BY <1>2, Static
  <2>2. /\ Ready(c)' <=> Ready(c)
        /\ Due(c)' <=> Due(c)
        /\ Unanswered(c)' <=> Unanswered(c)
    BY <1>2, <2>1 DEF Ready, Due, Unanswered
  <2>3. Policy(c, reply[c].outcome, answer[c])'
          <=> Policy(c, reply[c].outcome, answer[c])
    BY <2>1 DEF Policy
  <2>4. Verdict(c, reply[c].outcome, answer[c])'
          <=> Verdict(c, reply[c].outcome, answer[c])
    BY <2>1 DEF Verdict
  <2>5. Unchanged(c, reply[c].outcome, reply[c].body)'
          <=> Unchanged(c, reply[c].outcome, reply[c].body)
    BY <2>1 DEF Unchanged
  <2>6. Fine(c, reply[c].outcome, reply[c].body, answer[c])'
          <=> Fine(c, reply[c].outcome, reply[c].body, answer[c])
    BY <2>3, <2>4, <2>5 DEF Fine
  <2> QED BY <2>2, <2>6 DEF CallInv
<1> QED BY <1>1, <1>2

(* The invariant after a step of one call: its own part is left to show.   *)
LEMMA OneCall ==
  ASSUME IInv, NEW c \in Calls, UNCHANGED <<inputs, loaded>>, TypeOK',
         \A d \in Calls \ {c} :
           /\ pc'[d] = pc[d] /\ reply'[d] = reply[d] /\ answer'[d] = answer[d]
           /\ scan'[d] = scan[d] /\ (d \in rewritten' <=> d \in rewritten),
         CallInv(c)'
  PROVE  IInv'
<1>1. \A d \in Calls : CallInv(d)'
  <2> SUFFICES ASSUME NEW d \in Calls, d # c PROVE CallInv(d)' OBVIOUS
  <2>1. CallInv(d) BY DEF IInv
  <2> QED BY <2>1, Frame
<1>2. settings' = settings /\ loaded' = loaded BY DEF inputs
<1>3. \A s \in Services : Accepted(settings'[s]) BY <1>2 DEF IInv
<1> QED BY <1>1, <1>2, <1>3 DEF IInv

(* A call that returns what the properties allow keeps the invariant. *)
LEMMA ReturningKeeps ==
  ASSUME IInv, NEW c \in Calls, NEW o, NEW b, NEW a,
         Returning(c, o, b, a), Fine(c, o, b, a)
  PROVE  IInv'
<1>1. /\ pc \in [Calls -> Phases] /\ rewritten \subseteq Calls
      /\ reply \in [Calls -> [outcome: Outcomes \cup {"none"}, body: Bodies]]
      /\ answer \in [Calls -> Answers]
  BY DEF IInv, TypeOK
<1>2. /\ pc' = [pc EXCEPT ![c] = "done"]
      /\ reply' = [reply EXCEPT ![c] = [outcome |-> o, body |-> b]]
      /\ answer' = [answer EXCEPT ![c] = a]
      /\ settings' = settings /\ job' = job /\ loaded' = loaded /\ scan' = scan
      /\ o \in Outcomes /\ b \in Bodies /\ a \in Answers
  BY DEF Returning, Return, inputs
<1>3. rewritten' = IF o = "block" /\ Reqmod(c) THEN rewritten \cup {c} ELSE rewritten
  BY DEF Returning
<1>4. /\ pc'[c] = "done" /\ reply'[c].outcome = o /\ reply'[c].body = b
      /\ answer'[c] = a
  BY <1>1, <1>2
<1>5. \A d \in Calls \ {c} :
        /\ pc'[d] = pc[d] /\ reply'[d] = reply[d] /\ answer'[d] = answer[d]
        /\ scan'[d] = scan[d] /\ (d \in rewritten' <=> d \in rewritten)
  BY <1>1, <1>2, <1>3
<1>6. TypeOK'
  <2>1. pc' \in [Calls -> Phases] BY <1>1, <1>2 DEF Phases
  <2>2. reply' \in [Calls -> [outcome: Outcomes \cup {"none"}, body: Bodies]]
    BY <1>1, <1>2
  <2>3. rewritten' \subseteq Calls BY <1>1, <1>3
  <2>4. answer' \in [Calls -> Answers] BY <1>1, <1>2
  <2> QED BY <1>2, <2>1, <2>2, <2>3, <2>4 DEF IInv, TypeOK
<1>7. CallInv(c)'
  <2>1. /\ Vendor(c)' = Vendor(c) /\ Conf(c)' = Conf(c) /\ Reqmod(c)' = Reqmod(c)
        /\ Ranged(c)' = Ranged(c) /\ Connects(c)' = Connects(c)
        /\ ListOf(c)' = ListOf(c) /\ TooLarge(c)' = TooLarge(c)
        /\ job'[c] = job[c]
    BY <1>2, Static DEF inputs
  <2>2. CallInv(c) BY DEF IInv
  <2>3. Ready(c)' BY <1>2, <2>1, <2>2 DEF CallInv, Ready, Returning
  <2>4. Policy(c, reply[c].outcome, answer[c])'
    BY <1>2, <1>4, <2>1 DEF Fine, Policy
  <2>5. Verdict(c, reply[c].outcome, answer[c])'
    BY <1>2, <1>4, <2>1 DEF Fine, Verdict
  <2>6. Unchanged(c, reply[c].outcome, reply[c].body)'
    BY <1>2, <1>4, <2>1 DEF Fine, Unchanged
  <2>7. Fine(c, reply[c].outcome, reply[c].body, answer[c])'
    BY <1>2, <2>4, <2>5, <2>6 DEF Fine
  <2>8. scan'[c].finished <=> scan'[c].chan = "closed" BY <1>2, <2>2 DEF CallInv
  <2> QED BY <1>4, <2>3, <2>7, <2>8 DEF CallInv
<1>8. UNCHANGED <<inputs, loaded>> BY <1>2 DEF inputs
<1> QED BY <1>5, <1>6, <1>7, <1>8, OneCall

-----------------------------------------------------------------------------
(* Every action by which a call returns, returns what it may.              *)

(* Examined, and not answered by a scanner. *)
LEMMA Fresh ==
  ASSUME IInv, NEW c \in Calls, pc[c] \in {"begun", "lookup", "send"}
  PROVE  /\ answer[c] = "none" /\ scan[c].chan = "none" /\ Ready(c)
         /\ answer = [answer EXCEPT ![c] = "none"]
<1>1. CallInv(c) /\ answer \in [Calls -> Answers] BY DEF IInv, TypeOK
<1>2. answer[c] = "none" /\ scan[c].chan = "none" /\ Ready(c)
  BY <1>1 DEF CallInv, Unanswered
<1> QED BY <1>1, <1>2

LEMMA Types ==
  ASSUME IInv, NEW c \in Calls
  PROVE  job[c].body \in Bodies /\ NoBody \in Bodies /\ Outcomes # {}
         /\ {"nomod", "range", "modified", "block", "bad", "timeout", "error"}
              = Outcomes
BY JobType, NoBodyType DEF IInv, Outcomes

LEMMA EarlyReturns ==
  ASSUME IInv, NEW c \in Calls,
         PartOfRange(c) \/ Tunnel(c)
  PROVE  \E o, b, a : Returning(c, o, b, a) /\ Fine(c, o, b, a)
<1>1. pc[c] = "begun" BY DEF PartOfRange, Tunnel
<1>2. /\ answer[c] = "none" /\ scan[c].chan = "none"
      /\ answer = [answer EXCEPT ![c] = "none"]
  BY <1>1, Fresh
<1>3. job[c].body \in Bodies /\ NoBody \in Bodies BY Types
<1>4. CASE PartOfRange(c)
  <2>1. Returning(c, "range", NoBody, "none")
    BY <1>1, <1>2, <1>3, <1>4
    DEF PartOfRange, Leave, Return, Returning, Ranged, Outcomes, Answers
  <2>2. Fine(c, "range", NoBody, "none")
    BY <1>2, <1>4 DEF PartOfRange, Fine, Policy, Verdict, Unchanged
  <2> QED BY <2>1, <2>2
<1>5. CASE Tunnel(c)
  <2>1. Returning(c, "modified", job[c].body, "none")
    BY <1>1, <1>2, <1>3, <1>5 DEF Tunnel, Return, Returning, Outcomes, Answers
  <2>2. Fine(c, "modified", job[c].body, "none")
    BY <1>2, <1>5 DEF Tunnel, Fine, Policy, Verdict, Unchanged
  <2> QED BY <2>1, <2>2
<1> QED BY <1>4, <1>5

(* Block is one way to return. *)
LEMMA BlockReturns ==
  ASSUME IInv, NEW c \in Calls, NEW a \in Answers, Block(c),
         pc[c] \in {"begun", "lookup", "send", "wait"},
         answer' = [answer EXCEPT ![c] = a],
         UNCHANGED <<inputs, loaded, scan>>
  PROVE  Returning(c, "block", NoBody, a)
BY Types DEF Block, Returning, Outcomes

LEMMA LeaveReturns ==
  ASSUME IInv, NEW c \in Calls, NEW a \in Answers, NEW o \in Outcomes, Leave(c, o),
         o \notin {"block", "range"},
         pc[c] \in {"begun", "lookup", "send", "wait"},
         answer' = [answer EXCEPT ![c] = a],
         UNCHANGED <<inputs, loaded, scan>>
  PROVE  Returning(c, o, NoBody, a)
BY Types DEF Leave, Returning

LEMMA UnmodifiedReturns ==
  ASSUME IInv, NEW c \in Calls, NEW a \in Answers, LeaveUnmodified(c),
         pc[c] \in {"begun", "lookup", "send", "wait"},
         answer' = [answer EXCEPT ![c] = a],
         UNCHANGED <<inputs, loaded, scan>>
  PROVE  Returning(c, "nomod", job[c].body, a)
BY Types DEF LeaveUnmodified, Returning, Outcomes

LEMMA PolicyReturns ==
  ASSUME IInv, NEW c \in Calls,
         Reject(c) \/ Bypass(c) \/ IfMaxFileSizeExc(c) \/ Echo(c)
  PROVE  \E o, b, a : Returning(c, o, b, a) /\ Fine(c, o, b, a)
<1>1. pc[c] = "begun"
  BY DEF Reject, Bypass, IfMaxFileSizeExc, Echo, Scannable, Examined
<1>2. /\ answer[c] = "none" /\ scan[c].chan = "none"
      /\ answer = [answer EXCEPT ![c] = "none"] /\ "none" \in Answers
  BY <1>1, Fresh DEF Answers
<1>3. CASE Reject(c)
  <2>1. ListOf(c) = "reject" BY <1>3 DEF Reject
  <2>2. CASE Conf(c).reject400
    <3>1. Returning(c, "bad", NoBody, "none")
      BY <1>1, <1>2, <1>3, <2>2, LeaveReturns DEF Reject, Outcomes
    <3>2. Fine(c, "bad", NoBody, "none")
      BY <1>2, <2>1 DEF Fine, Policy, Verdict, Unchanged
    <3> QED BY <3>1, <3>2
  <2>3. CASE ~Conf(c).reject400
    <3>1. Returning(c, "block", NoBody, "none")
      BY <1>1, <1>2, <1>3, <2>3, BlockReturns DEF Reject
    <3>2. Fine(c, "block", NoBody, "none")
      BY <1>2, <2>1 DEF Fine, Policy, Verdict, Unchanged
    <3> QED BY <3>1, <3>2
  <2> QED BY <2>2, <2>3
<1>4. CASE Bypass(c)
  <2>1. Returning(c, "nomod", job[c].body, "none")
    BY <1>1, <1>2, <1>4, UnmodifiedReturns DEF Bypass
  <2>2. Fine(c, "nomod", job[c].body, "none")
    BY <1>2, <1>4 DEF Bypass, Fine, Policy, Verdict, Unchanged
  <2> QED BY <2>1, <2>2
<1>5. CASE IfMaxFileSizeExc(c)
  <2>1. ListOf(c) = "process" /\ TooLarge(c) BY <1>5 DEF IfMaxFileSizeExc
  <2>2. CASE Conf(c).original
    <3>1. Returning(c, "nomod", job[c].body, "none")
      BY <1>1, <1>2, <1>5, <2>2, UnmodifiedReturns DEF IfMaxFileSizeExc
    <3>2. Fine(c, "nomod", job[c].body, "none")
      BY <1>2, <2>1, <2>2 DEF Fine, Policy, Verdict, Unchanged
    <3> QED BY <3>1, <3>2
  <2>3. CASE ~Conf(c).original
    <3>1. Returning(c, "block", NoBody, "none")
      BY <1>1, <1>2, <1>5, <2>3, BlockReturns DEF IfMaxFileSizeExc
    <3>2. Fine(c, "block", NoBody, "none")
      BY <1>2, <2>1 DEF Fine, Policy, Verdict, Unchanged
    <3> QED BY <3>1, <3>2
  <2> QED BY <2>2, <2>3
<1>6. CASE Echo(c)
  <2>1. /\ ReturningHttpMessage(c) \in Bodies
        /\ Canonical(job[c].body) => ReturningHttpMessage(c) = job[c].body
    BY EchoedType DEF IInv
  <2>2. Returning(c, "modified", ReturningHttpMessage(c), "none")
    BY <1>1, <1>2, <1>6, <2>1 DEF Echo, Returning, Return, Outcomes
  <2>3. Fine(c, "modified", ReturningHttpMessage(c), "none")
    BY <1>2, <1>6, <2>1
    DEF Echo, Scannable, Fine, Policy, Verdict, Unchanged
  <2> QED BY <2>2, <2>3
<1> QED BY <1>3, <1>4, <1>5, <1>6

LEMMA LookupReturns ==
  ASSUME IInv, NEW c \in Calls, Lookup(c) \/ LookupExpires(c)
  PROVE  \E o, b, a : Returning(c, o, b, a) /\ Fine(c, o, b, a)
<1>1. pc[c] = "lookup"
  BY DEF Lookup, LookupExpires, KnownMalicious, NotKnown, LookupFails
<1>2. scan[c].chan = "none" /\ ListOf(c) = "process"
  BY <1>1, Fresh DEF IInv, CallInv, Due
<1>3. CASE KnownMalicious(c)
  <2>1. Returning(c, "block", NoBody, "malicious")
    BY <1>1, <1>3, BlockReturns DEF KnownMalicious, Heard, Answers
  <2>2. Fine(c, "block", NoBody, "malicious")
    BY <1>2 DEF Fine, Policy, Verdict, Unchanged
  <2> QED BY <2>1, <2>2
<1>4. CASE NotKnown(c)
  <2>1. Returning(c, "nomod", job[c].body, "other")
    BY <1>1, <1>4, UnmodifiedReturns DEF NotKnown, Heard, Answers
  <2>2. Fine(c, "nomod", job[c].body, "other")
    BY <1>2 DEF Fine, Policy, Verdict, Unchanged
  <2> QED BY <2>1, <2>2
<1>5. ASSUME NEW a \in {"failed", "late"}, NEW o \in {"bad", "timeout"},
             Heard(c, a), UNCHANGED <<inputs, loaded, scan>>,
             IF Conf(c).lenient THEN LeaveUnmodified(c) ELSE Leave(c, o)
      PROVE  \E p, b : Returning(c, p, b, a) /\ Fine(c, p, b, a)
  <2>1. CASE Conf(c).lenient
    <3>1. Returning(c, "nomod", job[c].body, a)
      BY <1>1, <1>5, <2>1, UnmodifiedReturns DEF Heard, Answers
    <3>2. Fine(c, "nomod", job[c].body, a)
      BY <1>2, <2>1 DEF Fine, Policy, Verdict, Unchanged
    <3> QED BY <3>1, <3>2
  <2>2. CASE ~Conf(c).lenient
    <3>1. Returning(c, o, NoBody, a)
      BY <1>1, <1>5, <2>2, LeaveReturns DEF Heard, Answers, Outcomes
    <3>2. Fine(c, o, NoBody, a)
      BY <1>2 DEF Fine, Policy, Verdict, Unchanged
    <3> QED BY <3>1, <3>2
  <2> QED BY <2>1, <2>2
<1>6. CASE LookupFails(c) BY <1>5, <1>6 DEF LookupFails
<1>7. CASE LookupExpires(c) BY <1>5, <1>7 DEF LookupExpires
<1> QED BY <1>3, <1>4, <1>6, <1>7 DEF Lookup

LEMMA ScanReturns ==
  ASSUME IInv, NEW c \in Calls, ClamdRefuses(c) \/ WakeUp(c)
  PROVE  \E o, b, a : Returning(c, o, b, a) /\ Fine(c, o, b, a)
<1>1. CallInv(c) /\ answer \in [Calls -> Answers] BY DEF IInv, TypeOK
<1>2. CASE ClamdRefuses(c)
  <2>1. pc[c] = "send" BY <1>2 DEF ClamdRefuses
  <2>2. /\ answer[c] = "none" /\ scan[c].chan = "none"
        /\ answer = [answer EXCEPT ![c] = "none"]
    BY <2>1, Fresh
  <2>3. Returning(c, "error", NoBody, "none")
    BY <2>1, <2>2, <1>2, LeaveReturns DEF ClamdRefuses, Outcomes, Answers
  <2>4. Fine(c, "error", NoBody, "none")
    BY <1>1, <2>1, <2>2 DEF CallInv, Due, Fine, Policy, Verdict, Unchanged
  <2> QED BY <2>3, <2>4
<1>3. CASE WakeUp(c)
  <2>1. pc[c] = "wait" /\ scan[c].finished BY <1>3 DEF WakeUp
  <2>2. answer[c] = "none" /\ scan[c].chan = "closed" /\ ListOf(c) = "process"
    BY <1>1, <2>1 DEF CallInv, Unanswered, Due
  <2>3. answer' = [answer EXCEPT ![c] = "none"] BY <1>1, <1>3, <2>2 DEF WakeUp
  <2>4. CASE scan[c].result = "FOUND"
    <3>1. Returning(c, "block", NoBody, "none")
      BY <1>3, <2>1, <2>3, <2>4, BlockReturns DEF WakeUp, Answers
    <3>2. Fine(c, "block", NoBody, "none")
      BY <2>2, <2>4 DEF Fine, Policy, Verdict, Unchanged
    <3> QED BY <3>1, <3>2
  <2>5. CASE scan[c].result # "FOUND"
    <3>1. Returning(c, "nomod", job[c].body, "none")
      BY <1>3, <2>1, <2>3, <2>5, UnmodifiedReturns DEF WakeUp, Answers
    <3>2. Fine(c, "nomod", job[c].body, "none")
      BY <2>2, <2>5 DEF Fine, Policy, Verdict, Unchanged
    <3> QED BY <3>1, <3>2
  <2> QED BY <2>4, <2>5
<1> QED BY <1>2, <1>3

(* A step of the next-state relation is a call that returns, or one of the *)
(* others.                                                                 *)
LEMMA Steps ==
  ASSUME IInv, Next
  PROVE  \/ \E c \in Calls : \E o, b, a : Returning(c, o, b, a) /\ Fine(c, o, b, a)
         \/ \E s \in Services : InitServiceConfig(s)
         \/ \E c \in Calls :
              \/ GetService(c) \/ GetNoService(c) \/ SendFileToScan(c) \/ ScanStream(c)
              \/ ClamdTakes(c) \/ ClamdReports(c) \/ ClamdHangsUp(c) \/ WakeUpTooEarly(c)
<1>1. CASE \E s \in Services : InitServiceConfig(s) BY <1>1
<1>2. ASSUME NEW c \in Calls, Step(c) \/ Lookup(c) \/ Clamd(c)
      PROVE  \/ \E o, b, a : Returning(c, o, b, a) /\ Fine(c, o, b, a)
             \/ GetService(c) \/ GetNoService(c) \/ SendFileToScan(c) \/ ScanStream(c)
             \/ ClamdTakes(c) \/ ClamdReports(c) \/ ClamdHangsUp(c)
             \/ WakeUpTooEarly(c)
  BY <1>2, EarlyReturns, PolicyReturns, LookupReturns, ScanReturns, Zenon
  DEF Step, Clamd
<1> QED BY <1>1, <1>2 DEF Next

-----------------------------------------------------------------------------
(* The other actions.                                                      *)

LEMMA LoadKeeps ==
  ASSUME IInv, NEW s \in Services, InitServiceConfig(s)
  PROVE  IInv'
<1>1. /\ loaded' = [loaded EXCEPT ![VendorOf[s]] = s] /\ UNCHANGED inputs
      /\ pc' = pc /\ reply' = reply /\ rewritten' = rewritten
      /\ answer' = answer /\ scan' = scan
      /\ VendorOf[s] # "unknown" /\ loaded[VendorOf[s]] = NotLoaded
  BY DEF InitServiceConfig
<1>2. loaded \in [Vendors -> Services \cup {NotLoaded}] /\ VendorOf[s] \in Vendors
  BY ServicesAssumption DEF IInv, TypeOK
<1>3. TypeOK' BY <1>1, <1>2 DEF IInv, TypeOK, inputs
<1>4. \A d \in Calls : CallInv(d)'
  <2> SUFFICES ASSUME NEW d \in Calls PROVE CallInv(d)' OBVIOUS
  <2>1. CallInv(d) BY DEF IInv
  <2>2. ASSUME pc[d] \notin {"new", "panicked"} PROVE VendorOf[s] # Vendor(d)
    BY <1>1, <2>1, <2>2 DEF IInv, TypeOK, Phases, CallInv, Ready
  <2>3. CASE pc[d] = "new" BY <1>1, <2>1, <2>3, Frame
  <2>4. CASE pc[d] = "panicked"
    BY <1>1, <2>1, <2>4 DEF CallInv, Unanswered
  <2>5. CASE pc[d] \notin {"new", "panicked"}
    <3>1. Vendor(d) \in Vendors BY JobType DEF IInv
    <3>2. loaded'[Vendor(d)] = loaded[Vendor(d)] BY <1>1, <1>2, <2>2, <2>5, <3>1
    <3> QED BY <1>1, <2>1, <3>2, Frame
  <2> QED BY <2>3, <2>4, <2>5
<1>5. loaded'["unknown"] = NotLoaded BY <1>1, <1>2 DEF IInv, Vendors
<1>6. \A t \in Services : Accepted(settings'[t]) BY <1>1 DEF IInv, inputs
<1> QED BY <1>3, <1>4, <1>5, <1>6 DEF IInv

(* A call goes on without an outcome. *)
LEMMA GoesOn ==
  ASSUME IInv, NEW c \in Calls, NEW p \in Phases \ {"done"},
         pc' = [pc EXCEPT ![c] = p],
         UNCHANGED <<inputs, loaded, reply, rewritten, answer, scan>>,
         CallInv(c)'
  PROVE  IInv'
<1>1. pc \in [Calls -> Phases] BY DEF IInv, TypeOK
<1>2. TypeOK' BY <1>1 DEF IInv, TypeOK, inputs
<1>3. \A d \in Calls \ {c} : pc'[d] = pc[d] BY <1>1
<1> QED BY <1>2, <1>3, OneCall

LEMMA BeginsKeeps ==
  ASSUME IInv, NEW c \in Calls,
         GetService(c) \/ GetNoService(c) \/ SendFileToScan(c) \/ ScanStream(c)
         \/ WakeUpTooEarly(c)
  PROVE  IInv'
<1>1. CallInv(c) /\ pc \in [Calls -> Phases] BY DEF IInv, TypeOK
<1>2. UNCHANGED <<inputs, loaded, reply, rewritten, answer, scan>>
  BY DEF GetService, GetNoService, SendFileToScan, ScanStream, WakeUpTooEarly
<1>3. /\ Vendor(c)' = Vendor(c) /\ Ready(c)' = Ready(c) /\ Due(c)' = Due(c)
      /\ Unanswered(c)' = Unanswered(c)
  BY <1>2, Static DEF Ready, Due, Unanswered
<1>4. CASE GetService(c)
  <2>1. pc[c] = "new" /\ pc' = [pc EXCEPT ![c] = "begun"] BY <1>4 DEF GetService
  <2>2. Ready(c)
    BY <1>4, JobType DEF IInv, GetService, AllLoaded, Ready, Vendor
  <2>3. pc'[c] = "begun" BY <1>1, <2>1
  <2>4. CallInv(c)' BY <1>1, <1>2, <1>3, <2>1, <2>2, <2>3 DEF CallInv
  <2> QED BY <1>2, <2>1, <2>4, GoesOn DEF Phases
<1>5. CASE SendFileToScan(c) \/ ScanStream(c)
  <2>1. PICK p \in {"lookup", "send"} : pc' = [pc EXCEPT ![c] = p]
    BY <1>5 DEF SendFileToScan, ScanStream
  <2>2. pc[c] = "begun" /\ Due(c)
    BY <1>5 DEF SendFileToScan, ScanStream, Scannable, Examined, Due
  <2>3. pc'[c] = p BY <1>1, <2>1
  <2>4. CallInv(c)' BY <1>1, <1>2, <1>3, <2>2, <2>3 DEF CallInv
  <2> QED BY <1>2, <2>1, <2>4, GoesOn DEF Phases
<1>6. CASE GetNoService(c) \/ WakeUpTooEarly(c)
  <2>1. pc[c] \in {"new", "wait"} /\ pc' = [pc EXCEPT ![c] = "panicked"]
    BY <1>6 DEF GetNoService, WakeUpTooEarly
  <2>2. pc'[c] = "panicked" BY <1>1, <2>1
  <2>3. CallInv(c)' BY <1>1, <1>2, <1>3, <2>1, <2>2 DEF CallInv, Unanswered
  <2> QED BY <1>2, <2>1, <2>3, GoesOn DEF Phases
<1> QED BY <1>4, <1>5, <1>6

(* clamd, or its goroutine, goes on: the result of a call that has         *)
(* returned is fixed, as its channel was closed.                           *)
LEMMA ClamdKeeps ==
  ASSUME IInv, NEW c \in Calls,
         ClamdTakes(c) \/ ClamdReports(c) \/ ClamdHangsUp(c)
  PROVE  IInv'
<1> DEFINE Scans == [chan: {"none", "open", "reported", "closed"},
                     result: Statuses, finished: BOOLEAN]
<1>1. /\ CallInv(c) /\ pc \in [Calls -> Phases] /\ scan \in [Calls -> Scans]
      /\ scan[c] \in Scans
  BY DEF IInv, TypeOK
<1>2. UNCHANGED <<inputs, loaded, reply, rewritten, answer>>
  BY DEF ClamdTakes, ClamdReports, ClamdHangsUp
<1>3. /\ Vendor(c)' = Vendor(c) /\ Ready(c)' = Ready(c) /\ Due(c)' = Due(c)
      /\ Unanswered(c)' = Unanswered(c)
  BY <1>2, Static DEF Ready, Due, Unanswered
<1>4. CASE ClamdTakes(c)
  <2>1. pc[c] = "send" /\ pc' = [pc EXCEPT ![c] = "wait"] BY <1>4 DEF ClamdTakes
  <2>2. scan' = [scan EXCEPT ![c].chan = "open"] BY <1>4 DEF ClamdTakes
  <2>3. scan' \in [Calls -> Scans] BY <1>1, <2>2
  <2>4. scan'[c].chan = "open" /\ scan'[c].finished = scan[c].finished
    BY <1>1, <2>2
  <2>5. TypeOK' BY <1>1, <1>2, <2>1, <2>3 DEF IInv, TypeOK, inputs, Phases
  <2>6. pc'[c] = "wait" BY <1>1, <2>1
  <2>7. CallInv(c)' BY <1>1, <1>2, <1>3, <2>1, <2>4, <2>6 DEF CallInv
  <2>8. \A d \in Calls \ {c} : pc'[d] = pc[d] /\ scan'[d] = scan[d]
    BY <1>1, <2>1, <2>2
  <2> QED BY <1>2, <2>5, <2>7, <2>8, OneCall
<1>5. CASE ClamdReports(c) \/ ClamdHangsUp(c)
  <2>1. scan[c].chan \in {"open", "reported"} /\ pc' = pc
    BY <1>5 DEF ClamdReports, ClamdHangsUp
  <2>2. /\ scan' \in [Calls -> Scans]
        /\ scan'[c].chan # "none"
        /\ scan'[c].finished <=> scan'[c].chan = "closed"
        /\ \A d \in Calls \ {c} : scan'[d] = scan[d]
    <3>1. CASE ClamdReports(c)
      <4>1. PICK r \in Statuses \ {"none"} :
              scan' = [scan EXCEPT ![c].chan = "reported", ![c].result = r]
        BY <3>1 DEF ClamdReports
      <4>2. scan[c].finished = FALSE BY <3>1, <1>1 DEF CallInv, ClamdReports
      <4>3. scan' \in [Calls -> Scans] BY <1>1, <4>1
      <4>4. /\ scan'[c].chan = "reported" /\ scan'[c].finished = scan[c].finished
            /\ \A d \in Calls \ {c} : scan'[d] = scan[d]
        BY <1>1, <4>1
      <4> QED BY <4>2, <4>3, <4>4
    <3>2. CASE ClamdHangsUp(c)
      <4>1. scan' = [scan EXCEPT ![c].chan = "closed", ![c].finished = TRUE]
        BY <3>2 DEF ClamdHangsUp
      <4>2. scan' \in [Calls -> Scans] BY <1>1, <4>1
      <4>3. /\ scan'[c].chan = "closed" /\ scan'[c].finished = TRUE
            /\ \A d \in Calls \ {c} : scan'[d] = scan[d]
        BY <1>1, <4>1
      <4> QED BY <4>2, <4>3
    <3> QED BY <1>5, <3>1, <3>2
  <2>3. TypeOK' BY <1>2, <2>1, <2>2 DEF IInv, TypeOK, inputs
  <2>4. pc[c] \in {"wait", "panicked"}
    BY <1>1, <2>1 DEF CallInv, Fine, Phases
  <2>5. CallInv(c)' BY <1>1, <1>2, <1>3, <2>1, <2>2, <2>4 DEF CallInv
  <2> QED BY <1>2, <2>1, <2>2, <2>3, <2>5, OneCall
<1> QED BY <1>4, <1>5

-----------------------------------------------------------------------------
(* Assembly.                                                               *)

LEMMA InitEstablishes == Init => IInv
<1> SUFFICES ASSUME Init PROVE IInv OBVIOUS
<1>1. TypeOK
  <2>1. NoBody \in Bodies BY NoBodyType
  <2> QED BY <2>1 DEF Init, TypeOK, Phases, Outcomes, Answers, Statuses, Vendors
<1>2. \A s \in Services : Accepted(settings[s]) BY DEF Init
<1>3. loaded["unknown"] = NotLoaded BY DEF Init, Vendors
<1>4. \A c \in Calls : CallInv(c) BY DEF Init, CallInv, Unanswered
<1> QED BY <1>1, <1>2, <1>3, <1>4 DEF IInv

LEMMA NextPreserves == IInv /\ [Next]_vars => IInv'
<1> SUFFICES ASSUME IInv, [Next]_vars PROVE IInv' OBVIOUS
<1>1. CASE Next
  <2>1. CASE \E c \in Calls : \E o, b, a : Returning(c, o, b, a) /\ Fine(c, o, b, a)
    BY <2>1, ReturningKeeps
  <2>2. CASE \E s \in Services : InitServiceConfig(s) BY <2>2, LoadKeeps
  <2>3. CASE \E c \in Calls :
          \/ GetService(c) \/ GetNoService(c) \/ SendFileToScan(c) \/ ScanStream(c)
          \/ ClamdTakes(c) \/ ClamdReports(c) \/ ClamdHangsUp(c) \/ WakeUpTooEarly(c)
    BY <2>3, BeginsKeeps, ClamdKeeps
  <2> QED BY <1>1, <2>1, <2>2, <2>3, Steps
<1>2. CASE UNCHANGED vars
  <2>1. TypeOK' BY <1>2 DEF IInv, TypeOK, vars
  <2>2. \A c \in Calls : CallInv(c)'
    <3> SUFFICES ASSUME NEW c \in Calls PROVE CallInv(c)' OBVIOUS
    <3>1. CallInv(c) BY DEF IInv
    <3> QED BY <1>2, <3>1, Frame DEF vars, inputs
  <2> QED BY <1>2, <2>1, <2>2 DEF IInv, vars
<1> QED BY <1>1, <1>2

(* The inductive invariant: where each call is, and that a call that has   *)
(* returned returned what it might.                                        *)
THEOREM Invariant == Spec => []IInv
BY InitEstablishes, NextPreserves, PTL DEF Spec

(* Every variable has its type. *)
THEOREM TypeCorrect == Spec => []TypeOK
<1>1. IInv => TypeOK BY DEF IInv
<1> QED BY <1>1, Invariant, PTL

LEMMA DoneFine ==
  ASSUME IInv, NEW c \in Calls, pc[c] = "done"
  PROVE  /\ Policy(c, reply[c].outcome, answer[c])
         /\ Verdict(c, reply[c].outcome, answer[c])
         /\ Unchanged(c, reply[c].outcome, reply[c].body)
         /\ Ready(c)
BY DEF IInv, CallInv, Fine

(* The list of the README decides, and processed files are scanned.        *)
THEOREM RespectsPolicy == Spec => []PolicyRespected
<1>1. IInv => PolicyRespected
  <2> SUFFICES ASSUME IInv, NEW c \in Calls, Judged(c)
               PROVE  LET list == Promised(Extension(c), Conf(c).exts) IN
                      /\ list = "reject" =>
                           ~Scanned(c) /\ reply[c].outcome \in {"bad", "block"}
                      /\ list = "bypass" =>
                           ~Scanned(c) /\ reply[c].outcome = "nomod"
                      /\ list = "process" /\ reply[c].outcome = "nomod" =>
                           Scanned(c) \/ (TooLarge(c) /\ Conf(c).original)
    BY DEF PolicyRespected
  <2>1. pc[c] = "done" BY DEF Judged
  <2>2. Policy(c, reply[c].outcome, answer[c]) /\ Ready(c) BY <2>1, DoneFine
  <2>3. Promised(Extension(c), Conf(c).exts) = ListOf(c) BY <2>2, ListIsPromised
  <2> QED BY <2>2, <2>3 DEF Judged, Policy, Scanned
<1> QED BY <1>1, Invariant, PTL

(* The outcome of a scan is that of the scanner. *)
THEOREM HonoursVerdict == Spec => []VerdictHonoured
<1>1. IInv => VerdictHonoured
  <2> SUFFICES ASSUME IInv, NEW c \in Calls
               PROVE  /\ pc[c] = "done" /\ scan[c].chan # "none" =>
                           reply[c].outcome =
                             IF scan[c].result = "FOUND" THEN "block" ELSE "nomod"
                      /\ answer[c] # "none" =>
                           /\ answer[c] = "malicious" <=> reply[c].outcome = "block"
                           /\ answer[c] \in {"failed", "late"} /\ ~Conf(c).lenient =>
                                reply[c].outcome \in {"bad", "timeout"}
    BY DEF VerdictHonoured
  <2>1. CASE pc[c] = "done" BY <2>1, DoneFine DEF Verdict
  <2>2. CASE pc[c] # "done"
    <3>1. answer[c] = "none" BY <2>2 DEF IInv, TypeOK, CallInv, Unanswered, Phases
    <3> QED BY <2>2, <3>1
  <2> QED BY <2>1, <2>2
<1> QED BY <1>1, Invariant, PTL

(* Whoever is let through keeps his body, as far as echo can rebuild it.   *)
THEOREM LeavesBodies == Spec => []PassesUnchanged
<1>1. IInv => PassesUnchanged
  <2> SUFFICES ASSUME IInv, NEW c \in Calls
               PROVE  /\ reply[c].outcome = "nomod" => reply[c].body = job[c].body
                      /\ reply[c].outcome = "modified" /\ Canonical(job[c].body) =>
                           reply[c].body = job[c].body
    BY DEF PassesUnchanged
  <2>1. CASE pc[c] = "done" BY <2>1, DoneFine DEF Unchanged
  <2>2. CASE pc[c] # "done"
    <3>1. reply[c].outcome = "none" BY <2>2 DEF IInv, CallInv, Unanswered
    <3> QED BY <3>1
  <2> QED BY <2>1, <2>2
<1> QED BY <1>1, Invariant, PTL

-----------------------------------------------------------------------------
(* The refinement.                                                         *)

Requests == {c \in Calls : Reqmod(c)}
Served(c) ==
  CASE pc[c] = "done" -> reply[c].outcome
    [] pc[c] = "panicked" -> "panicked"
    [] OTHER -> "pending"
ServedBy == [c \in Calls |-> Served(c)]

(* A call that returns is a Return of the contract. *)
LEMMA ReturningRefines ==
  ASSUME IInv, NEW c \in Calls, NEW o, NEW b, NEW a, Returning(c, o, b, a)
  PROVE  Contract!Next
<1>1. /\ pc \in [Calls -> Phases]
      /\ reply \in [Calls -> [outcome: Outcomes \cup {"none"}, body: Bodies]]
  BY DEF IInv, TypeOK
<1>2. /\ pc' = [pc EXCEPT ![c] = "done"]
      /\ reply' = [reply EXCEPT ![c] = [outcome |-> o, body |-> b]]
      /\ job' = job /\ o \in Outcomes
  BY DEF Returning, Return, inputs
<1>3. Served(c) = "pending"
  BY DEF Served, Returning
<1>4. Served(c)' = o
  <2>1. pc'[c] = "done" /\ reply'[c].outcome = o BY <1>1, <1>2
  <2> QED BY <2>1 DEF Served
<1>5. ASSUME NEW d \in Calls, d # c PROVE Served(d)' = Served(d)
  <2>1. pc'[d] = pc[d] /\ reply'[d] = reply[d] BY <1>1, <1>2, <1>5
  <2> QED BY <2>1 DEF Served
<1>6. \A d \in Calls : Reqmod(d)' = Reqmod(d) BY <1>2 DEF Reqmod
<1>7. Requests' = Requests BY <1>6 DEF Requests
<1>8. ServedBy' = [ServedBy EXCEPT ![c] = o] BY <1>4, <1>5 DEF ServedBy
<1>9. ServedBy[c] = "pending" BY <1>3 DEF ServedBy
<1>10. o \in Contract!Outcomes /\ o \in Contract!Possible(c)
  BY <1>2 DEF Returning, Outcomes, Contract!Outcomes, Contract!Possible
<1>11. rewritten' = IF o = "block" /\ c \in Requests THEN rewritten \cup {c}
                    ELSE rewritten
  BY DEF Returning, Requests
<1>12. Contract!Return(c, o)
  BY <1>7, <1>8, <1>9, <1>10, <1>11
  DEF Contract!Return, ServedBy, Served, Requests
<1> QED BY <1>10, <1>12 DEF Contract!Next

LEMMA PanickingRefines ==
  ASSUME IInv, NEW c \in Calls, GetNoService(c) \/ WakeUpTooEarly(c)
  PROVE  Contract!Next
<1>1. /\ pc \in [Calls -> Phases] /\ pc[c] \in {"new", "wait"}
      /\ pc' = [pc EXCEPT ![c] = "panicked"]
      /\ job' = job /\ reply' = reply /\ rewritten' = rewritten
  BY DEF IInv, TypeOK, GetNoService, WakeUpTooEarly, inputs
<1>2. Served(c) = "pending" BY <1>1 DEF Served
<1>3. Served(c)' = "panicked"
  <2>1. pc'[c] = "panicked" BY <1>1
  <2> QED BY <2>1 DEF Served
<1>4. ASSUME NEW d \in Calls, d # c PROVE Served(d)' = Served(d)
  <2>1. pc'[d] = pc[d] /\ reply'[d] = reply[d] BY <1>1, <1>4
  <2> QED BY <2>1 DEF Served
<1>5. \A d \in Calls : Reqmod(d)' = Reqmod(d) BY <1>1 DEF Reqmod
<1>6. Requests' = Requests BY <1>5 DEF Requests
<1>7. ServedBy' = [ServedBy EXCEPT ![c] = "panicked"] BY <1>3, <1>4 DEF ServedBy
<1>8. ServedBy[c] = "pending" BY <1>2 DEF ServedBy
<1>9. Contract!Panic(c)
  BY <1>1, <1>6, <1>7, <1>8 DEF Contract!Panic, ServedBy, Served, Requests
<1> QED BY <1>9 DEF Contract!Next

(* Any other step leaves the variables of the contract. *)
LEMMA OthersStutter ==
  ASSUME IInv, UNCHANGED <<job, reply, rewritten>>,
         \A c \in Calls : \/ pc'[c] = pc[c]
                          \/ /\ pc[c] \notin {"done", "panicked"}
                             /\ pc'[c] \notin {"done", "panicked"}
  PROVE  UNCHANGED Contract!contractVars
<1>1. \A c \in Calls : Served(c)' = Served(c) BY DEF Served
<1>2. ServedBy' = ServedBy BY <1>1 DEF ServedBy
<1>3. \A c \in Calls : Reqmod(c)' = Reqmod(c) BY DEF Reqmod
<1>4. Requests' = Requests BY <1>3 DEF Requests
<1> QED BY <1>2, <1>4 DEF Contract!contractVars, ServedBy, Served, Requests

(* The services implement the contract of RequestLifecycle: one outcome or *)
(* panic for each call, no range for a request, and a request that is      *)
(* rewritten by its own refusal only.                                      *)
THEOREM ImplementsServiceContract == Spec => KeepsServiceContract
<1>1. Init => Contract!Init
  <2> SUFFICES ASSUME Init PROVE Contract!Init OBVIOUS
  <2>1. \A c \in Calls : Served(c) = "pending" BY DEF Init, Served
  <2>2. ServedBy = [c \in Calls |-> "pending"] BY <2>1 DEF ServedBy
  <2>3. Requests \subseteq Calls /\ rewritten = {} BY DEF Init, Requests
  <2> QED BY <2>2, <2>3 DEF Contract!Init, ServedBy, Served, Requests
<1>2. IInv /\ [Next]_vars => [Contract!Next]_(Contract!contractVars)
  <2> SUFFICES ASSUME IInv, [Next]_vars
               PROVE  [Contract!Next]_(Contract!contractVars)
    OBVIOUS
  <2>1. CASE UNCHANGED vars
    <3>1. UNCHANGED <<job, reply, rewritten>> /\ pc' = pc
      BY <2>1 DEF vars
    <3> QED BY <3>1, OthersStutter
  <2>2. ASSUME NEW c \in Calls, NEW o, NEW b, NEW a, Returning(c, o, b, a)
        PROVE  Contract!Next
    BY <2>2, ReturningRefines
  <2>3. ASSUME NEW s \in Services, InitServiceConfig(s)
        PROVE  UNCHANGED Contract!contractVars
    BY <2>3, OthersStutter DEF InitServiceConfig, inputs
  <2>4. ASSUME NEW c \in Calls, GetNoService(c) \/ WakeUpTooEarly(c)
        PROVE  Contract!Next
    BY <2>4, PanickingRefines
  <2>5. ASSUME NEW c \in Calls,
               GetService(c) \/ SendFileToScan(c) \/ ScanStream(c)
               \/ ClamdTakes(c) \/ ClamdReports(c) \/ ClamdHangsUp(c)
        PROVE  UNCHANGED Contract!contractVars
    <3>1. pc \in [Calls -> Phases] BY DEF IInv, TypeOK
    <3>2. UNCHANGED <<job, reply, rewritten>>
      BY <2>5 DEF GetService, SendFileToScan, ScanStream, ClamdTakes,
         ClamdReports, ClamdHangsUp, inputs
    <3>3. \/ pc' = pc
          \/ /\ pc[c] \in {"new", "begun", "send"}
             /\ \E p \in {"begun", "lookup", "send", "wait"} :
                  pc' = [pc EXCEPT ![c] = p]
      BY <2>5 DEF GetService, SendFileToScan, ScanStream, ClamdTakes,
         ClamdReports, ClamdHangsUp, Scannable, Examined
    <3>4. \A d \in Calls : \/ pc'[d] = pc[d]
                           \/ /\ pc[d] \notin {"done", "panicked"}
                              /\ pc'[d] \notin {"done", "panicked"}
      BY <3>1, <3>3
    <3> QED BY <3>2, <3>4, OthersStutter
  <2>6. CASE Next BY <2>6, <2>2, <2>3, <2>4, <2>5, Steps, Zenon
  <2> QED BY <2>1, <2>6
<1> QED BY <1>1, <1>2, Invariant, PTL DEF Spec, KeepsServiceContract, Contract!Spec

-----------------------------------------------------------------------------
(* Towards Ends: no call goes in circles.                                  *)

StepsLeft(c) ==
  CASE pc[c] = "new" -> 4
    [] pc[c] = "begun" -> 3
    [] pc[c] \in {"lookup", "send"} -> 2
    [] pc[c] = "wait" -> 1
    [] OTHER -> 0

(* Every step that is of the call, and not of the goroutine it leaves      *)
(* behind in ScanStream.                                                   *)
Own(c) == Step(c) \/ Lookup(c) \/ ClamdRefuses(c) \/ ClamdTakes(c)

Ending(c) == pc' = [pc EXCEPT ![c] = "done"]

LEMMA OwnAdvances ==
  ASSUME TypeOK, NEW c \in Calls, Own(c)
  PROVE  /\ StepsLeft(c)' < StepsLeft(c)
         /\ \A d \in Calls : d # c => pc'[d] = pc[d]
<1>1. pc \in [Calls -> Phases] BY DEF TypeOK
<1>2. CASE GetService(c) \/ GetNoService(c)
  BY <1>1, <1>2 DEF GetService, GetNoService, StepsLeft
<1>3. CASE pc[c] \in {"begun", "lookup", "send", "wait"} /\ Ending(c)
  BY <1>1, <1>3 DEF Ending, StepsLeft
<1>4. CASE PartOfRange(c) \/ Tunnel(c)
  BY <1>3, <1>4 DEF PartOfRange, Tunnel, Leave, Return, Ending
<1>5. CASE Reject(c) \/ Bypass(c) \/ IfMaxFileSizeExc(c) \/ Echo(c)
  BY <1>3, <1>5 DEF Reject, Bypass, IfMaxFileSizeExc, Echo, Scannable, Examined,
                    Leave, LeaveUnmodified, Block, Return, Ending
<1>6. CASE SendFileToScan(c) \/ ScanStream(c)
  <2>1. /\ pc[c] = "begun"
        /\ pc' = [pc EXCEPT ![c] = "lookup"] \/ pc' = [pc EXCEPT ![c] = "send"]
    BY <1>6 DEF SendFileToScan, ScanStream, Scannable, Examined
  <2> QED BY <1>1, <2>1 DEF StepsLeft
<1>7. CASE LookupExpires(c) \/ Lookup(c)
  BY <1>3, <1>7 DEF LookupExpires, Lookup, KnownMalicious, NotKnown, LookupFails,
                    Leave, LeaveUnmodified, Block, Return, Ending
<1>8. CASE WakeUp(c) \/ ClamdRefuses(c)
  BY <1>3, <1>8 DEF WakeUp, ClamdRefuses, Leave, LeaveUnmodified, Block, Return, Ending
<1>9. CASE WakeUpTooEarly(c) \/ ClamdTakes(c)
  BY <1>1, <1>9 DEF WakeUpTooEarly, ClamdTakes, StepsLeft
<1> QED
  BY <1>2, <1>4, <1>5, <1>6, <1>7, <1>8, <1>9 DEF Own, Step

(* Processing takes at most four steps, whatever clamd, the lookup and the *)
(* other calls do, and the goroutine of ScanStream, which outlives the     *)
(* call, never reopens it.                                                 *)
THEOREM GoesForward ==
  Spec => [][\A c \in Calls :
               /\ StepsLeft(c)' <= StepsLeft(c)
               /\ Own(c) => StepsLeft(c)' < StepsLeft(c)]_vars
<1>1. TypeOK /\ [Next]_vars =>
        [\A c \in Calls :
           /\ StepsLeft(c)' <= StepsLeft(c)
           /\ Own(c) => StepsLeft(c)' < StepsLeft(c)]_vars
  <2> SUFFICES ASSUME TypeOK, [Next]_vars, NEW c \in Calls
               PROVE  /\ StepsLeft(c)' <= StepsLeft(c)
                      /\ Own(c) => StepsLeft(c)' < StepsLeft(c)
    OBVIOUS
  <2>1. StepsLeft(c) \in Nat /\ StepsLeft(c)' \in Nat BY DEF StepsLeft
  <2>2. CASE Own(c) BY <2>1, <2>2, OwnAdvances
  <2>3. ASSUME ~Own(c) PROVE pc'[c] = pc[c]
    BY <2>3, OwnAdvances
    DEF Next, InitServiceConfig, Own, Clamd, ClamdReports, ClamdHangsUp, vars, inputs
  <2>4. pc'[c] = pc[c] => StepsLeft(c)' = StepsLeft(c) BY DEF StepsLeft
  <2> QED BY <2>1, <2>2, <2>3, <2>4
<1> QED BY <1>1, TypeCorrect, PTL DEF Spec
=============================================================================
