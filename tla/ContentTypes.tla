----------------------------- MODULE ContentTypes -----------------------------
(***************************************************************************)
(* How a service takes the file out of an HTTP request, and how it puts a  *)
(* file back (the package ContentTypes).                                   *)
(*                                                                         *)
(* A body is what decides between the three implementations of ContentType *)
(* and what they find: the payload, decoded where it is base64, and the    *)
(* parts of a form.  Bytes are the same iff the records are.               *)
(***************************************************************************)
EXTENDS Naturals, Sequences

CONSTANTS
  Payloads,   \* the contents of files
  Nothing,    \* the empty one
  Names       \* the names of form fields and files, "" for none

ASSUME PayloadsAssumption == Nothing \in Payloads
ASSUME NamesAssumption == "" \in Names

(* bare: the part has no header besides those multipart.Writer gives it.   *)
Parts == [field: Names, file: Names, bare: BOOLEAN, payload: Payloads]

(* header: what Content-Type begins with.  compressed: the request has a   *)
(* Content-Encoding.  key: the text parses as an object with a "Base64"    *)
(* key.  base64: the text as a whole looks like base64.  exact: encoding   *)
(* what was decoded gives the same text (no spare bits or spaces, keys in  *)
(* order; of a form: nothing around its parts, and a boundary).            *)
Bodies == [header: {"multipart", "json", "other"}, compressed: BOOLEAN,
           key: BOOLEAN, base64: BOOLEAN, exact: BOOLEAN,
           payload: Payloads, parts: Seq(Parts)]

WellFormedBody(b) ==
  /\ b.key => ~b.base64
  /\ b.header = "multipart" => ~b.key /\ ~b.base64 /\ b.payload = Nothing
  /\ b.header # "multipart" => b.parts = <<>>
  /\ b.base64 \/ b.key \/ b.header = "multipart" \/ b.exact

GetContentType(b) ==
  CASE b.header = "multipart" -> "MultipartForm"
    [] b.header = "json" /\ ~b.compressed /\ b.key -> "EncodedFile"
    [] OTHER -> "RegularFile"

-----------------------------------------------------------------------------
(* MultipartForm.                                                          *)

First(S) == CHOOSE i \in S : \A j \in S : i <= j

FileParts(b) == {i \in DOMAIN b.parts : b.parts[i].file # ""}

(* The first part with a file name; without one, a zero FormPart. *)
TheFile(b) ==
  IF FileParts(b) = {} THEN [field |-> "", file |-> "", payload |-> Nothing]
  ELSE LET p == b.parts[First(FileParts(b))]
       IN [field |-> p.field, file |-> p.file, payload |-> p.payload]

(* Fault: the part is looked for by its field alone. *)
ReplacedByField(b) ==
  {i \in DOMAIN b.parts : b.parts[i].field = TheFile(b).field}

(* The parts BodyAfterScanning takes for the file: it replaces the first.  *)
(* Of a form without files these are the parts without any name.           *)
Replaced(b) ==
  {i \in DOMAIN b.parts : /\ b.parts[i].file = TheFile(b).file
                          /\ b.parts[i].field = TheFile(b).field}

(* creatingMultipartForm writes every part anew, with headers of its own. *)
Rebuilt(b, payload) ==
  [b EXCEPT !.exact = TRUE,
            !.parts = [i \in DOMAIN b.parts |->
              [field |-> b.parts[i].field, file |-> b.parts[i].file,
               bare |-> TRUE,
               payload |-> IF i \in Replaced(b) /\ i = First(Replaced(b))
                           THEN payload ELSE b.parts[i].payload]]]

-----------------------------------------------------------------------------
GetFileFromRequest(b) ==
  IF GetContentType(b) = "MultipartForm" THEN TheFile(b).payload ELSE b.payload

(* A regular file is encoded again if it was decoded. *)
BodyAfterScanning(b, payload) ==
  CASE GetContentType(b) = "MultipartForm" -> Rebuilt(b, payload)
    [] \/ GetContentType(b) = "EncodedFile"
       \/ GetContentType(b) = "RegularFile" /\ b.base64 ->
         [b EXCEPT !.payload = payload, !.exact = TRUE]
    [] OTHER -> [b EXCEPT !.payload = payload]

(* The bodies that survive being taken apart and put together: each text   *)
(* the one its encoder writes, no part with headers of its own, and, in a  *)
(* form without files, no part without any name.                           *)
Canonical(b) ==
  /\ b.exact
  /\ \A i \in DOMAIN b.parts : b.parts[i].bare
  /\ \/ FileParts(b) # {}
     \/ \A i \in DOMAIN b.parts : b.parts[i].field # ""
=============================================================================
