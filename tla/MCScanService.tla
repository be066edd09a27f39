---- MODULE MCScanService ----
(* Instance: two services of vendor echo and one of each other kind.       *)
EXTENDS ScanService

MCVendorOf == [mirror |-> "echo", echo |-> "echo", hash |-> "clhashlookup",
               clam |-> "clamav", other |-> "unknown"]
MCServices == DOMAIN MCVendorOf
MCExtensions == {"*", "unknown", "pdf", "exe"}
MCSizeOf == [none |-> 0, small |-> 1, big |-> 2]

Exts(p, r, b) == [process |-> p, reject |-> r, bypass |-> b]
Section(exts, limit, original, reject400, lenient) ==
  [reqMode |-> TRUE, respMode |-> TRUE, exts |-> exts, limit |-> limit,
   original |-> original, reject400 |-> reject400, lenient |-> lenient]

All == Section(Exts(<<"*">>, <<>>, <<>>), 0, FALSE, FALSE, FALSE)
NoPdf == Section(Exts(<<>>, <<"pdf">>, <<"*">>), 1, TRUE, TRUE, TRUE)
OnlyPdf == Section(Exts(<<"pdf">>, <<"*">>, <<"unknown">>), 1, FALSE, FALSE, FALSE)
NoExe == Section(Exts(<<"*">>, <<"exe">>, <<"pdf">>), 1, TRUE, FALSE, TRUE)
Ambiguous == Section(Exts(<<"*">>, <<"exe">>, <<"exe">>), 1, FALSE, FALSE, FALSE)
TwoStars == Section(Exts(<<"*">>, <<"*">>, <<>>), 0, FALSE, FALSE, FALSE)
Negative == Section(Exts(<<"*">>, <<>>, <<>>), -1, FALSE, FALSE, FALSE)
Response == [NoExe EXCEPT !.reqMode = FALSE]
Nowhere == [All EXCEPT !.reqMode = FALSE, !.respMode = FALSE]

(* mirror goes by one section, and every other service by another. *)
Files(first, others) == [s \in MCServices |-> IF s = "mirror" THEN first ELSE others]
MCConfigurations ==
  {Files(f, f) : f \in {All, OnlyPdf, Ambiguous, TwoStars, Negative, Nowhere}}
    \cup {Files(All, NoPdf), Files(NoExe, NoExe), Files(NoPdf, Response)}

Part(field, file, bare, payload) ==
  [field |-> field, file |-> file, bare |-> bare, payload |-> payload]
Text(header, compressed, key, base64, exact, payload) ==
  [header |-> header, compressed |-> compressed, key |-> key,
   base64 |-> base64, exact |-> exact, payload |-> payload, parts |-> <<>>]
Form(exact, parts) ==
  [Text("multipart", FALSE, FALSE, FALSE, exact, "none") EXCEPT !.parts = parts]

Plain == {Text("other", FALSE, FALSE, FALSE, TRUE, p) : p \in DOMAIN MCSizeOf}
Encoded ==
  {Text("other", FALSE, FALSE, TRUE, x, "small") : x \in BOOLEAN}
    \cup {Text("json", z, TRUE, FALSE, TRUE, "big") : z \in BOOLEAN}
    \cup {Text("json", FALSE, TRUE, FALSE, FALSE, "small")}
Forms == {
  Form(TRUE, <<Part("n", "n", TRUE, "small")>>),
  Form(TRUE, <<Part("n", "n", FALSE, "big")>>),
  Form(FALSE, <<Part("n", "", TRUE, "small"), Part("", "n", TRUE, "big")>>),
  Form(TRUE, <<Part("n", "", TRUE, "big"), Part("n", "n", TRUE, "small")>>),
  Form(TRUE, <<Part("", "", TRUE, "small")>>),
  Form(TRUE, <<Part("n", "", TRUE, "small")>>)}

Marked(magic, mime, suffix) == [magic |-> magic, mime |-> mime, suffix |-> suffix]
Files4 == {Marked("exe", "pdf", "none"), Marked("none", "pdf", "exe"),
           Marked("none", "none", "pdf"), Marked("none", "none", "none")}

Message(s, mode, connect, range, body, marks) ==
  [service |-> s, mode |-> mode, connect |-> connect, range |-> range,
   body |-> body, marks |-> marks]

MCJobs ==
  {Message("echo", "REQMOD", FALSE, FALSE, b, m) :
     b \in Encoded \cup Forms, m \in Files4}
    \cup {Message(s, m, FALSE, FALSE, b, f) :
            s \in {"hash", "clam"}, m \in Modes, b \in Plain, f \in Files4}
    \cup {Message(s, "RESPMOD", x, TRUE, b, Marked("none", "pdf", "none")) :
            s \in {"echo", "hash"}, x \in BOOLEAN, b \in Plain}
    \cup {Message(s, "REQMOD", TRUE, FALSE, NoBody, Marked("none", "none", "none")) :
            s \in {"mirror", "clam", "other"}}
====
