------------------------- MODULE MCRequestLifecycle -------------------------
(* Instances of RequestLifecycle for TLC. *)
EXTENDS RequestLifecycle

Shapes(methods, services, sizes) ==
  {i \in Input :
     /\ WellFormed(i)
     /\ i.method \in methods
     /\ i.service \in services
     /\ i.size \in sizes
     \* `whole` only means something when a preview leaves a rest
     /\ i.offered = i.size => i.whole
     \* forms are recorded, so only of interest in a request with a body
     /\ i.multipart => i.method = "REQMOD" /\ i.size > 0}

(* Every shape of transaction. *)
AllInputs == Shapes({"OPTIONS", "REQMOD", "RESPMOD"},
                    {"absent", "barred", "plain", "shadow"}, 0..MaxBody)

ShadowInputs == Shapes({"REQMOD"}, {"shadow"}, 1..MaxBody)
PlainReqmod == Shapes({"REQMOD"}, {"plain"}, 1..MaxBody)
=============================================================================
