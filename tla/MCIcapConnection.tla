--------------------------- MODULE MCIcapConnection ---------------------------
(* Small instances of IcapConnection. *)
EXTENDS IcapConnection

AllShapes == {s \in Shape : WellFormed(s)}
CalmShapes == {s \in AllShapes : s.fate = "served"}
=============================================================================
