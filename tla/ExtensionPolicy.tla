--------------------------- MODULE ExtensionPolicy ---------------------------
(***************************************************************************)
(* What a service does with a file by its extension: the three lists of a  *)
(* section of config.toml, the checks config.Init makes on them, the order *)
(* InitExtsArr puts them in, and the list CheckTheExtension stops at.      *)
(***************************************************************************)
EXTENDS Naturals, Sequences, FiniteSets

CONSTANTS
  Extensions,   \* what may stand in a list, and what a file may be taken for
  Any,          \* "*"
  Unknown,      \* "unknown", for a file no rule names
  NoExtension   \* a rule of GetMimeExtension that does not apply

ASSUME ExtensionsAssumption ==
  /\ Any \in Extensions /\ Unknown \in Extensions
  /\ NoExtension \notin Extensions

Lists == {"process", "reject", "bypass"}
ListsOfSections == [Lists -> Seq(Extensions)]

(* What CheckTheExtension, and InitExtsArr, take for a catch-all. *)
CatchAll(list) == Len(list) = 1 /\ list[1] = Any

Listed(ext, list) == \E i \in DOMAIN list : list[i] = ext

(* config.Init: an asterisk stands alone in its list, one list has it, and *)
(* no extension stands twice, in one list or in two.                       *)
ValidLists(lists) ==
  /\ \A l \in Lists : Listed(Any, lists[l]) => Len(lists[l]) = 1
  /\ \E l \in Lists : \A k \in Lists : Listed(Any, lists[k]) <=> k = l
  /\ \A l, k \in Lists : \A i \in DOMAIN lists[l], j \in DOMAIN lists[k] :
       lists[l][i] = lists[k][j] => l = k /\ i = j

(* Fault: the order in which the lists are declared. *)
InitExtsArrUnordered(lists) == <<"process", "reject", "bypass">>

(* The catch-all goes last.  (Lists with two would leave a slot empty, and *)
(* config.Init does not let them through.)                                 *)
InitExtsArr(lists) ==
  CASE CatchAll(lists["process"]) -> <<"reject", "bypass", "process">>
    [] CatchAll(lists["reject"]) -> <<"process", "bypass", "reject">>
    [] OTHER -> <<"process", "reject", "bypass">>

ifFileExtIsX(ext, list) == CatchAll(list) \/ Listed(ext, list)

(* The first list that takes the file; none would mean that it is processed. *)
CheckTheExtension(ext, lists) ==
  LET order == InitExtsArr(lists)
      takes(i) == ifFileExtIsX(ext, lists[order[i]])
  IN CASE takes(1) -> order[1]
       [] ~takes(1) /\ takes(2) -> order[2]
       [] ~takes(1) /\ ~takes(2) /\ takes(3) -> order[3]
       [] OTHER -> "process"

(* The README's promise: the list that names the extension decides, and    *)
(* the asterisk stands for "every file type except the ones in other       *)
(* arrays".                                                                *)
Promised(ext, lists) ==
  CHOOSE l \in Lists :
    \/ Listed(ext, lists[l])
    \/ /\ CatchAll(lists[l])
       /\ \A k \in Lists : ~Listed(ext, lists[k])

(* What a file is taken for: by its first bytes, else by its Content-Type, *)
(* else by the suffix of its name.                                         *)
Marks == [magic: Extensions \cup {NoExtension},
          mime: Extensions \cup {NoExtension},
          suffix: Extensions \cup {NoExtension}]

GetMimeExtension(m) ==
  CASE m.magic # NoExtension -> m.magic
    [] m.magic = NoExtension /\ m.mime # NoExtension -> m.mime
    [] m.magic = NoExtension /\ m.mime = NoExtension /\ m.suffix # NoExtension
         -> m.suffix
    [] OTHER -> Unknown
=============================================================================
