--------------------------- MODULE MCPublication ---------------------------
(* Publication on small sets, for TLC.  The commands of a behaviour are of *)
(* one sort, chosen at the start: the sorts have no key in common, save    *)
(* the sites that are published before their tags; those keys stay quiet.  *)
EXTENDS Publication, TLC

VARIABLE sort

OfSort(t) ==
  /\ at[t] = "putSite" => (own[t] # <<>> <=> sort = "tags")
  /\ at[t] = "putSite" => sort \in {"sites", "tags"}
  /\ at[t] \in {"seedGet", "readSite"} => sort = "sites"
  /\ at[t] = "readTag" => sort = "tags"
  /\ at[t] \in {"getBoard", "readBoard"} => sort = "board"
  /\ at[t] \in {"putZone", "readZone"} => sort = "zones"

Kind(k) ==
  CASE k[1] = "site" -> "sites" [] k[1] = "tag" -> "tags"
    [] k[1] = "zone" -> "zones" [] OTHER -> "board"

MCInit == Init /\ sort \in {"sites", "tags", "board", "zones"}

MCNext ==
  /\ UNCHANGED sort
  /\ \/ \E t \in Tasks : Start(t) /\ OfSort(t)'
     \/ \E t \in Tasks : Step(t)
     \/ \E k \in {l \in Keys : Kind(l) = sort} : Interfere(k)
  /\ sort = "tags" => \A a \in Authors : quiet'[Site(a)]

MCSpec == MCInit /\ [][MCNext]_<<vars, sort>>

(* Authors, spellings and tasks are interchangeable: no definition tells   *)
(* them apart.                                                             *)
Interchangeable ==
  Permutations(Authors) \cup Permutations(Spellings) \cup Permutations(Tasks)
=============================================================================
