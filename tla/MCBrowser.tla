----------------------------- MODULE MCBrowser -----------------------------
(* Browser on small sets, for TLC.  A behaviour uses one of the lists, or  *)
(* the key file and the browser's own commands: they share nothing.        *)
EXTENDS Browser

VARIABLE sort

MCInit == Init /\ sort \in {"pins", "names", "subs", "key", "browser"}

OfSort(t) ==
  /\ doing[t].file = "key" \/ phase[t] # "idle" => sort \in {"key", "browser"}
  /\ doing[t].file # "key" => sort = doing[t].file
  /\ phase[t] # "idle" => sort = "browser"

MCNext ==
  /\ UNCHANGED sort
  /\ \/ \E t \in Tasks :
          \/ (FileCommand(t) \/ BrowserCommand(t)) /\ OfSort(t)'
          \/ Step(t)
          \/ phase[t] = "idle" /\ Killed(t) /\ UNCHANGED browserVars
     \/ Restart

MCSpec == MCInit /\ [][MCNext]_<<vars, sort>> /\ Fairness
=============================================================================
