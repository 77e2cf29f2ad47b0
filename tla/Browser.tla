------------------------------ MODULE Browser ------------------------------
(***************************************************************************)
(* The backend of the browser: commands that run at the same time over one *)
(* locked state (the node, a status per site) and one data directory.      *)
(* fetch_site makes sure that a node runs, marks the site as being fetched *)
(* and leaves the rest to a task of its own, which starts another node,    *)
(* downloads the site and extracts it page by page into the directory that *)
(* the alter:// handler serves from.  Nothing keeps two fetches of a site  *)
(* apart.                                                                  *)
(***************************************************************************)
EXTENDS DataDir

CONSTANTS
  Sites,     \* sites the user opens
  Editions,  \* editions of a site that a manifest may name
  Pages      \* the number of files of a site, extracted in order

ASSUME BrowserAssumption ==
  /\ Editions \subseteq Nat \ {0}
  /\ Pages \in Nat \ {0}

VARIABLES
  node,     \* a node is in the state
  status,   \* fetch_status: "idle" (no entry), "fetching", "ready", "error"
  phase,    \* each task: "idle", "key", "spawn", "mark", "taskKey", "listen",
            \*   "fetch", "extract", "write", "keyOnly", "publishKey", "publish"
  site,     \* the site it fetches
  edition,  \* the edition it found
  page,     \* the page it is about to extract
  pages,    \* what the extracted directory of a site holds: an edition of
            \*   each page, 0 for none, -1 for a torn one
  mixed     \* history: extractions of a site overlapped, or one was cut short

browserVars == <<node, status, phase, site, edition, page, pages, mixed>>
vars == <<dirVars, browserVars>>

InTask == {"taskKey", "listen", "fetch", "extract", "write"}
Phases == InTask \cup {"idle", "key", "spawn", "mark", "keyOnly",
                       "publishKey", "publish"}

TypeOK ==
  /\ DirTypeOK
  /\ node \in BOOLEAN
  /\ status \in [Sites -> {"idle", "fetching", "ready", "error"}]
  /\ phase \in [Tasks -> Phases]
  /\ \A t \in Tasks : phase[t] \in InTask =>
       node /\ status[site[t]] # "idle"
  /\ page \in [Tasks -> 1..Pages]
  /\ \A s \in Sites : \A i \in 1..Pages :
       pages[s][i] = -1 => mixed[s] \/ \E t \in Tasks :
         phase[t] = "write" /\ site[t] = s /\ page[t] = i
  /\ pages \in [Sites -> [1..Pages -> Editions \cup {0, -1}]]

Init ==
  /\ DirInit
  /\ node = FALSE
  /\ status = [s \in Sites |-> "idle"]
  /\ phase = [t \in Tasks |-> "idle"]
  /\ site \in [Tasks -> Sites]
  /\ edition = [t \in Tasks |-> 0]
  /\ page = [t \in Tasks |-> 1]
  /\ pages = [s \in Sites |-> [i \in 1..Pages |-> 0]]
  /\ mixed = [s \in Sites |-> FALSE]

-----------------------------------------------------------------------------
GoTo(t, p) == phase' = [phase EXCEPT ![t] = p]

(* load_or_generate_keypair of the key file, without a password.           *)
LoadsKey(t, n) == Operates(t, "load", "key", Plain, n)

Free(t) == phase[t] = "idle" /\ at[t] = "idle"

(* ensure_node_running looks at the state and lets the lock go; it starts  *)
(* a node if there was none.                                               *)
FetchSite(t, s) ==
  /\ Free(t)
  /\ commands < MaxCommands
  /\ commands' = commands + 1
  /\ site' = [site EXCEPT ![t] = s]
  /\ IF node
       THEN GoTo(t, "mark")
            /\ UNCHANGED <<file, at, doing, new, outcome, kills, used, raced,
                           due>>
       ELSE GoTo(t, "key") /\ LoadsKey(t, commands + 1)
  /\ UNCHANGED <<node, status, edition, page, pages, mixed>>

(* get_identity: the key alone.                                            *)
GetIdentity(t) ==
  /\ Free(t)
  /\ Command(t, "load", "key", Plain)
  /\ GoTo(t, "keyOnly")
  /\ UNCHANGED <<node, status, site, edition, page, pages, mixed>>

PublishSite(t) ==
  /\ Free(t)
  /\ Command(t, "load", "key", Plain)
  /\ GoTo(t, "publishKey")
  /\ UNCHANGED <<node, status, site, edition, page, pages, mixed>>

(* The key is loaded, or it is not and the command or task fails.          *)
KeyLoaded(t) ==
  /\ phase[t] \in {"key", "taskKey", "keyOnly", "publishKey"}
  /\ at[t] = "idle"
  /\ outcome[t] = "ok"
  /\ GoTo(t, CASE phase[t] = "key" -> "spawn"
               [] phase[t] = "taskKey" -> "listen"
               [] phase[t] = "publishKey" -> "publish"
               [] OTHER -> "idle")
  /\ UNCHANGED <<dirVars, node, status, site, edition, page, pages, mixed>>

KeyFails(t) ==
  /\ phase[t] \in {"key", "taskKey", "keyOnly", "publishKey"}
  /\ at[t] = "idle"
  /\ outcome[t] # "ok"
  /\ GoTo(t, "idle")
  /\ status' = IF phase[t] = "taskKey"
               THEN [status EXCEPT ![site[t]] = "error"] ELSE status
  /\ UNCHANGED <<dirVars, node, site, edition, page, pages, mixed>>

(* Faulty: the node that was started is not put into the state.            *)
SpawnedAside(t) ==
  /\ phase[t] = "spawn"
  /\ GoTo(t, "mark") \/ GoTo(t, "idle")
  /\ UNCHANGED <<dirVars, node, status, site, edition, page, pages, mixed>>

(* The node runs and listens; it replaces any that another command set.    *)
Spawned(t) ==
  /\ phase[t] = "spawn"
  /\ \/ node' = TRUE /\ GoTo(t, "mark")
     \/ UNCHANGED node /\ GoTo(t, "idle")
  /\ UNCHANGED <<dirVars, status, site, edition, page, pages, mixed>>

(* publish_site puts its node into the state once the manifest is stored.  *)
Published(t) ==
  /\ phase[t] = "publish"
  /\ node' \in {TRUE, node}
  /\ GoTo(t, "idle")
  /\ UNCHANGED <<dirVars, status, site, edition, page, pages, mixed>>

(* fetch_site marks the site and returns; its task begins with the key.    *)
Mark(t) ==
  /\ phase[t] = "mark"
  /\ status' = [status EXCEPT ![site[t]] = "fetching"]
  /\ GoTo(t, "taskKey")
  /\ LoadsKey(t, commands)
  /\ UNCHANGED <<commands, node, site, edition, page, pages, mixed>>

(* The node of the task is there and listens: nothing bounds the wait.     *)
Listens(t) ==
  /\ phase[t] = "listen"
  /\ GoTo(t, "fetch")
  /\ UNCHANGED <<dirVars, node, status, site, edition, page, pages, mixed>>

(* The manifest is there and the queue of blocks is empty.  Each request   *)
(* has a timeout, but the blocks that answer them fill the queue again.    *)
Downloaded(t, e) ==
  /\ phase[t] = "fetch"
  /\ GoTo(t, "extract")
  /\ edition' = [edition EXCEPT ![t] = e]
  /\ page' = [page EXCEPT ![t] = 1]
  /\ UNCHANGED <<dirVars, node, status, site, pages, mixed>>

Extracting(s) ==
  {t \in Tasks : phase[t] \in {"extract", "write"} /\ site[t] = s}

(* Faulty: an error leaves the status alone.                               *)
FetchFailsSilently(t) ==
  /\ phase[t] \in {"listen", "fetch", "extract", "write"}
  /\ GoTo(t, "idle")
  /\ UNCHANGED <<dirVars, node, status, site, edition, page, pages, mixed>>

(* Any error of do_fetch_site, a block that is missing among them, and a   *)
(* write that fails: the page it truncated stays torn.                     *)
FetchFails(t) ==
  /\ phase[t] \in {"listen", "fetch", "extract", "write"}
  /\ GoTo(t, "idle")
  /\ status' = [status EXCEPT ![site[t]] = "error"]
  /\ mixed' = [mixed EXCEPT ![site[t]] = @ \/ page[t] > 1 \/ phase[t] = "write"]
  /\ edition' = [edition EXCEPT ![t] = 0]
  /\ page' = [page EXCEPT ![t] = 1]
  /\ UNCHANGED <<dirVars, node, site, pages>>

(* The blocks of the page are there; its file is truncated, then filled.   *)
OpenPage(t) ==
  /\ phase[t] = "extract"
  /\ GoTo(t, "write")
  /\ pages' = [pages EXCEPT ![site[t]][page[t]] = -1]
  /\ mixed' = [mixed EXCEPT ![site[t]] = @ \/ Extracting(site[t]) # {t}]
  /\ UNCHANGED <<dirVars, node, status, site, edition, page>>

(* Faulty: the site is ready when its first page is.                       *)
FillPageEarly(t) ==
  /\ phase[t] = "write"
  /\ pages' = [pages EXCEPT ![site[t]][page[t]] = edition[t]]
  /\ status' = [status EXCEPT ![site[t]] = "ready"]
  /\ GoTo(t, "idle")
  /\ page' = [page EXCEPT ![t] = 1]
  /\ edition' = [edition EXCEPT ![t] = 0]
  /\ UNCHANGED <<dirVars, node, site, mixed>>

FillPage(t) ==
  /\ phase[t] = "write"
  /\ pages' = [pages EXCEPT ![site[t]][page[t]] = edition[t]]
  /\ IF page[t] < Pages
       THEN /\ GoTo(t, "extract")
            /\ page' = [page EXCEPT ![t] = @ + 1]
            /\ UNCHANGED <<status, edition>>
       ELSE /\ GoTo(t, "idle")
            /\ status' = [status EXCEPT ![site[t]] = "ready"]
            /\ page' = [page EXCEPT ![t] = 1]
            /\ edition' = [edition EXCEPT ![t] = 0]
  /\ UNCHANGED <<dirVars, node, site, mixed>>

(* Everything stops, and the browser is started again.                     *)
Restart ==
  /\ kills < MaxKills
  /\ kills' = kills + 1
  /\ node' = FALSE
  /\ status' = [s \in Sites |-> "idle"]
  /\ phase' = [t \in Tasks |-> "idle"]
  /\ edition' = [t \in Tasks |-> 0]
  /\ page' = [t \in Tasks |-> 1]
  /\ mixed' = [s \in Sites |-> mixed[s] \/ Extracting(s) # {}]
  /\ at' = [t \in Tasks |-> "idle"]
  /\ doing' = [t \in Tasks |-> Nothing]
  /\ new' = [t \in Tasks |-> {}]
  /\ outcome' = [t \in Tasks |-> "none"]
  /\ raced' = [f \in Files |-> raced[f] \/ \E t \in Tasks :
                                 at[t] = "fill" /\ doing[t].file = f]
  /\ UNCHANGED <<file, commands, used, due, site, pages>>

(* What the alter:// handler answers for a page of a site.                 *)
Served(s, i) ==
  CASE pages[s][i] = 0 -> "loading page"
    [] pages[s][i] = -1 -> "part of a file"
    [] OTHER -> "page"

-----------------------------------------------------------------------------
(* The commands on the lists, and those of the command line on the key.    *)
FileCommand(t) ==
  /\ phase[t] = "idle"
  /\ \/ \E op \in {"add", "remove"}, f \in Lists, x \in Items :
          Command(t, op, f, x)
     \/ \E op \in {"load", "generate", "restore"} :
          \E pw \in Passwords \cup {Plain} : Command(t, op, "key", pw)
  /\ UNCHANGED browserVars

BrowserCommand(t) ==
  (\E s \in Sites : FetchSite(t, s)) \/ GetIdentity(t) \/ PublishSite(t)

Step(t) ==
  \/ FileStep(t) /\ UNCHANGED browserVars
  \/ KeyLoaded(t) \/ KeyFails(t) \/ Spawned(t) \/ Published(t) \/ Mark(t)
  \/ Listens(t) \/ \E e \in Editions : Downloaded(t, e)
  \/ FetchFails(t) \/ OpenPage(t) \/ FillPage(t)

Next ==
  \/ \E t \in Tasks :
       \/ FileCommand(t) \/ BrowserCommand(t) \/ Step(t)
       \/ phase[t] = "idle" /\ Killed(t) /\ UNCHANGED browserVars
  \/ Restart

Spec == Init /\ [][Next]_vars

(* A task that waits for the network: for its node to listen, or for the   *)
(* blocks of a site.                                                       *)
Online(t) == phase[t] \in {"spawn", "publish", "listen", "fetch"}

(* The runtime polls every task, and what it does by itself, on the state  *)
(* and the files, it ends.  Nothing is assumed of a task that is online.   *)
Fairness == \A t \in Tasks : WF_vars(Step(t) /\ ~Online(t))

FairSpec == Spec /\ Fairness

-----------------------------------------------------------------------------
(* A site whose extractions never overlapped and were never cut short is   *)
(* served whole and of one edition whenever its status is ready and no new *)
(* extraction is on.                                                       *)
ReadySiteWhole ==
  \A s \in Sites :
    status[s] = "ready" /\ ~mixed[s] /\ Extracting(s) = {} =>
      /\ \A i \in 1..Pages : Served(s, i) = "page"
      /\ \A i, j \in 1..Pages : pages[s][i] = pages[s][j]

(* A site stays in the state in which the page of the browser waits only   *)
(* if from some time on a fetch of it is always online; a fetch that ends, *)
(* whatever the other fetches of the site do, says how.                    *)
StatusSettles ==
  \A s \in Sites :
    \/ <>[](\E t \in Tasks : site[t] = s /\ phase[t] \in {"listen", "fetch"})
    \/ status[s] = "fetching" ~> status[s] # "fetching"
=============================================================================
