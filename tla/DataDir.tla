------------------------------ MODULE DataDir ------------------------------
(***************************************************************************)
(* The small files of the data directory: identity.key and the lists       *)
(* pins.cbor, petnames.cbor and subscriptions.cbor.  The command line, the *)
(* node and the browser use them at the same time.  A command reads a      *)
(* whole file, changes what it read and writes the whole file, without a   *)
(* lock and without a temporary file: fs::write truncates first and fills  *)
(* then, and a reader or a kill may come in between.                       *)
(***************************************************************************)
EXTENDS Integers

CONSTANTS
  Tasks,        \* commands that run at the same time
  Items,        \* entries of a list: a pinned site, a name, an address
  Passwords,    \* what a key file may be encrypted with
  Plain,        \* no password: the key is stored as it is
  MaxCommands,  \* bound: commands started
  MaxKills      \* bound: commands killed

ASSUME DataDirAssumption ==
  /\ Plain \notin Passwords
  /\ MaxCommands \in Nat
  /\ MaxKills \in Nat

VARIABLES
  file,      \* each file: absent, torn (truncated, not filled) or whole
  at,        \* each task: "idle", "look", "open" (has read), "fill" (has
             \*   truncated)
  doing,     \* each task's operation, file and argument
  new,       \* what it is going to write
  outcome,   \* "none", "ok", "error": how its last file command ended
  commands,  \* how many commands were started
  kills,     \* how many were killed
  used,      \* history: the keys that commands went on with
  raced,     \* history: two writers of a file overlapped, or one was killed
  due        \* history: what the finished commands make, one by one

dirVars == <<file, at, doing, new, outcome, commands, kills, used, raced, due>>

Lists == {"pins", "names", "subs"}
Files == Lists \cup {"key"}

Absent == [state |-> "absent", holds |-> {}]
Torn == [state |-> "torn", holds |-> {}]
Whole(s) == [state |-> "whole", holds |-> s]

(* A key is the number of the command that made it, 0 for one restored     *)
(* from a backup; the file holds it under a password.                      *)
KeyItems == (0..MaxCommands) \X (Passwords \cup {Plain})

Nothing == [op |-> "none", file |-> "key", arg |-> Plain, number |-> 0]

DirTypeOK ==
  /\ \A f \in Files : file[f].state \in {"absent", "torn", "whole"}
  /\ \A f \in Lists : file[f].holds \subseteq Items
  /\ file["key"].holds \subseteq KeyItems
  /\ file["key"].state = "whole" => file["key"].holds # {}
  /\ at \in [Tasks -> {"idle", "look", "open", "fill"}]
  /\ \A t \in Tasks : at[t] = "idle" => new[t] = {}
  /\ \A t \in Tasks : at[t] = "fill" => doing[t].op # "none"
  /\ outcome \in [Tasks -> {"none", "ok", "error"}]
  /\ commands \in 0..MaxCommands
  /\ kills \in 0..MaxKills

DirInit ==
  /\ file = [f \in Files |-> Absent]
  /\ at = [t \in Tasks |-> "idle"]
  /\ doing = [t \in Tasks |-> Nothing]
  /\ new = [t \in Tasks |-> {}]
  /\ outcome = [t \in Tasks |-> "none"]
  /\ commands = 0
  /\ kills = 0
  /\ used = {}
  /\ raced = [f \in Files |-> FALSE]
  /\ due = [f \in Files |-> {}]

-----------------------------------------------------------------------------
(* A command on a list: pin and unpin, name set and rm, subscribe and      *)
(* unsubscribe; or on the key: "load" (almost every command), "generate"   *)
(* and "restore", with the password given, if any.                         *)
Operates(t, op, f, x, n) ==
  /\ at[t] = "idle"
  /\ at' = [at EXCEPT ![t] = "look"]
  /\ doing' = [doing EXCEPT ![t] = [op |-> op, file |-> f, arg |-> x,
                                   number |-> n]]
  /\ outcome' = [outcome EXCEPT ![t] = "none"]
  /\ UNCHANGED <<file, new, kills, used, raced, due>>

Command(t, op, f, x) ==
  /\ commands < MaxCommands
  /\ commands' = commands + 1
  /\ Operates(t, op, f, x, commands + 1)

Ends(t, how) ==
  /\ at' = [at EXCEPT ![t] = "idle"]
  /\ doing' = [doing EXCEPT ![t] = Nothing]
  /\ new' = [new EXCEPT ![t] = {}]
  /\ outcome' = [outcome EXCEPT ![t] = how]

(* The task knows what to write; whoever is about to write the same file,  *)
(* or writes it, does not know of it.                                      *)
GoesOnToWrite(t, s) ==
  LET f == doing[t].file IN
  /\ at' = [at EXCEPT ![t] = "open"]
  /\ new' = [new EXCEPT ![t] = s]
  /\ raced' = [raced EXCEPT ![f] =
       @ \/ \E u \in Tasks \ {t} : at[u] \in {"open", "fill"}
                                     /\ doing[u].file = f]
  /\ UNCHANGED <<doing, outcome, used, due>>

Changed(op, s, x) == IF op = "add" THEN s \cup {x} ELSE s \ {x}

(* The list in a file.  Subscriptions that cannot be read are none; pins   *)
(* and petnames that cannot be read are an error.                          *)
Unreadable(f) == file[f].state = "torn" /\ f # "subs"

(* Faulty: nothing is written when there is no file.                       *)
NothingToWriteYet(op, f, x) ==
  file[f] = Absent \/ (op = "add" /\ x \in file[f].holds)

(* Nothing is written for what is there already (a petname is assigned     *)
(* again all the same), nor to remove a pin when there is no file.         *)
NothingToWrite(op, f, x) ==
  \/ op = "add" /\ f # "names" /\ x \in file[f].holds
  \/ op = "remove" /\ f = "pins" /\ file[f] = Absent

(* Faulty: a list that cannot be read is begun anew.                       *)
LookAtListAnew(t) ==
  LET op == doing[t].op  f == doing[t].file  x == doing[t].arg IN
  /\ at[t] = "look"
  /\ f \in Lists
  /\ GoesOnToWrite(t, Changed(op, file[f].holds, x))
  /\ UNCHANGED <<file, commands, kills>>

LookAtList(t) ==
  LET op == doing[t].op  f == doing[t].file  x == doing[t].arg IN
  /\ at[t] = "look"
  /\ f \in Lists
  /\ IF Unreadable(f)
       THEN Ends(t, "error") /\ UNCHANGED <<used, raced, due>>
     ELSE IF NothingToWrite(op, f, x)
       THEN /\ Ends(t, "ok")
            /\ due' = [due EXCEPT ![f] = Changed(op, @, x)]
            /\ UNCHANGED <<used, raced>>
     ELSE GoesOnToWrite(t, Changed(op, file[f].holds, x))
  /\ UNCHANGED <<file, commands, kills>>

(* Faulty: a key file that cannot be decrypted is made anew.               *)
ReadKeyOrReplace(t) ==
  LET opens == {k \in file["key"].holds : k[2] = doing[t].arg} IN
  /\ at[t] = "look"
  /\ doing[t].file = "key"
  /\ file["key"] # Absent
  /\ IF opens # {}
       THEN /\ Ends(t, "ok")
            /\ used' = used \cup {k[1] : k \in opens}
            /\ UNCHANGED <<raced, due>>
       ELSE GoesOnToWrite(t, {<<doing[t].number, doing[t].arg>>})
  /\ UNCHANGED <<file, commands, kills>>

(* A key file that is there is read, with the password it was written      *)
(* with, and never written: generate and restore refuse it, load fails if  *)
(* it cannot be read.                                                      *)
ReadKey(t) ==
  LET op == doing[t].op  opens == {k \in file["key"].holds : k[2] = doing[t].arg}
  IN
  /\ at[t] = "look"
  /\ doing[t].file = "key"
  /\ file["key"] # Absent
  /\ Ends(t, IF op = "load" /\ opens # {} THEN "ok" ELSE "error")
  /\ used' = IF op = "load" THEN used \cup {k[1] : k \in opens} ELSE used
  /\ UNCHANGED <<file, commands, kills, raced, due>>

(* No key file: a new key, or the one of the backup.                       *)
MakeKey(t) ==
  LET number == IF doing[t].op = "restore" THEN 0 ELSE doing[t].number IN
  /\ at[t] = "look"
  /\ doing[t].file = "key"
  /\ file["key"] = Absent
  /\ GoesOnToWrite(t, {<<number, doing[t].arg>>})
  /\ UNCHANGED <<file, commands, kills>>

(* fs::write: the file is truncated, then filled.                          *)
Truncates(t) ==
  /\ at[t] = "open"
  /\ at' = [at EXCEPT ![t] = "fill"]
  /\ file' = [file EXCEPT ![doing[t].file] = Torn]
  /\ UNCHANGED <<doing, new, outcome, commands, kills, used, raced, due>>

Fills(t) ==
  LET op == doing[t].op  f == doing[t].file  x == doing[t].arg IN
  /\ at[t] = "fill"
  /\ file' = [file EXCEPT ![f] = Whole(new[t])]
  /\ due' = [due EXCEPT ![f] = IF f = "key" THEN new[t] ELSE Changed(op, @, x)]
  /\ used' = IF f = "key" THEN used \cup {k[1] : k \in new[t]} ELSE used
  /\ Ends(t, "ok")
  /\ UNCHANGED <<commands, kills, raced>>

(* A command is killed; the file it truncated stays that way.              *)
Killed(t) ==
  /\ at[t] # "idle"
  /\ kills < MaxKills
  /\ kills' = kills + 1
  /\ raced' = [raced EXCEPT ![doing[t].file] = @ \/ at[t] = "fill"]
  /\ Ends(t, "none")
  /\ UNCHANGED <<file, commands, used, due>>

FileStep(t) ==
  LookAtList(t) \/ ReadKey(t) \/ MakeKey(t) \/ Truncates(t) \/ Fills(t)

-----------------------------------------------------------------------------
(* As long as no two writers of a file overlap and none is killed, the     *)
(* file holds what the finished commands make one by one: no pin, petname  *)
(* or subscription is lost, and the first key stays.                       *)
QuietFilesKept ==
  \A f \in Files :
    /\ ~raced[f]
    /\ \A t \in Tasks : at[t] = "fill" => doing[t].file # f
    => file[f].state # "torn" /\ file[f].holds = due[f]

(* Every key that a command went on with is the same one and is the one in *)
(* the file, if no two commands made a key at the same time.               *)
OneIdentity ==
  ~raced["key"] =>
    \A k \in used : \A i \in file["key"].holds : i[1] = k

(* A key, a pin list or a petname list that a kill left torn is not        *)
(* repaired, and not begun anew either: each later command fails.          *)
TornFileStays ==
  [][\A f \in Files \ {"subs"} :
       file[f] = Torn /\ (\A t \in Tasks : at[t] \in {"open", "fill"}
                                              => doing[t].file # f)
       => /\ file'[f] = Torn
          /\ \A t \in Tasks :
               at[t] = "look" /\ doing[t].file = f /\ at'[t] # "look"
               => at'[t] = "idle" /\ outcome'[t] # "ok"]_dirVars
=============================================================================
