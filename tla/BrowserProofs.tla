--------------------------- MODULE BrowserProofs ---------------------------
(***************************************************************************)
(* What holds of the data directory and of the browser's sites for any     *)
(* number of commands, kills, restarts, sites, editions and pages.         *)
(***************************************************************************)
EXTENDS Browser, TLAPS

(* What a whole file may hold: one key, or a list.                         *)
Contents(f) == IF f = "key" THEN {{k} : k \in KeyItems} ELSE SUBSET Items

DirTyped ==
  /\ DOMAIN file = Files
  /\ \A f \in Files : file[f] \in {Absent, Torn} \cup {Whole(s) : s \in Contents(f)}
  /\ at \in [Tasks -> {"idle", "look", "open", "fill"}]
  /\ DOMAIN doing = Tasks /\ DOMAIN new = Tasks
  /\ outcome \in [Tasks -> {"none", "ok", "error"}]
  /\ commands \in 0..MaxCommands
  /\ kills \in 0..MaxKills
  /\ raced \in [Files -> BOOLEAN]
  /\ DOMAIN due = Files

(* What a command is about, and what it is going to write.                 *)
CommandOK(t) ==
  /\ at[t] = "idle" => doing[t] = Nothing /\ new[t] = {}
  /\ at[t] # "idle" =>
       /\ doing[t].op # "none"
       /\ doing[t].file \in Files
       /\ doing[t].number \in 0..MaxCommands
       /\ doing[t].file = "key" => doing[t].arg \in Passwords \cup {Plain}
       /\ doing[t].file # "key" => doing[t].arg \in Items
  /\ at[t] \in {"open", "fill"} => new[t] \in Contents(doing[t].file)

Writes(t, f) == at[t] \in {"open", "fill"} /\ doing[t].file = f

Filling(t, f) == at[t] = "fill" /\ doing[t].file = f

(* What a command that writes alone is going to make of the file.          *)
Prepared(t, f) ==
  IF f = "key" THEN at[t] = "open" => file[f] = Absent
               ELSE new[t] = Changed(doing[t].op, due[f], doing[t].arg)

QuietFile(f) ==
  /\ \A t, u \in Tasks : Writes(t, f) /\ Writes(u, f) => t = u
  /\ (\A t \in Tasks : ~Filling(t, f)) =>
       file[f] # Torn /\ file[f].holds = due[f]
  /\ \A t \in Tasks : Filling(t, f) => file[f] = Torn
  /\ \A t \in Tasks : Writes(t, f) => Prepared(t, f)

(* The key that was used is in the file, and none was used without one.    *)
OneKey ==
  IF file["key"].state = "whole"
    THEN \A k \in used : \A i \in file["key"].holds : i[1] = k
    ELSE used = {}

DirInv ==
  /\ DirTyped
  /\ \A t \in Tasks : CommandOK(t)
  /\ \A f \in Files : ~raced[f] => QuietFile(f)
  /\ ~raced["key"] => OneKey

-----------------------------------------------------------------------------
(* The extraction has begun to write into the directory of the site.       *)
Begun(t) == phase[t] = "write" \/ (phase[t] = "extract" /\ page[t] > 1)

SiteTyped ==
  /\ node \in BOOLEAN
  /\ status \in [Sites -> {"idle", "fetching", "ready", "error"}]
  /\ phase \in [Tasks -> Phases]
  /\ site \in [Tasks -> Sites]
  /\ edition \in [Tasks -> Editions \cup {0}]
  /\ page \in [Tasks -> 1..Pages]
  /\ pages \in [Sites -> [1..Pages -> Editions \cup {0, -1}]]
  /\ mixed \in [Sites -> BOOLEAN]

FetchOK(t) ==
  /\ phase[t] \in InTask \cup {"mark"} => node
  /\ phase[t] \in InTask => status[site[t]] # "idle"
  /\ phase[t] \in {"extract", "write"} => edition[t] \in Editions

(* At most one extraction has begun, what it extracted is there, and when  *)
(* none has, a site that is ready is whole.                                *)
UnmixedSite(s) ==
  /\ \A t, u \in Extracting(s) : Begun(t) /\ Begun(u) => t = u
  /\ \A t \in Extracting(s) :
       Begun(t) => \A i \in 1..(page[t] - 1) : pages[s][i] = edition[t]
  /\ \A i \in 1..Pages : pages[s][i] = -1 =>
       \E t \in Tasks : phase[t] = "write" /\ site[t] = s /\ page[t] = i
  /\ status[s] = "ready" /\ (\A t \in Extracting(s) : ~Begun(t)) =>
       \E e \in Editions : \A i \in 1..Pages : pages[s][i] = e

SiteInv ==
  /\ SiteTyped
  /\ \A t \in Tasks : FetchOK(t)
  /\ \A s \in Sites : ~mixed[s] => UnmixedSite(s)

IInv == DirInv /\ SiteInv

-----------------------------------------------------------------------------
LEMMA States ==
  /\ Absent.state = "absent" /\ Torn.state = "torn"
  /\ Absent.holds = {} /\ Torn.holds = {}
  /\ \A s : Whole(s).state = "whole" /\ Whole(s).holds = s
  /\ Absent # Torn /\ \A s : Whole(s) # Torn /\ Whole(s) # Absent
BY DEF Absent, Torn, Whole

LEMMA FileStates ==
  ASSUME DirTyped, NEW f \in Files
  PROVE  /\ file[f].state \in {"absent", "torn", "whole"}
         /\ file[f].state = "absent" <=> file[f] = Absent
         /\ file[f].state = "torn" <=> file[f] = Torn
         /\ file[f].state # "whole" => file[f].holds = {}
         /\ file[f].state = "whole" => file[f].holds \in Contents(f)
BY States DEF DirTyped

(* Task t alone does something in the directory.                           *)
Moves(t) ==
  \A u \in Tasks \ {t} : at'[u] = at[u] /\ doing'[u] = doing[u] /\ new'[u] = new[u]

LEMMA CommandsOK ==
  ASSUME DirInv, NEW t \in Tasks, Moves(t), CommandOK(t)'
  PROVE  \A u \in Tasks : CommandOK(u)'
BY DEF DirInv, Moves, CommandOK

(* A file that is not touched, and that t does not begin or cease to fill. *)
LEMMA FileStays ==
  ASSUME NEW f \in Files, QuietFile(f), NEW t \in Tasks, Moves(t),
         file'[f] = file[f], due'[f] = due[f],
         Writes(t, f)' => /\ Writes(t, f)
                          /\ at'[t] = at[t] /\ new'[t] = new[t] /\ doing'[t] = doing[t],
         Filling(t, f) => Filling(t, f)'
  PROVE  QuietFile(f)'
<1>1. \A u \in Tasks : Writes(u, f)' =>
         /\ Writes(u, f)
         /\ at'[u] = at[u] /\ new'[u] = new[u] /\ doing'[u] = doing[u]
  BY DEF Moves, Writes
<1>2. \A u \in Tasks : Filling(u, f) => Filling(u, f)'
  BY DEF Moves, Filling
<1>3. \A u \in Tasks : Filling(u, f)' => Filling(u, f)
  BY <1>1 DEF Writes, Filling
<1>4. \A u \in Tasks : Writes(u, f)' => (Prepared(u, f) => Prepared(u, f)')
  BY <1>1 DEF Prepared
<1> QED
  BY <1>1, <1>2, <1>4, <1>3 DEF QuietFile

LEMMA OperatesType ==
  ASSUME DirInv, NEW t \in Tasks, NEW op, op # "none", NEW f \in Files, NEW x,
         f = "key" => x \in Passwords \cup {Plain},
         f # "key" => x \in Items,
         NEW n \in 0..MaxCommands,
         Operates(t, op, f, x, n), commands' \in 0..MaxCommands
  PROVE  DirInv'
<1>1. /\ at[t] = "idle" /\ at'[t] = "look" /\ new' = new
      /\ doing'[t] = [op |-> op, file |-> f, arg |-> x, number |-> n]
      /\ Moves(t)
      /\ UNCHANGED <<file, kills, used, raced, due>>
  BY DEF DirInv, DirTyped, Operates, Moves
<1>2. DirTyped'
  BY <1>1 DEF DirInv, DirTyped, Operates
<1>3. CommandOK(t)'
  BY <1>1 DEF CommandOK
<1>4. \A g \in Files : ~raced'[g] => QuietFile(g)'
  BY <1>1, FileStays DEF DirInv, Writes, Filling
<1> QED
  BY <1>1, <1>2, <1>3, <1>4, CommandsOK DEF DirInv, OneKey

LEMMA EndsMoves ==
  ASSUME DirInv, NEW t \in Tasks, NEW how \in {"none", "ok", "error"}, Ends(t, how)
  PROVE  /\ Moves(t) /\ at'[t] = "idle"
         /\ at' \in [Tasks -> {"idle", "look", "open", "fill"}]
         /\ DOMAIN doing' = Tasks /\ DOMAIN new' = Tasks
         /\ outcome' \in [Tasks -> {"none", "ok", "error"}]
         /\ outcome'[t] = how
         /\ CommandOK(t)'
BY DEF DirInv, DirTyped, Ends, Moves, CommandOK

(* A command that ends without having filled a file.                       *)
LEMMA EndsKeeps ==
  ASSUME DirInv, NEW t \in Tasks, NEW how \in {"none", "ok", "error"}, Ends(t, how),
         at[t] # "fill", UNCHANGED <<file, commands, raced>>,
         kills' \in 0..MaxKills, DOMAIN due' = Files,
         \A f \in Files : ~raced[f] => due'[f] = due[f],
         ~raced["key"] => OneKey'
  PROVE  DirInv'
<1>1. /\ Moves(t) /\ at'[t] = "idle" /\ CommandOK(t)' /\ DirTyped'
  BY EndsMoves DEF DirInv, DirTyped
<1>2. \A f \in Files : ~raced'[f] => QuietFile(f)'
  BY <1>1, FileStays DEF DirInv, Writes, Filling
<1> QED
  BY <1>1, <1>2, CommandsOK DEF DirInv

(* A command that is going to write, alone if the file stays quiet.        *)
LEMMA GoesOnKeeps ==
  ASSUME DirInv, NEW t \in Tasks, at[t] = "look", NEW s \in Contents(doing[t].file),
         GoesOnToWrite(t, s), UNCHANGED <<file, commands, kills>>,
         LET f == doing[t].file
         IN  ~raced'[f] => IF f = "key" THEN file[f] = Absent
                           ELSE s = Changed(doing[t].op, due[f], doing[t].arg)
  PROVE  DirInv'
<1> DEFINE f == doing[t].file
<1>1. f \in Files /\ CommandOK(t)
  BY DEF DirInv, CommandOK
<1>2. /\ at'[t] = "open" /\ new'[t] = s /\ Moves(t)
      /\ UNCHANGED <<doing, outcome, used, due>>
      /\ at' \in [Tasks -> {"idle", "look", "open", "fill"}]
      /\ DOMAIN new' = Tasks
  BY DEF DirInv, DirTyped, GoesOnToWrite, Moves
<1>3. /\ raced' \in [Files -> BOOLEAN]
      /\ \A g \in Files : ~raced'[g] => ~raced[g]
      /\ ~raced'[f] => \A u \in Tasks \ {t} : ~Writes(u, f)
  BY <1>1 DEF DirInv, DirTyped, GoesOnToWrite, Writes
<1>4. DirTyped'
  BY <1>2, <1>3 DEF DirInv, DirTyped
<1>5. CommandOK(t)'
  BY <1>1, <1>2 DEF CommandOK
<1>6. ASSUME NEW g \in Files, ~raced'[g], g # f
      PROVE  QuietFile(g)'
  BY <1>2, <1>3, <1>6, FileStays DEF DirInv, Writes, Filling
<1>7. ASSUME ~raced'[f]
      PROVE  QuietFile(f)'
  <2>1. QuietFile(f)
    BY <1>1, <1>3, <1>7 DEF DirInv
  <2>2. \A u \in Tasks : Writes(u, f)' => u = t
    BY <1>2, <1>3, <1>7 DEF Moves, Writes
  <2>3. \A u \in Tasks : ~Filling(u, f)
    BY <1>3, <1>7 DEF Writes, Filling
  <2>4. file[f] # Torn /\ file[f].holds = due[f]
    BY <2>1, <2>3 DEF QuietFile
  <2>5. Prepared(t, f)'
    BY <1>2, <1>7 DEF Prepared
  <2>6. \A u \in Tasks : ~Filling(u, f)'
    BY <1>2, <2>3 DEF Moves, Filling
  <2> QED
    BY <1>2, <2>2, <2>4, <2>5, <2>6 DEF QuietFile
<1>8. ~raced'["key"] => OneKey'
  BY <1>2, <1>3 DEF DirInv, OneKey, Files
<1> QED
  BY <1>2, <1>4, <1>5, <1>6, <1>7, <1>8, CommandsOK DEF DirInv

-----------------------------------------------------------------------------
(* A quiet list is what the commands made of it, or is being filled.       *)
LEMMA FileRead ==
  ASSUME DirInv, NEW f \in Files, ~raced[f]
  PROVE  \/ file[f] # Torn /\ file[f].holds = due[f]
         \/ file[f] = Torn /\ \E u \in Tasks : Filling(u, f)
BY DEF DirInv, QuietFile

LEMMA ListLook ==
  ASSUME DirInv, NEW t \in Tasks, LookAtList(t)
  PROVE  DirInv'
<1> DEFINE f == doing[t].file
           op == doing[t].op
           x == doing[t].arg
<1>1. /\ at[t] = "look" /\ f \in Files /\ f # "key" /\ x \in Items
      /\ UNCHANGED <<file, commands, kills>>
  BY DEF LookAtList, DirInv, CommandOK, Lists, Files
<1>2. DirTyped /\ (~raced["key"] => OneKey)
  BY DEF DirInv
<1>3. CASE Ends(t, "error") /\ UNCHANGED <<used, raced, due>>
  BY <1>1, <1>2, <1>3, EndsKeeps DEF DirTyped, OneKey
<1>4. CASE /\ NothingToWrite(op, f, x) /\ Ends(t, "ok")
           /\ due' = [due EXCEPT ![f] = Changed(op, @, x)]
           /\ UNCHANGED <<used, raced>>
  <2>1. NothingToWrite(op, f, x) =>
          /\ file[f] # Torn
          /\ Changed(op, file[f].holds, x) = file[f].holds
    BY States DEF NothingToWrite, Changed
  <2>2. ~raced[f] => Changed(op, due[f], x) = due[f]
    BY <1>1, <1>4, <2>1, FileRead
  <2>3. DOMAIN due' = Files /\ \A g \in Files : ~raced[g] => due'[g] = due[g]
    BY <1>1, <1>2, <1>4, <2>2 DEF DirTyped
  <2> QED
    BY <1>1, <1>2, <1>4, <2>3, EndsKeeps DEF DirTyped, OneKey
<1>5. CASE GoesOnToWrite(t, Changed(op, file[f].holds, x))
  <2>1. file[f].holds \in SUBSET Items
    BY <1>1, <1>2, FileStates DEF Contents
  <2>2. Changed(op, file[f].holds, x) \in Contents(f)
    BY <1>1, <2>1 DEF Changed, Contents
  <2>3. ~raced'[f] => ~raced[f] /\ \A u \in Tasks \ {t} : ~Writes(u, f)
    BY <1>1, <1>2, <1>5 DEF GoesOnToWrite, DirTyped, Writes
  <2>4. ~raced'[f] => file[f].holds = due[f]
    BY <1>1, <2>3, FileRead DEF Writes, Filling
  <2> QED
    BY <1>1, <1>5, <2>2, <2>4, GoesOnKeeps
<1> QED
  BY <1>3, <1>4, <1>5 DEF LookAtList

LEMMA KeyRead ==
  ASSUME DirInv, NEW t \in Tasks, ReadKey(t)
  PROVE  DirInv'
<1> DEFINE opens == {k \in file["key"].holds : k[2] = doing[t].arg}
<1>1. PICK how \in {"ok", "error"} :
        /\ Ends(t, how)
        /\ used' = used \/ used' = used \cup {k[1] : k \in opens}
        /\ at[t] = "look"
        /\ UNCHANGED <<file, commands, kills, raced, due>>
  BY DEF ReadKey
<1>2. DirTyped /\ (~raced["key"] => OneKey) /\ "key" \in Files
  BY DEF DirInv, Files
<1>3. file["key"].state # "whole" => opens = {}
  BY <1>2, FileStates
<1>4. file["key"].state = "whole" => \E k : file["key"].holds = {k}
  BY <1>2, FileStates DEF Contents
<1>5. ~raced["key"] => OneKey'
  <2>1. CASE file["key"].state = "whole"
    <3>1. PICK k : file["key"].holds = {k}
      BY <1>4, <2>1
    <3>2. \A j \in used' : j \in used \/ j = k[1]
      BY <1>1, <3>1
    <3> QED
      BY <1>1, <1>2, <2>1, <3>1, <3>2 DEF OneKey
  <2>2. CASE file["key"].state # "whole"
    BY <1>1, <1>2, <1>3, <2>2 DEF OneKey
  <2> QED
    BY <2>1, <2>2
<1> QED
  BY <1>1, <1>2, <1>5, EndsKeeps DEF DirTyped

LEMMA KeyMade ==
  ASSUME DirInv, NEW t \in Tasks, MakeKey(t)
  PROVE  DirInv'
<1> DEFINE number == IF doing[t].op = "restore" THEN 0 ELSE doing[t].number
           s == {<<number, doing[t].arg>>}
<1>1. /\ at[t] = "look" /\ doing[t].file = "key" /\ file["key"] = Absent
      /\ GoesOnToWrite(t, s) /\ UNCHANGED <<file, commands, kills>>
  BY DEF MakeKey
<1>2. number \in 0..MaxCommands /\ doing[t].arg \in Passwords \cup {Plain}
  BY <1>1, DataDirAssumption DEF DirInv, CommandOK
<1>3. s \in Contents(doing[t].file)
  BY <1>1, <1>2 DEF Contents, KeyItems
<1> QED
  BY <1>1, <1>3, GoesOnKeeps

LEMMA FileTruncated ==
  ASSUME DirInv, NEW t \in Tasks, Truncates(t)
  PROVE  DirInv'
<1> DEFINE f == doing[t].file
<1>1. at[t] = "open" /\ f \in Files /\ CommandOK(t) /\ DirTyped
  BY DEF Truncates, DirInv, CommandOK
<1>2. /\ at'[t] = "fill" /\ Moves(t)
      /\ UNCHANGED <<doing, new, outcome, commands, kills, used, raced, due>>
      /\ file'[f] = Torn
      /\ \A g \in Files : g # f => file'[g] = file[g]
      /\ DOMAIN file' = Files
  BY <1>1 DEF Truncates, DirTyped, Moves
<1>3. DirTyped'
  BY <1>1, <1>2 DEF DirTyped, Truncates
<1>4. CommandOK(t)'
  BY <1>1, <1>2 DEF CommandOK
<1>5. ASSUME NEW g \in Files, ~raced[g], g # f
      PROVE  QuietFile(g)'
  BY <1>2, <1>5, FileStays DEF DirInv, Writes, Filling
<1>6. ASSUME ~raced[f]
      PROVE  QuietFile(f)'
  <2>1. QuietFile(f) /\ Writes(t, f)
    BY <1>1, <1>6 DEF DirInv, Writes
  <2>2. \A u \in Tasks : Writes(u, f)' => u = t
    BY <1>2, <2>1 DEF QuietFile, Writes, Moves
  <2>3. Filling(t, f)'
    BY <1>2 DEF Filling
  <2>4. Prepared(t, f)'
    BY <1>2, <2>1 DEF Prepared, QuietFile
  <2> QED
    BY <1>2, <2>2, <2>3, <2>4 DEF QuietFile
<1>7. ~raced["key"] => OneKey'
  <2>1. CASE f = "key"
    <3>1. ~raced["key"] => file["key"] = Absent
      BY <1>1, <2>1 DEF DirInv, QuietFile, Writes, Prepared
    <3> QED
      BY <1>2, <2>1, <3>1, States DEF DirInv, OneKey
  <2>2. CASE f # "key"
    BY <1>2, <2>2 DEF DirInv, OneKey, Files
  <2> QED
    BY <2>1, <2>2
<1> QED
  BY <1>2, <1>3, <1>4, <1>5, <1>6, <1>7, CommandsOK DEF DirInv

LEMMA FileFilled ==
  ASSUME DirInv, NEW t \in Tasks, Fills(t)
  PROVE  DirInv'
<1> DEFINE op == doing[t].op
           x == doing[t].arg
<1>1. at[t] = "fill" /\ CommandOK(t) /\ DirTyped
  BY DEF Fills, DirInv
<1>2. PICK f \in Files : f = doing[t].file /\ new[t] \in Contents(f)
  BY <1>1 DEF CommandOK
<1>3. /\ at'[t] = "idle" /\ Moves(t) /\ CommandOK(t)'
      /\ at' \in [Tasks -> {"idle", "look", "open", "fill"}]
      /\ DOMAIN doing' = Tasks /\ DOMAIN new' = Tasks
      /\ outcome' \in [Tasks -> {"none", "ok", "error"}]
  BY EndsMoves DEF Fills
<1>4. /\ file'[f] = Whole(new[t])
      /\ due'[f] = IF f = "key" THEN new[t] ELSE Changed(op, due[f], x)
      /\ \A g \in Files : g # f => file'[g] = file[g] /\ due'[g] = due[g]
      /\ DOMAIN file' = Files /\ DOMAIN due' = Files
      /\ used' = IF f = "key" THEN used \cup {k[1] : k \in new[t]} ELSE used
      /\ UNCHANGED <<commands, kills, raced>>
  BY <1>1, <1>2 DEF Fills, DirTyped
<1>5. DirTyped'
  BY <1>1, <1>2, <1>3, <1>4 DEF DirTyped
<1>6. ASSUME NEW g \in Files, ~raced[g], g # f
      PROVE  QuietFile(g)'
  BY <1>2, <1>3, <1>4, <1>6, FileStays DEF DirInv, Writes, Filling
<1>7. ASSUME ~raced[f]
      PROVE  QuietFile(f)'
  <2>1. QuietFile(f) /\ Writes(t, f)
    BY <1>1, <1>2, <1>7 DEF DirInv, Writes
  <2>2. ASSUME NEW u \in Tasks
        PROVE  ~Writes(u, f)' /\ ~Filling(u, f)'
    <3>1. CASE u = t
      BY <1>2, <1>3, <3>1 DEF Writes, Filling
    <3>2. CASE u # t
      <4>1. ~Writes(u, f)
        BY <2>1, <3>2 DEF QuietFile
      <4> QED
        BY <1>2, <1>3, <3>2, <4>1 DEF Writes, Filling, Moves
    <3> QED
      BY <3>1, <3>2
  <2>3. due'[f] = new[t]
    BY <1>2, <1>4, <2>1 DEF QuietFile, Prepared, Writes
  <2>4. file'[f] # Torn /\ file'[f].holds = due'[f]
    BY <1>4, <2>3, States
  <2> QED
    BY <2>2, <2>4 DEF QuietFile
<1>8. ~raced["key"] => OneKey'
  <2>1. CASE f = "key"
    <3>1. ~raced["key"] => used = {}
      BY <1>1, <1>2, <2>1, States DEF DirInv, QuietFile, Filling, OneKey
    <3>2. PICK k : new[t] = {k}
      BY <1>2, <2>1 DEF Contents
    <3> QED
      BY <1>4, <2>1, <3>1, <3>2, States DEF OneKey
  <2>2. CASE f # "key"
    BY <1>4, <2>2 DEF DirInv, OneKey, Files
  <2> QED
    BY <2>1, <2>2
<1>9. \A g \in Files : ~raced'[g] => QuietFile(g)'
  BY <1>4, <1>6, <1>7
<1> HIDE DEF op, x
<1>10. \A u \in Tasks : CommandOK(u)'
  BY <1>3, CommandsOK
<1> QED
  BY <1>4, <1>5, <1>8, <1>9, <1>10 DEF DirInv

LEMMA CommandKilled ==
  ASSUME DirInv, NEW t \in Tasks, Killed(t)
  PROVE  DirInv'
<1> DEFINE f == doing[t].file
<1>1. f \in Files /\ DirTyped /\ kills' \in 0..MaxKills
  BY DataDirAssumption DEF Killed, DirInv, CommandOK, DirTyped
<1>2. /\ at'[t] = "idle" /\ Moves(t) /\ CommandOK(t)'
      /\ at' \in [Tasks -> {"idle", "look", "open", "fill"}]
      /\ DOMAIN doing' = Tasks /\ DOMAIN new' = Tasks
      /\ outcome' \in [Tasks -> {"none", "ok", "error"}]
      /\ UNCHANGED <<file, commands, used, due>>
  BY EndsMoves DEF Killed
<1>3. /\ raced' \in [Files -> BOOLEAN]
      /\ \A g \in Files : ~raced'[g] => ~raced[g]
      /\ ~raced'[f] => at[t] # "fill"
  BY <1>1 DEF Killed, DirTyped
<1>4. DirTyped'
  BY <1>1, <1>2, <1>3 DEF DirTyped
<1>5. \A g \in Files : ~raced'[g] => QuietFile(g)'
  BY <1>2, <1>3, FileStays DEF DirInv, Writes, Filling
<1> QED
  BY <1>2, <1>3, <1>4, <1>5, CommandsOK DEF DirInv, OneKey, Files

(* The commands of the browser started, and nothing else of the directory. *)
LEMMA CommandsCounted ==
  ASSUME DirInv, commands' \in 0..MaxCommands,
         UNCHANGED <<file, at, doing, new, outcome, kills, used, raced, due>>
  PROVE  DirInv'
BY DEF DirInv, DirTyped, CommandOK, QuietFile, Writes, Filling, Prepared, OneKey

LEMMA DirStopped ==
  ASSUME DirInv, Restart
  PROVE  DirInv'
<1>1. /\ \A t \in Tasks : /\ at'[t] = "idle" /\ doing'[t] = Nothing
                          /\ new'[t] = {} /\ outcome'[t] = "none"
      /\ at' \in [Tasks -> {"idle", "look", "open", "fill"}]
      /\ outcome' \in [Tasks -> {"none", "ok", "error"}]
      /\ DOMAIN doing' = Tasks /\ DOMAIN new' = Tasks
      /\ UNCHANGED <<file, commands, used, due>>
  BY DEF Restart
<1>2. kills' \in 0..MaxKills
  BY DataDirAssumption DEF Restart, DirInv, DirTyped
<1>3. /\ raced' \in [Files -> BOOLEAN]
      /\ \A f \in Files : ~raced'[f] =>
           ~raced[f] /\ \A t \in Tasks : ~Filling(t, f)
  BY DEF Restart, DirInv, DirTyped, Filling
<1>4. DirTyped'
  BY <1>1, <1>2, <1>3 DEF DirInv, DirTyped
<1>5. \A t \in Tasks : CommandOK(t)'
  BY <1>1 DEF CommandOK
<1>6. ASSUME NEW f \in Files, ~raced'[f]
      PROVE  QuietFile(f)'
  <2>1. file[f] # Torn /\ file[f].holds = due[f]
    BY <1>3, <1>6 DEF DirInv, QuietFile
  <2>2. \A t \in Tasks : ~Writes(t, f)' /\ ~Filling(t, f)'
    BY <1>1 DEF Writes, Filling
  <2> QED
    BY <1>1, <2>1, <2>2 DEF QuietFile
<1>7. ~raced'["key"] => OneKey'
  BY <1>1, <1>3 DEF DirInv, OneKey, Files
<1> QED
  BY <1>4, <1>5, <1>6, <1>7 DEF DirInv

LEMMA FileSteps ==
  ASSUME DirInv, NEW t \in Tasks, FileStep(t)
  PROVE  DirInv'
BY ListLook, KeyRead, KeyMade, FileTruncated, FileFilled DEF FileStep

LEMMA KeyLoads ==
  ASSUME DirInv, NEW t \in Tasks, NEW n \in 0..MaxCommands, LoadsKey(t, n),
         commands' \in 0..MaxCommands
  PROVE  DirInv'
BY OperatesType DEF LoadsKey, Files

LEMMA Counted ==
  ASSUME DirInv, commands < MaxCommands
  PROVE  commands + 1 \in 0..MaxCommands
BY DataDirAssumption DEF DirInv, DirTyped

LEMMA CommandsBegin ==
  ASSUME DirInv, NEW t \in Tasks, FileCommand(t)
  PROVE  DirInv'
<1>1. CASE \E op \in {"add", "remove"}, f \in Lists, x \in Items :
             Command(t, op, f, x)
  <2>1. PICK op \in {"add", "remove"}, f \in Lists, x \in Items :
          Command(t, op, f, x)
    BY <1>1
  <2>2. /\ Operates(t, op, f, x, commands + 1)
        /\ commands + 1 \in 0..MaxCommands /\ commands' \in 0..MaxCommands
        /\ op # "none" /\ f \in Files /\ f # "key"
    BY <2>1, Counted DEF Command, Files, Lists
  <2> QED
    BY <2>2, OperatesType
<1>2. CASE \E op \in {"load", "generate", "restore"} :
             \E pw \in Passwords \cup {Plain} : Command(t, op, "key", pw)
  <2>1. PICK op \in {"load", "generate", "restore"}, pw \in Passwords \cup {Plain} :
          Command(t, op, "key", pw)
    BY <1>2
  <2>2. /\ Operates(t, op, "key", pw, commands + 1)
        /\ commands + 1 \in 0..MaxCommands /\ commands' \in 0..MaxCommands
        /\ op # "none" /\ "key" \in Files
    BY <2>1, Counted DEF Command, Files
  <2> QED
    BY <2>2, OperatesType
<1> QED
  BY <1>1, <1>2 DEF FileCommand

LEMMA BrowserBegins ==
  ASSUME DirInv, NEW t \in Tasks, BrowserCommand(t)
  PROVE  DirInv'
<1>1. ASSUME NEW s \in Sites, FetchSite(t, s)
      PROVE  DirInv'
  <2>1. commands' = commands + 1 /\ commands + 1 \in 0..MaxCommands
    BY <1>1, Counted DEF FetchSite
  <2>2. CASE node
    BY <1>1, <2>1, <2>2, CommandsCounted DEF FetchSite
  <2>3. CASE ~node
    BY <1>1, <2>1, <2>3, KeyLoads DEF FetchSite
  <2> QED
    BY <2>2, <2>3
<1>2. CASE GetIdentity(t) \/ PublishSite(t)
  <2>1. /\ Operates(t, "load", "key", Plain, commands + 1)
        /\ commands' = commands + 1 /\ commands + 1 \in 0..MaxCommands
    BY <1>2, Counted DEF GetIdentity, PublishSite, Command
  <2> QED
    BY <2>1, KeyLoads DEF LoadsKey
<1> QED
  BY <1>1, <1>2 DEF BrowserCommand

LEMMA DirUnchanged ==
  ASSUME DirInv, UNCHANGED dirVars
  PROVE  DirInv'
BY DEF dirVars, DirInv, DirTyped, CommandOK, QuietFile, Writes, Filling, Prepared,
       OneKey

LEMMA DirNext ==
  ASSUME DirInv, [Next]_vars
  PROVE  DirInv'
<1>1. ASSUME NEW t \in Tasks, Step(t)
      PROVE  DirInv'
  <2>1. CASE Mark(t)
    BY <2>1, KeyLoads DEF Mark, DirInv, DirTyped
  <2>2. CASE UNCHANGED dirVars
    BY <2>2, DirUnchanged
  <2> QED
    BY <1>1, <2>1, <2>2, FileSteps
    DEF Step, KeyLoaded, KeyFails, Spawned, Published, Listens, Downloaded,
        FetchFails, OpenPage, FillPage
<1>2. CASE UNCHANGED vars
  BY <1>2, DirUnchanged DEF vars
<1> QED
  BY <1>1, <1>2, CommandsBegin, BrowserBegins, CommandKilled, DirStopped DEF Next

LEMMA DirBegins ==
  ASSUME Init
  PROVE  DirInv
<1>1. DirTyped
  BY DataDirAssumption DEF Init, DirInit, DirTyped
<1>2. \A t \in Tasks : at[t] = "idle" /\ CommandOK(t)
  BY DEF Init, DirInit, CommandOK
<1>3. \A f \in Files : file[f] = Absent /\ due[f] = {}
  BY DEF Init, DirInit
<1>4. \A f \in Files : QuietFile(f)
  BY <1>2, <1>3, States DEF QuietFile, Writes, Filling
<1>5. OneKey
  BY <1>3, States DEF OneKey, Files, Init, DirInit
<1> QED
  BY <1>1, <1>2, <1>4, <1>5 DEF DirInv

-----------------------------------------------------------------------------
(* Task t alone does something for a site.                                 *)
Fetches(t) ==
  \A u \in Tasks \ {t} :
    /\ phase'[u] = phase[u] /\ site'[u] = site[u]
    /\ edition'[u] = edition[u] /\ page'[u] = page[u]

LEMMA FetchesOK ==
  ASSUME SiteInv, NEW t \in Tasks, Fetches(t), FetchOK(t)', node => node',
         \A s \in Sites : status[s] # "idle" => status'[s] # "idle"
  PROVE  \A u \in Tasks : FetchOK(u)'
BY DEF SiteInv, SiteTyped, FetchOK, Fetches

(* A step of a task that has not begun to extract, and does not begin.     *)
LEMMA SiteStays ==
  ASSUME SiteInv, NEW t \in Tasks, Fetches(t), ~Begun(t), ~Begun(t)',
         NEW s \in Sites, UnmixedSite(s), pages'[s] = pages[s],
         status'[s] = "ready" => status[s] = "ready"
  PROVE  UnmixedSite(s)'
<1>1. ASSUME NEW u \in Tasks, u # t
      PROVE  /\ u \in Extracting(s)' <=> u \in Extracting(s)
             /\ Begun(u)' <=> Begun(u)
             /\ phase'[u] = phase[u] /\ site'[u] = site[u]
             /\ edition'[u] = edition[u] /\ page'[u] = page[u]
  BY <1>1 DEF Fetches, Extracting, Begun
<1>2. /\ \A u, v \in Extracting(s)' : Begun(u)' /\ Begun(v)' => u = v
      /\ \A u \in Extracting(s)' : Begun(u)' =>
           \A i \in 1..(page'[u] - 1) : pages'[s][i] = edition'[u]
  BY <1>1 DEF UnmixedSite, Extracting
<1>3. \A i \in 1..Pages : pages'[s][i] = -1 =>
        \E u \in Tasks : phase'[u] = "write" /\ site'[u] = s /\ page'[u] = i
  BY <1>1 DEF UnmixedSite, Begun
<1>4. (\A u \in Extracting(s)' : ~Begun(u)') =>
        \A u \in Extracting(s) : ~Begun(u)
  BY <1>1 DEF Extracting
<1>5. status'[s] = "ready" /\ (\A u \in Extracting(s)' : ~Begun(u)') =>
        \E e \in Editions : \A i \in 1..Pages : pages'[s][i] = e
  BY <1>4 DEF UnmixedSite
<1> QED
  BY <1>2, <1>3, <1>5 DEF UnmixedSite

(* A step of a task that is at another site.                               *)
LEMMA SiteApart ==
  ASSUME SiteInv, NEW t \in Tasks, Fetches(t), site'[t] = site[t],
         NEW s \in Sites, s # site[t], UnmixedSite(s),
         pages'[s] = pages[s], status'[s] = status[s]
  PROVE  UnmixedSite(s)'
<1>1. /\ t \notin Extracting(s) /\ t \notin Extracting(s)'
      /\ \A u \in Tasks : site[u] = s => u # t
      /\ \A u \in Tasks : site'[u] = s => u # t
  BY DEF Extracting
<1>2. ASSUME NEW u \in Tasks, u # t
      PROVE  /\ u \in Extracting(s)' <=> u \in Extracting(s)
             /\ Begun(u)' <=> Begun(u)
             /\ phase'[u] = phase[u] /\ site'[u] = site[u]
             /\ edition'[u] = edition[u] /\ page'[u] = page[u]
  BY <1>2 DEF Fetches, Extracting, Begun
<1>3. /\ \A u, v \in Extracting(s)' : Begun(u)' /\ Begun(v)' => u = v
      /\ \A u \in Extracting(s)' : Begun(u)' =>
           \A i \in 1..(page'[u] - 1) : pages'[s][i] = edition'[u]
  BY <1>1, <1>2 DEF UnmixedSite, Extracting
<1>4. \A i \in 1..Pages : pages'[s][i] = -1 =>
        \E u \in Tasks : phase'[u] = "write" /\ site'[u] = s /\ page'[u] = i
  BY <1>1, <1>2 DEF UnmixedSite
<1>5. (\A u \in Extracting(s)' : ~Begun(u)') =>
        \A u \in Extracting(s) : ~Begun(u)
  BY <1>1, <1>2 DEF Extracting
<1>6. status'[s] = "ready" /\ (\A u \in Extracting(s)' : ~Begun(u)') =>
        \E e \in Editions : \A i \in 1..Pages : pages'[s][i] = e
  BY <1>5 DEF UnmixedSite
<1> QED
  BY <1>3, <1>4, <1>6 DEF UnmixedSite

LEMMA SiteWaits ==
  ASSUME SiteInv, NEW t \in Tasks, Fetches(t), SiteTyped', FetchOK(t)',
         node => node', ~Begun(t), ~Begun(t)',
         UNCHANGED <<pages, mixed>>,
         \A s \in Sites : /\ status[s] # "idle" => status'[s] # "idle"
                          /\ status'[s] = "ready" => status[s] = "ready"
  PROVE  SiteInv'
<1>1. \A u \in Tasks : FetchOK(u)'
  BY FetchesOK
<1>2. \A s \in Sites : ~mixed'[s] => UnmixedSite(s)'
  BY SiteStays DEF SiteInv
<1> QED
  BY <1>1, <1>2 DEF SiteInv

(* The commands and steps before the extraction.                           *)
LEMMA SiteBegins ==
  ASSUME SiteInv, NEW t \in Tasks, BrowserCommand(t)
  PROVE  SiteInv'
<1>1. SiteTyped /\ phase[t] = "idle"
  BY DEF SiteInv, BrowserCommand, FetchSite, GetIdentity, PublishSite, Free
<1>2. ASSUME NEW s \in Sites, FetchSite(t, s)
      PROVE  SiteInv'
  <2>1. /\ UNCHANGED <<node, status, edition, page, pages, mixed>>
        /\ site' = [site EXCEPT ![t] = s]
        /\ phase' = [phase EXCEPT ![t] = IF node THEN "mark" ELSE "key"]
    BY <1>2 DEF FetchSite, GoTo
  <2>2. Fetches(t) /\ SiteTyped'
    BY <1>1, <2>1 DEF Fetches, SiteTyped, Phases, InTask
  <2>3. FetchOK(t)' /\ ~Begun(t) /\ ~Begun(t)'
    BY <1>1, <2>1 DEF FetchOK, Begun, SiteTyped, InTask
  <2> QED
    BY <2>1, <2>2, <2>3, SiteWaits
<1>3. CASE GetIdentity(t) \/ PublishSite(t)
  <2>1. PICK p \in {"keyOnly", "publishKey"} :
          /\ UNCHANGED <<node, status, site, edition, page, pages, mixed>>
          /\ phase' = [phase EXCEPT ![t] = p]
    BY <1>3 DEF GetIdentity, PublishSite, GoTo
  <2>2. Fetches(t) /\ SiteTyped'
    BY <1>1, <2>1 DEF Fetches, SiteTyped, Phases
  <2>3. FetchOK(t)' /\ ~Begun(t) /\ ~Begun(t)'
    BY <1>1, <2>1 DEF FetchOK, Begun, SiteTyped, InTask
  <2> QED
    BY <2>1, <2>2, <2>3, SiteWaits
<1> QED
  BY <1>2, <1>3 DEF BrowserCommand

LEMMA SiteKeys ==
  ASSUME SiteInv, NEW t \in Tasks, KeyLoaded(t) \/ KeyFails(t)
  PROVE  SiteInv'
<1>1. /\ SiteTyped /\ FetchOK(t)
      /\ phase[t] \in {"key", "taskKey", "keyOnly", "publishKey"}
      /\ UNCHANGED <<node, site, edition, page, pages, mixed>>
  BY DEF SiteInv, KeyLoaded, KeyFails
<1>2. PICK p \in {"spawn", "listen", "publish", "idle"} :
        /\ phase' = [phase EXCEPT ![t] = p]
        /\ p = "listen" => phase[t] = "taskKey"
        /\ \/ status' = status
           \/ status' = [status EXCEPT ![site[t]] = "error"]
  <2>1. CASE KeyLoaded(t)
    <3> DEFINE p == CASE phase[t] = "key" -> "spawn"
                      [] phase[t] = "taskKey" -> "listen"
                      [] phase[t] = "publishKey" -> "publish"
                      [] OTHER -> "idle"
    <3>1. /\ p \in {"spawn", "listen", "publish", "idle"}
          /\ p = "listen" => phase[t] = "taskKey"
      OBVIOUS
    <3>2. phase' = [phase EXCEPT ![t] = p] /\ status' = status
      BY <2>1 DEF KeyLoaded, GoTo
    <3> QED
      BY <3>1, <3>2
  <2>2. CASE KeyFails(t)
    BY <2>2 DEF KeyFails, GoTo
  <2> QED
    BY <2>1, <2>2
<1>3. Fetches(t) /\ SiteTyped'
  BY <1>1, <1>2 DEF Fetches, SiteTyped, Phases, InTask
<1>4. /\ ~Begun(t) /\ ~Begun(t)'
      /\ \A s \in Sites : /\ status[s] # "idle" => status'[s] # "idle"
                          /\ status'[s] = "ready" => status[s] = "ready"
  BY <1>1, <1>2 DEF Begun, SiteTyped
<1>5. FetchOK(t)'
  BY <1>1, <1>2, <1>4 DEF FetchOK, SiteTyped, InTask
<1> QED
  BY <1>1, <1>3, <1>4, <1>5, SiteWaits

LEMMA SiteNodes ==
  ASSUME SiteInv, NEW t \in Tasks, Spawned(t) \/ Published(t)
  PROVE  SiteInv'
<1>1. /\ SiteTyped /\ phase[t] \in {"spawn", "publish"}
      /\ UNCHANGED <<status, site, edition, page, pages, mixed>>
  BY DEF SiteInv, Spawned, Published
<1>2. PICK p \in {"mark", "idle"} :
        /\ phase' = [phase EXCEPT ![t] = p]
        /\ p = "mark" => node'
        /\ node' \in BOOLEAN /\ (node => node')
  BY <1>1 DEF Spawned, Published, GoTo, SiteTyped
<1>3. Fetches(t) /\ SiteTyped'
  BY <1>1, <1>2 DEF Fetches, SiteTyped, Phases
<1>4. FetchOK(t)' /\ ~Begun(t) /\ ~Begun(t)'
  BY <1>1, <1>2 DEF FetchOK, Begun, SiteTyped, InTask
<1> QED
  BY <1>1, <1>2, <1>3, <1>4, SiteWaits

LEMMA SiteMarked ==
  ASSUME SiteInv, NEW t \in Tasks, Mark(t)
  PROVE  SiteInv'
<1>1. /\ SiteTyped /\ FetchOK(t) /\ phase[t] = "mark"
      /\ status' = [status EXCEPT ![site[t]] = "fetching"]
      /\ phase' = [phase EXCEPT ![t] = "taskKey"]
      /\ UNCHANGED <<node, site, edition, page, pages, mixed>>
  BY DEF SiteInv, Mark, GoTo
<1>2. Fetches(t) /\ SiteTyped'
  BY <1>1 DEF Fetches, SiteTyped, Phases, InTask
<1>3. FetchOK(t)' /\ ~Begun(t) /\ ~Begun(t)'
  BY <1>1 DEF FetchOK, Begun, SiteTyped, InTask
<1>4. \A s \in Sites : /\ status[s] # "idle" => status'[s] # "idle"
                       /\ status'[s] = "ready" => status[s] = "ready"
  BY <1>1 DEF SiteTyped
<1> QED
  BY <1>1, <1>2, <1>3, <1>4, SiteWaits

LEMMA SiteListens ==
  ASSUME SiteInv, NEW t \in Tasks, Listens(t)
  PROVE  SiteInv'
<1>1. /\ SiteTyped /\ FetchOK(t) /\ phase[t] = "listen"
      /\ phase' = [phase EXCEPT ![t] = "fetch"]
      /\ UNCHANGED <<node, status, site, edition, page, pages, mixed>>
  BY DEF SiteInv, Listens, GoTo
<1>2. Fetches(t) /\ SiteTyped'
  BY <1>1 DEF Fetches, SiteTyped, Phases, InTask
<1>3. FetchOK(t)' /\ ~Begun(t) /\ ~Begun(t)'
  BY <1>1 DEF FetchOK, Begun, SiteTyped, InTask
<1> QED
  BY <1>1, <1>2, <1>3, SiteWaits

LEMMA SiteDownloaded ==
  ASSUME SiteInv, NEW t \in Tasks, NEW e \in Editions, Downloaded(t, e)
  PROVE  SiteInv'
<1>1. /\ SiteTyped /\ FetchOK(t) /\ phase[t] = "fetch"
      /\ phase' = [phase EXCEPT ![t] = "extract"]
      /\ edition' = [edition EXCEPT ![t] = e]
      /\ page' = [page EXCEPT ![t] = 1]
      /\ UNCHANGED <<node, status, site, pages, mixed>>
  BY DEF SiteInv, Downloaded, GoTo
<1>2. Fetches(t) /\ SiteTyped'
  BY <1>1, BrowserAssumption DEF Fetches, SiteTyped, Phases, InTask
<1>3. FetchOK(t)' /\ ~Begun(t) /\ ~Begun(t)'
  BY <1>1 DEF FetchOK, Begun, SiteTyped, InTask
<1> QED
  BY <1>1, <1>2, <1>3, SiteWaits

LEMMA SiteFails ==
  ASSUME SiteInv, NEW t \in Tasks, FetchFails(t)
  PROVE  SiteInv'
<1>1. /\ SiteTyped /\ FetchOK(t)
      /\ phase[t] \in {"listen", "fetch", "extract", "write"}
      /\ phase' = [phase EXCEPT ![t] = "idle"]
      /\ status' = [status EXCEPT ![site[t]] = "error"]
      /\ mixed' = [mixed EXCEPT ![site[t]] = @ \/ page[t] > 1 \/ phase[t] = "write"]
      /\ edition' = [edition EXCEPT ![t] = 0]
      /\ page' = [page EXCEPT ![t] = 1]
      /\ UNCHANGED <<node, site, pages>>
  BY DEF SiteInv, FetchFails, GoTo
<1>2. Fetches(t) /\ site[t] \in Sites
  BY <1>1 DEF Fetches, SiteTyped
<1>3. mixed' \in [Sites -> BOOLEAN]
  BY <1>1 DEF SiteTyped
<1>4. SiteTyped'
  BY <1>1, <1>3, BrowserAssumption DEF SiteTyped, Phases
<1>5. FetchOK(t)' /\ ~Begun(t)'
  BY <1>1 DEF FetchOK, Begun, SiteTyped, InTask
<1>6. \A s \in Sites : /\ status[s] # "idle" => status'[s] # "idle"
                       /\ status'[s] = "ready" => status[s] = "ready"
                       /\ s # site[t] => status'[s] = status[s]
  BY <1>1 DEF SiteTyped
<1>7. \A u \in Tasks : FetchOK(u)'
  BY <1>1, <1>2, <1>5, <1>6, FetchesOK
<1>8. ASSUME NEW s \in Sites, ~mixed'[s]
      PROVE  UnmixedSite(s)'
  <2>1. UnmixedSite(s) /\ (s = site[t] => ~(page[t] > 1) /\ phase[t] # "write")
    BY <1>1, <1>8 DEF SiteInv, SiteTyped
  <2>2. CASE s # site[t]
    BY <1>1, <1>2, <1>6, <2>1, <2>2, SiteApart
  <2>3. CASE s = site[t]
    <3>1. ~Begun(t)
      BY <1>1, <2>1, <2>3 DEF Begun
    <3> QED
      BY <1>1, <1>2, <1>5, <1>6, <2>1, <3>1, SiteStays
  <2> QED
    BY <2>2, <2>3
<1> QED
  BY <1>4, <1>7, <1>8 DEF SiteInv

LEMMA SiteOpened ==
  ASSUME SiteInv, NEW t \in Tasks, OpenPage(t)
  PROVE  SiteInv'
<1>1. /\ SiteTyped /\ FetchOK(t) /\ phase[t] = "extract"
      /\ phase' = [phase EXCEPT ![t] = "write"]
      /\ pages' = [pages EXCEPT ![site[t]][page[t]] = -1]
      /\ mixed' = [mixed EXCEPT ![site[t]] = @ \/ Extracting(site[t]) # {t}]
      /\ UNCHANGED <<node, status, site, edition, page>>
  BY DEF SiteInv, OpenPage, GoTo
<1>2. /\ Fetches(t) /\ site[t] \in Sites /\ page[t] \in 1..Pages
      /\ phase'[t] = "write"
      /\ pages'[site[t]] = [pages[site[t]] EXCEPT ![page[t]] = -1]
      /\ \A s \in Sites : s # site[t] => pages'[s] = pages[s]
  BY <1>1 DEF Fetches, SiteTyped
<1>3. mixed' \in [Sites -> BOOLEAN]
  BY <1>1 DEF SiteTyped
<1>4. pages' \in [Sites -> [1..Pages -> Editions \cup {0, -1}]]
  BY <1>1 DEF SiteTyped
<1>5. SiteTyped'
  BY <1>1, <1>3, <1>4 DEF SiteTyped, Phases, InTask
<1>6. FetchOK(t)'
  BY <1>1 DEF FetchOK, SiteTyped, InTask
<1>7. \A u \in Tasks : FetchOK(u)'
  BY <1>1, <1>2, <1>6, FetchesOK
<1>8. ASSUME NEW s \in Sites, ~mixed'[s]
      PROVE  UnmixedSite(s)'
  <2>1. UnmixedSite(s) /\ (s = site[t] => Extracting(s) = {t})
    BY <1>1, <1>8 DEF SiteInv, SiteTyped
  <2>2. CASE s # site[t]
    BY <1>1, <1>2, <2>1, <2>2, SiteApart
  <2>3. CASE s = site[t]
    <3>1. Extracting(s)' = {t}
      BY <1>1, <1>2, <2>1, <2>3 DEF Extracting, Fetches
    <3>2. \A i \in 1..(page[t] - 1) : pages[s][i] = edition[t]
      <4>1. CASE page[t] > 1
        BY <1>1, <2>1, <2>3, <4>1 DEF UnmixedSite, Begun
      <4>2. CASE ~(page[t] > 1)
        BY <1>2, <4>2
      <4> QED
        BY <4>1, <4>2
    <3>3. \A i \in 1..(page'[t] - 1) : pages'[s][i] = edition'[t]
      BY <1>1, <1>2, <2>3, <3>2 DEF SiteTyped
    <3>4. \A i \in 1..Pages : pages[s][i] = -1 => FALSE
      <4>1. \A u \in Tasks : phase[u] = "write" /\ site[u] = s => u \in Extracting(s)
        BY DEF Extracting
      <4> QED
        BY <1>1, <2>1, <2>3, <4>1 DEF UnmixedSite
    <3>5. \A i \in 1..Pages : pages'[s][i] = -1 => i = page[t]
      BY <1>1, <1>2, <2>3, <3>4 DEF SiteTyped
    <3>6. Begun(t)' /\ t \in Extracting(s)'
      BY <1>2, <3>1 DEF Begun
    <3>7. \A i \in 1..Pages : pages'[s][i] = -1 =>
            \E u \in Tasks : phase'[u] = "write" /\ site'[u] = s /\ page'[u] = i
      BY <1>1, <1>2, <2>3, <3>5
    <3> QED
      BY <3>1, <3>3, <3>6, <3>7 DEF UnmixedSite
  <2> QED
    BY <2>2, <2>3
<1> QED
  BY <1>5, <1>7, <1>8 DEF SiteInv

LEMMA SiteFilled ==
  ASSUME SiteInv, NEW t \in Tasks, FillPage(t)
  PROVE  SiteInv'
<1> DEFINE last == ~(page[t] < Pages)
<1>1. /\ SiteTyped /\ FetchOK(t) /\ phase[t] = "write"
      /\ pages' = [pages EXCEPT ![site[t]][page[t]] = edition[t]]
      /\ UNCHANGED <<node, site, mixed>>
  BY DEF SiteInv, FillPage
<1>2. /\ site[t] \in Sites /\ page[t] \in 1..Pages /\ edition[t] \in Editions
      /\ edition[t] \in Nat
      /\ pages'[site[t]] = [pages[site[t]] EXCEPT ![page[t]] = edition[t]]
      /\ \A s \in Sites : s # site[t] => pages'[s] = pages[s]
      /\ pages' \in [Sites -> [1..Pages -> Editions \cup {0, -1}]]
  BY <1>1, BrowserAssumption DEF SiteTyped, FetchOK
<1>3. ~last => /\ phase' = [phase EXCEPT ![t] = "extract"]
               /\ page' = [page EXCEPT ![t] = page[t] + 1]
               /\ UNCHANGED <<status, edition>>
  BY <1>1 DEF FillPage, GoTo, SiteTyped
<1>4. last => /\ phase' = [phase EXCEPT ![t] = "idle"]
              /\ status' = [status EXCEPT ![site[t]] = "ready"]
              /\ page' = [page EXCEPT ![t] = 1]
              /\ edition' = [edition EXCEPT ![t] = 0]
              /\ page[t] = Pages
  BY <1>1, <1>2, BrowserAssumption DEF FillPage, GoTo, SiteTyped
<1> HIDE DEF last
<1>5. Fetches(t) /\ SiteTyped'
  <2>1. Fetches(t)
    BY <1>1, <1>3, <1>4 DEF Fetches, SiteTyped
  <2>2. ~last => page[t] + 1 \in 1..Pages
    BY <1>2, BrowserAssumption DEF last
  <2>3. 1 \in 1..Pages
    BY BrowserAssumption
  <2>4. phase' \in [Tasks -> Phases]
    BY <1>1, <1>3, <1>4 DEF SiteTyped, Phases, InTask
  <2>5. page' \in [Tasks -> 1..Pages]
    BY <1>1, <1>3, <1>4, <2>2, <2>3 DEF SiteTyped
  <2>6. /\ status' \in [Sites -> {"idle", "fetching", "ready", "error"}]
        /\ edition' \in [Tasks -> Editions \cup {0}]
    BY <1>1, <1>3, <1>4 DEF SiteTyped
  <2> QED
    BY <1>1, <1>2, <2>1, <2>4, <2>5, <2>6 DEF SiteTyped
<1>6. \A s \in Sites : /\ status[s] # "idle" => status'[s] # "idle"
                       /\ s # site[t] => status'[s] = status[s]
  BY <1>1, <1>3, <1>4 DEF SiteTyped
<1>7. FetchOK(t)'
  <2>1. CASE last
    BY <1>1, <1>4, <2>1 DEF FetchOK, SiteTyped, InTask
  <2>2. CASE ~last
    BY <1>1, <1>3, <2>2 DEF FetchOK, SiteTyped, InTask
  <2> QED
    BY <2>1, <2>2
<1>8. \A u \in Tasks : FetchOK(u)'
  BY <1>1, <1>5, <1>6, <1>7, FetchesOK
<1>9. ASSUME NEW s \in Sites, ~mixed'[s]
      PROVE  UnmixedSite(s)'
  <2>1. UnmixedSite(s)
    BY <1>1, <1>9 DEF SiteInv
  <2>2. CASE s # site[t]
    BY <1>1, <1>5, <1>6, <2>1, <2>2, SiteApart
  <2>3. CASE s = site[t]
    <3>1. Begun(t) /\ t \in Extracting(s)
      BY <1>1, <2>3 DEF Begun, Extracting
    <3>2. \A u \in Extracting(s) : Begun(u) => u = t
      BY <2>1, <3>1 DEF UnmixedSite
    <3>3. \A i \in 1..(page[t] - 1) : pages[s][i] = edition[t]
      BY <2>1, <3>1 DEF UnmixedSite
    <3>4. \A i \in 1..page[t] : pages'[s][i] = edition[t]
      BY <1>1, <1>2, <2>3, <3>3 DEF SiteTyped
    <3>5. \A i \in 1..Pages : i # page[t] => pages'[s][i] = pages[s][i]
      BY <1>1, <1>2, <2>3 DEF SiteTyped
    <3>6. ASSUME NEW i \in 1..Pages
          PROVE  pages'[s][i] # -1
      <4>1. CASE i = page[t]
        BY <1>2, <3>4, <4>1
      <4>2. CASE i # page[t]
        <5>1. \A u \in Tasks : phase[u] = "write" /\ site[u] = s => u = t
          BY <3>2 DEF Begun, Extracting
        <5> QED
          BY <2>1, <3>5, <4>2, <5>1 DEF UnmixedSite
      <4> QED
        BY <4>1, <4>2
    <3>7. \A u \in Extracting(s)' : Begun(u)' => u = t
      <4>1. ASSUME NEW u \in Tasks, u # t
            PROVE  /\ u \in Extracting(s)' <=> u \in Extracting(s)
                   /\ Begun(u)' <=> Begun(u)
        BY <1>5, <4>1 DEF Fetches, Extracting, Begun
      <4> QED
        BY <3>2, <4>1 DEF Extracting
    <3>8. CASE last
      <4>1. \A i \in 1..Pages : pages'[s][i] = edition[t]
        BY <1>4, <3>4, <3>8
      <4>2. ~Begun(t)'
        BY <1>1, <1>4, <3>8 DEF Begun, SiteTyped
      <4> QED
        BY <1>2, <3>6, <3>7, <4>1, <4>2 DEF UnmixedSite
    <3>9. CASE ~last
      <4>1. phase'[t] = "extract" /\ page'[t] = page[t] + 1 /\ edition'[t] = edition[t]
        BY <1>1, <1>3, <3>9 DEF SiteTyped
      <4>2. Begun(t)' /\ t \in Extracting(s)'
        BY <1>1, <1>2, <2>3, <4>1 DEF Begun, Extracting
      <4>3. \A i \in 1..(page'[t] - 1) : pages'[s][i] = edition'[t]
        BY <1>2, <3>4, <4>1
      <4> QED
        BY <3>6, <3>7, <4>2, <4>3 DEF UnmixedSite
    <3> QED
      BY <3>8, <3>9
  <2> QED
    BY <2>2, <2>3
<1> QED
  BY <1>5, <1>8, <1>9 DEF SiteInv

LEMMA SiteStopped ==
  ASSUME SiteInv, Restart
  PROVE  SiteInv'
<1>1. /\ SiteTyped /\ node' = FALSE
      /\ status' = [s \in Sites |-> "idle"]
      /\ phase' = [t \in Tasks |-> "idle"]
      /\ edition' = [t \in Tasks |-> 0]
      /\ page' = [t \in Tasks |-> 1]
      /\ mixed' = [s \in Sites |-> mixed[s] \/ Extracting(s) # {}]
      /\ UNCHANGED <<site, pages>>
  BY DEF SiteInv, Restart
<1>2. SiteTyped'
  <2>1. 1 \in 1..Pages
    BY BrowserAssumption
  <2>2. /\ page' \in [Tasks -> 1..Pages]
        /\ phase' \in [Tasks -> Phases]
        /\ edition' \in [Tasks -> Editions \cup {0}]
    BY <1>1, <2>1 DEF Phases
  <2>3. /\ mixed' \in [Sites -> BOOLEAN]
        /\ status' \in [Sites -> {"idle", "fetching", "ready", "error"}]
    BY <1>1 DEF SiteTyped
  <2> QED
    BY <1>1, <2>2, <2>3 DEF SiteTyped
<1>3. \A t \in Tasks : FetchOK(t)'
  BY <1>1 DEF FetchOK, InTask
<1>4. ASSUME NEW s \in Sites, ~mixed'[s]
      PROVE  UnmixedSite(s)'
  <2>1. UnmixedSite(s) /\ Extracting(s) = {}
    BY <1>1, <1>4 DEF SiteInv
  <2>2. \A i \in 1..Pages : pages'[s][i] # -1
    BY <1>1, <2>1 DEF UnmixedSite, Extracting
  <2>3. Extracting(s)' = {} /\ status'[s] # "ready"
    BY <1>1 DEF Extracting
  <2> QED
    BY <2>2, <2>3 DEF UnmixedSite
<1> QED
  BY <1>2, <1>3, <1>4 DEF SiteInv

LEMMA SiteUnchanged ==
  ASSUME SiteInv, UNCHANGED browserVars
  PROVE  SiteInv'
BY DEF browserVars, SiteInv, SiteTyped, FetchOK, UnmixedSite, Extracting, Begun

LEMMA SiteNext ==
  ASSUME SiteInv, [Next]_vars
  PROVE  SiteInv'
<1>1. ASSUME NEW t \in Tasks, Step(t)
      PROVE  SiteInv'
  BY <1>1, SiteUnchanged, SiteKeys, SiteNodes, SiteMarked, SiteListens,
     SiteDownloaded, SiteFails, SiteOpened, SiteFilled DEF Step
<1>2. CASE UNCHANGED vars
  BY <1>2, SiteUnchanged DEF vars
<1> QED
  BY <1>1, <1>2, SiteUnchanged, SiteBegins, SiteStopped DEF Next, FileCommand

LEMMA SiteBeginning ==
  ASSUME Init
  PROVE  SiteInv
<1>1. 1 \in 1..Pages
  BY BrowserAssumption
<1>2. SiteTyped
  BY <1>1 DEF Init, SiteTyped, Phases
<1>3. \A t \in Tasks : FetchOK(t)
  BY DEF Init, FetchOK, InTask
<1>4. ASSUME NEW s \in Sites
      PROVE  UnmixedSite(s)
  <2>1. Extracting(s) = {} /\ status[s] = "idle"
    BY DEF Init, Extracting
  <2>2. \A i \in 1..Pages : pages[s][i] = 0
    BY DEF Init
  <2> QED
    BY <2>1, <2>2 DEF UnmixedSite
<1> QED
  BY <1>2, <1>3, <1>4 DEF SiteInv

-----------------------------------------------------------------------------
(* The inductive invariant: a file that no two writers shared and no kill  *)
(* left torn is what the finished commands made, or is being written by    *)
(* the one command that knows it; and a site that no two extractions       *)
(* shared and none left half done is what its last extraction made.        *)
THEOREM InductiveInvariant == Spec => []IInv
<1>1. Init => IInv
  BY DirBegins, SiteBeginning DEF IInv
<1>2. IInv /\ [Next]_vars => IInv'
  BY DirNext, SiteNext DEF IInv
<1> QED
  BY <1>1, <1>2, PTL DEF Spec

(* The files are absent, torn or whole lists and keys, only a task of a    *)
(* fetch goes on without the lock of the state, and no page stays torn     *)
(* unless an extraction was cut short or shared its directory.             *)
THEOREM TypeCorrect == Spec => []TypeOK
<1>1. ASSUME IInv
      PROVE  TypeOK
  <2>1. DirTyped /\ SiteTyped
    BY <1>1 DEF IInv, DirInv, SiteInv
  <2>2. \A f \in Files : file[f].state \in {"absent", "torn", "whole"}
    BY <2>1, FileStates
  <2>3. \A f \in Lists : f \in Files /\ f # "key"
    BY DEF Files, Lists
  <2>4. \A f \in Lists : file[f].holds \subseteq Items
    BY <2>1, <2>3, FileStates DEF Contents
  <2>5. /\ file["key"].holds \subseteq KeyItems
        /\ file["key"].state = "whole" => file["key"].holds # {}
    <3>1. /\ file["key"].state # "whole" => file["key"].holds = {}
          /\ file["key"].state = "whole" => file["key"].holds \in Contents("key")
      BY <2>1, FileStates DEF Files
    <3> QED
      BY <3>1 DEF Contents
  <2>6. \A t \in Tasks : /\ at[t] = "idle" => new[t] = {}
                         /\ at[t] = "fill" => doing[t].op # "none"
    BY <1>1 DEF IInv, DirInv, CommandOK
  <2>7. DirTypeOK
    BY <2>1, <2>2, <2>4, <2>5, <2>6 DEF DirTypeOK, DirTyped
  <2>8. \A t \in Tasks : phase[t] \in InTask => node /\ status[site[t]] # "idle"
    BY <1>1 DEF IInv, SiteInv, FetchOK
  <2>9. \A s \in Sites : \A i \in 1..Pages :
          pages[s][i] = -1 => mixed[s] \/ \E t \in Tasks :
            phase[t] = "write" /\ site[t] = s /\ page[t] = i
    BY <1>1, <2>1 DEF IInv, SiteInv, UnmixedSite
  <2> QED
    BY <2>1, <2>7, <2>8, <2>9 DEF TypeOK, SiteTyped
<1> QED
  BY <1>1, InductiveInvariant, PTL

(* As long as no two writers of pins, petnames, subscriptions or the key   *)
(* overlap and none is killed over the file, no entry is lost and none     *)
(* comes back: the file is what the finished commands make one by one.     *)
THEOREM QuietFiles == Spec => []QuietFilesKept
<1>1. ASSUME IInv
      PROVE  QuietFilesKept
  <2>1. ASSUME NEW f \in Files, ~raced[f],
               \A t \in Tasks : at[t] = "fill" => doing[t].file # f
        PROVE  file[f].state # "torn" /\ file[f].holds = due[f]
    <3>1. QuietFile(f) /\ \A t \in Tasks : ~Filling(t, f)
      BY <1>1, <2>1 DEF IInv, DirInv, Filling
    <3> QED
      BY <1>1, <3>1, FileStates DEF QuietFile, IInv, DirInv
  <2> QED
    BY <2>1 DEF QuietFilesKept
<1> QED
  BY <1>1, InductiveInvariant, PTL

(* Every key that a command went on with is the one in identity.key, if no *)
(* two commands made a key at the same time and none was killed over it.   *)
THEOREM IdentityIsOne == Spec => []OneIdentity
<1>1. ASSUME IInv
      PROVE  OneIdentity
  BY <1>1 DEF IInv, DirInv, OneKey, OneIdentity
<1> QED
  BY <1>1, InductiveInvariant, PTL

(* A site that is ready, whose extractions never shared the directory and  *)
(* were never cut short, is served whole and of one edition.               *)
THEOREM ReadySite == Spec => []ReadySiteWhole
<1>1. ASSUME IInv
      PROVE  ReadySiteWhole
  <2>1. ASSUME NEW s \in Sites, status[s] = "ready", ~mixed[s], Extracting(s) = {}
        PROVE  /\ \A i \in 1..Pages : Served(s, i) = "page"
               /\ \A i, j \in 1..Pages : pages[s][i] = pages[s][j]
    <3>1. PICK e \in Editions : \A i \in 1..Pages : pages[s][i] = e
      BY <1>1, <2>1 DEF IInv, SiteInv, UnmixedSite
    <3>2. e # 0 /\ e # -1
      BY BrowserAssumption
    <3> QED
      BY <3>1, <3>2 DEF Served
  <2> QED
    BY <2>1 DEF ReadySiteWhole
<1> QED
  BY <1>1, InductiveInvariant, PTL

(* What a command may do to a file that is torn and that nobody writes.    *)
Untouched(f) == \A t \in Tasks : at[t] \in {"open", "fill"} => doing[t].file # f

Given(t, f) ==
  at[t] = "look" /\ doing[t].file = f /\ at'[t] # "look"
    => at'[t] = "idle" /\ outcome'[t] # "ok"

LEMMA TornFile ==
  ASSUME DirInv, NEW t \in Tasks, FileStep(t),
         NEW f \in Files \ {"subs"}, file[f] = Torn, Untouched(f)
  PROVE  file'[f] = Torn /\ Moves(t) /\ Given(t, f)
<1>1. DirTyped /\ CommandOK(t)
  BY DEF DirInv
<1>2. CASE LookAtList(t)
  <2>1. doing[t].file = f => Unreadable(f)
    BY States DEF Unreadable
  <2> QED
    BY <1>1, <1>2, <2>1 DEF LookAtList, Ends, GoesOnToWrite, DirTyped, Moves, Given
<1>3. CASE ReadKey(t)
  <2>1. {k \in file["key"].holds : k[2] = doing[t].arg} # {} => file["key"] # Torn
    BY States
  <2> QED
    BY <1>1, <1>3, <2>1 DEF ReadKey, Ends, DirTyped, Moves, Given
<1>4. CASE MakeKey(t)
  BY <1>1, <1>4, States DEF MakeKey, GoesOnToWrite, DirTyped, Moves, Given
<1>5. CASE Truncates(t)
  BY <1>1, <1>5 DEF Truncates, DirTyped, Moves, Given, Untouched
<1>6. CASE Fills(t)
  BY <1>1, <1>6 DEF Fills, Ends, DirTyped, Moves, Given, Untouched
<1> QED
  BY <1>2, <1>3, <1>4, <1>5, <1>6 DEF FileStep

(* A key file, a pin list or a petname list that a kill left torn is       *)
(* neither repaired nor begun anew: it stays torn, and every command that  *)
(* looks at it fails.                                                      *)
THEOREM TornStays == Spec => TornFileStays
<1>1. ASSUME IInv, [Next]_vars, NEW f \in Files \ {"subs"}, file[f] = Torn,
             Untouched(f)
      PROVE  /\ file'[f] = Torn
             /\ \A t \in Tasks : Given(t, f)
  <2>1. DirInv /\ DirTyped
    BY <1>1 DEF IInv, DirInv
  <2>2. ASSUME NEW t \in Tasks, FileStep(t)
        PROVE  file'[f] = Torn /\ \A u \in Tasks : Given(u, f)
    BY <1>1, <2>1, <2>2, TornFile DEF Moves, Given
  <2>3. ASSUME NEW t \in Tasks, NEW op, NEW g, NEW x, NEW n, Operates(t, op, g, x, n)
        PROVE  file'[f] = Torn /\ \A u \in Tasks : Given(u, f)
    BY <1>1, <2>1, <2>3 DEF Operates, DirTyped, Given
  <2>4. CASE UNCHANGED dirVars
    BY <1>1, <2>4 DEF dirVars, Given
  <2>5. ASSUME UNCHANGED <<file, at>>
        PROVE  file'[f] = Torn /\ \A u \in Tasks : Given(u, f)
    BY <1>1, <2>5 DEF Given
  <2>6. ASSUME NEW t \in Tasks, FileCommand(t) \/ BrowserCommand(t)
        PROVE  file'[f] = Torn /\ \A u \in Tasks : Given(u, f)
    BY <2>3, <2>5, <2>6
    DEF FileCommand, BrowserCommand, FetchSite, GetIdentity, PublishSite, Command,
        LoadsKey
  <2>7. ASSUME NEW t \in Tasks, Step(t)
        PROVE  file'[f] = Torn /\ \A u \in Tasks : Given(u, f)
    BY <2>2, <2>3, <2>4, <2>7
    DEF Step, KeyLoaded, KeyFails, Spawned, Published, Mark, Listens, Downloaded,
        FetchFails, OpenPage, FillPage, LoadsKey
  <2>8. ASSUME NEW t \in Tasks, Killed(t)
        PROVE  file'[f] = Torn /\ \A u \in Tasks : Given(u, f)
    BY <1>1, <2>1, <2>8 DEF Killed, Ends, DirTyped, Given
  <2>9. CASE Restart
    BY <1>1, <2>9 DEF Restart, Given
  <2> QED
    BY <1>1, <2>4, <2>6, <2>7, <2>8, <2>9 DEF Next, vars
<1>2. IInv /\ [Next]_vars =>
        [\A f \in Files \ {"subs"} :
           file[f] = Torn /\ (\A t \in Tasks : at[t] \in {"open", "fill"}
                                                  => doing[t].file # f)
           => /\ file'[f] = Torn
              /\ \A t \in Tasks :
                   at[t] = "look" /\ doing[t].file = f /\ at'[t] # "look"
                   => at'[t] = "idle" /\ outcome'[t] # "ok"]_dirVars
  BY <1>1 DEF Untouched, Given
<1> QED
  BY <1>2, InductiveInvariant, PTL DEF Spec, TornFileStays
=============================================================================
