---------------------------- MODULE PartsProofs ----------------------------
(***************************************************************************)
(* What holds of the parts that share no state, each in its own            *)
(* specification: the log of manifests, the admission of peers, the        *)
(* framing of messages, onion requests, signed apps and shared documents.  *)
(***************************************************************************)
EXTENDS ManifestLog, Admission, Framing, OnionRoute, AppHost, SharedDoc,
        FiniteSetTheorems, WellFoundedInduction, TLAPS

-----------------------------------------------------------------------------
(* Manifests.  A log is in order: each entry comes after all before it.     *)
LogTypeOK == log \in [Publishers -> Seq(Manifests)]

(* What LogGrows says of entries, without the search by number.            *)
Ordered ==
  \A a \in Publishers :
    /\ \A i \in DOMAIN log[a] : log[a][i].verified /\ log[a][i].author = a
    /\ \A i, j \in DOMAIN log[a] :
         i < j => log[a][i].sequence < log[a][j].sequence

LogInv == LogTypeOK /\ Ordered

(* A manifest that is new comes after every manifest of its author: the    *)
(* last has the greatest number of all.                                    *)
LEMMA NewIsGreater ==
  ASSUME LogInv, NEW m \in Manifests, IsNew(m)
  PROVE  \A i \in DOMAIN log[m.author] :
           log[m.author][i].sequence < m.sequence
<1> DEFINE s == log[m.author]
<1>1. m.author \in Publishers /\ m.sequence \in Nat
  BY ManifestLogAssumption DEF Manifests
<1>2. s \in Seq(Manifests)
  BY <1>1 DEF LogInv, LogTypeOK
<1>3. SUFFICES ASSUME NEW i \in DOMAIN s
               PROVE  s[i].sequence < m.sequence
  OBVIOUS
<1>4. Len(s) \in DOMAIN s /\ i \in 1..Len(s) /\ s # <<>>
  BY <1>2, <1>3
<1>5. s[i] \in Manifests /\ s[Len(s)] \in Manifests
  BY <1>2, <1>4
<1>6. s[i].sequence \in Nat /\ s[Len(s)].sequence \in Nat
  BY <1>5, ManifestLogAssumption DEF Manifests
<1>7. s[Len(s)].sequence < m.sequence
  BY <1>4 DEF IsNew, LastSeq
<1>8. i < Len(s) => s[i].sequence < s[Len(s)].sequence
  BY <1>1, <1>3, <1>4 DEF LogInv, Ordered
<1>9. i = Len(s) \/ i < Len(s)
  BY <1>2, <1>4
<1> QED
  BY <1>1, <1>6, <1>7, <1>8, <1>9

(* The invariant holds at the start, before any manifest came.             *)
LEMMA LogInit == ManifestLogInit => LogInv
  BY DEF ManifestLogInit, LogInv, LogTypeOK, Ordered

(* Accepting a manifest, or none, keeps the invariant.                     *)
LEMMA LogNext == LogInv /\ [ManifestLogNext]_log => LogInv'
<1> SUFFICES ASSUME LogInv, [ManifestLogNext]_log
             PROVE  LogInv'
  OBVIOUS
<1>1. CASE UNCHANGED log
  BY <1>1 DEF LogInv, LogTypeOK, Ordered
<1>2. ASSUME NEW m \in Manifests, Accept(m)
      PROVE  LogInv'
  <2> DEFINE s == log[m.author]
  <2>1. m.author \in Publishers /\ m.verified
    BY <1>2 DEF Manifests, Accept, IsNew
  <2>2. s \in Seq(Manifests)
    BY <2>1 DEF LogInv, LogTypeOK
  <2>3. /\ log' = [log EXCEPT ![m.author] = Append(s, m)]
        /\ log'[m.author] = Append(s, m)
        /\ \A a \in Publishers : a # m.author => log'[a] = log[a]
    BY <1>2, <2>1 DEF Accept, LogInv, LogTypeOK
  <2>4. LogTypeOK'
    BY <1>2, <2>2, <2>3 DEF LogInv, LogTypeOK
  <2>5. /\ DOMAIN Append(s, m) = 1..(Len(s) + 1)
        /\ \A i \in 1..Len(s) : Append(s, m)[i] = s[i]
        /\ Append(s, m)[Len(s) + 1] = m
        /\ DOMAIN s = 1..Len(s)
        /\ Len(s) \in Nat
    BY <1>2, <2>2
  <2>6. \A i \in DOMAIN s : s[i].sequence < m.sequence
    BY <1>2, NewIsGreater DEF Accept
  <2>7. \A i \in DOMAIN Append(s, m) :
          Append(s, m)[i].verified /\ Append(s, m)[i].author = m.author
    BY <2>1, <2>5 DEF LogInv, Ordered
  <2>8. ASSUME NEW i \in DOMAIN Append(s, m), NEW j \in DOMAIN Append(s, m),
               i < j
        PROVE  Append(s, m)[i].sequence < Append(s, m)[j].sequence
    <3>1. i \in DOMAIN s /\ Append(s, m)[i] = s[i]
      BY <2>5, <2>8
    <3>2. CASE j = Len(s) + 1
      BY <2>5, <2>6, <3>1, <3>2
    <3>3. CASE j # Len(s) + 1
      <4>1. j \in DOMAIN s /\ Append(s, m)[j] = s[j]
        BY <2>5, <3>3
      <4> QED
        BY <2>1, <2>8, <3>1, <4>1 DEF LogInv, Ordered
    <3> QED
      BY <3>2, <3>3
  <2>9. Ordered'
    BY <2>3, <2>7, <2>8 DEF LogInv, Ordered
  <2> QED
    BY <2>4, <2>9 DEF LogInv
<1> QED
  BY <1>1, <1>2 DEF ManifestLogNext

(* In a growing log a number is the number of one entry: at_sequence finds *)
(* it.                                                                     *)
LEMMA OrderedGrows == LogInv => LogGrows
<1> SUFFICES ASSUME LogInv, NEW a \in Publishers, NEW i \in DOMAIN log[a]
             PROVE  AtSequence(a, log[a][i].sequence) = {i}
  BY DEF LogGrows, LogInv, Ordered
<1>1. log[a] \in Seq(Manifests) /\ DOMAIN log[a] = 1..Len(log[a])
  BY DEF LogInv, LogTypeOK
<1>2. \A j \in DOMAIN log[a] : log[a][j].sequence \in Nat
  <2>1. \A m \in Manifests : m.sequence \in Nat
    BY ManifestLogAssumption DEF Manifests
  <2>2. \A j \in DOMAIN log[a] : log[a][j] \in Manifests
    BY <1>1
  <2> QED
    BY <2>1, <2>2
<1>3. \A j \in DOMAIN log[a] :
        j # i => log[a][j].sequence # log[a][i].sequence
  <2>1. ASSUME NEW j \in DOMAIN log[a], j # i
        PROVE  log[a][j].sequence # log[a][i].sequence
    <3>1. j < i \/ i < j
      BY <1>1, <2>1
    <3>2. \/ log[a][j].sequence < log[a][i].sequence
          \/ log[a][i].sequence < log[a][j].sequence
      BY <3>1 DEF LogInv, Ordered
    <3> QED
      BY <1>2, <3>2
  <2> QED
    BY <2>1
<1>4. \A j \in 1..(i - 1) : j \in DOMAIN log[a] /\ j # i
  BY <1>1
<1> QED
  BY <1>3, <1>4 DEF AtSequence

(* An author's log holds his verified manifests in growing sequence, and   *)
(* at_sequence finds each by its number, for any set of authors and roots  *)
(* and however great the numbers are.                                      *)
THEOREM LogAlwaysGrows == ManifestLogSpec => []LogGrows
<1>1. ManifestLogSpec => []LogInv
  BY LogInit, LogNext, PTL DEF ManifestLogSpec
<1> QED
  BY <1>1, OrderedGrows, PTL
-----------------------------------------------------------------------------
(* Admission.  The counter of a peer is the length of the row of bad       *)
(* attempts that its last attempts are.                                    *)
Row(p) ==
  /\ failures[p] <= Len(judged[p])
  /\ failures[p] <= BanThreshold
  /\ \A i \in (Len(judged[p]) - failures[p] + 1)..Len(judged[p]) : ~judged[p][i]
  /\ failures[p] < Len(judged[p]) => judged[p][Len(judged[p]) - failures[p]]

AdmissionInv ==
  /\ now \in 0..Latest
  /\ failures \in [Applicants -> Nat]
  /\ judged \in [Applicants -> Seq(BOOLEAN)]
  /\ \A p \in Applicants : Row(p)

IsPower(n, P) == 2^n = P

LEMMA Powers ==
  ASSUME NEW k \in 0..8
  PROVE  \E P \in 1..256 : /\ IsPower(k, P) /\ IsPower(k + 8, 256 * P)
                           /\ k = 0 => P = 1
                           /\ k = 8 => P = 256
<1>1. /\ IsPower(0, 1) /\ IsPower(1, 2) /\ IsPower(2, 4) /\ IsPower(3, 8)
      /\ IsPower(4, 16) /\ IsPower(5, 32) /\ IsPower(6, 64) /\ IsPower(7, 128)
      /\ IsPower(8, 256) /\ IsPower(9, 512) /\ IsPower(10, 1024)
      /\ IsPower(11, 2048) /\ IsPower(12, 4096) /\ IsPower(13, 8192)
      /\ IsPower(14, 16384) /\ IsPower(15, 32768) /\ IsPower(16, 65536)
  BY DEF IsPower
<1>2. CASE k = 0
  BY <1>1, <1>2
<1>3. CASE k = 1
  BY <1>1, <1>3
<1>4. CASE k = 2
  BY <1>1, <1>4
<1>5. CASE k = 3
  BY <1>1, <1>5
<1>6. CASE k = 4
  BY <1>1, <1>6
<1>7. CASE k = 5
  BY <1>1, <1>7
<1>8. CASE k = 6
  BY <1>1, <1>8
<1>9. CASE k = 7
  BY <1>1, <1>9
<1>10. CASE k = 8
  BY <1>1, <1>10
<1> QED
  BY <1>2, <1>3, <1>4, <1>5, <1>6, <1>7, <1>8, <1>9, <1>10

(* Byte by byte, or as a number: the same bits must be zero.               *)
LEMMA LeadingZeros ==
  ASSUME NEW hash \in (0..255) \X (0..255), NEW d \in 0..16
  PROVE  CheckDifficulty(hash, d) <=> hash[1] * 256 + hash[2] < 2^(16 - d)
<1>1. PICK a \in 0..255, b \in 0..255 : a = hash[1] /\ b = hash[2]
  OBVIOUS
<1>2. CASE d < 8
  <2>1. PICK k \in 1..8 : k = 8 - d /\ k + 8 = 16 - d
    BY <1>2
  <2>2. PICK P \in 1..256 :
          IsPower(k, P) /\ IsPower(k + 8, 256 * P) /\ (k = 8 => P = 256)
    BY Powers
  <2>3. 2^(8 - d) = P /\ 2^(16 - d) = 256 * P
    BY <2>1, <2>2 DEF IsPower
  <2>4. CheckDifficulty(hash, d) <=> (d = 0 \/ a < P)
    BY <1>1, <1>2, <2>3 DEF CheckDifficulty
  <2>5. (d = 0 \/ a < P) <=> a * 256 + b < 256 * P
    BY <2>1, <2>2
  <2> QED
    BY <1>1, <2>3, <2>4, <2>5
<1>3. CASE d >= 8
  <2>1. PICK k \in 0..8 : k = 16 - d /\ k = 8 - (d - 8)
    BY <1>3
  <2>2. PICK P \in 1..256 :
          IsPower(k, P) /\ (k = 8 => P = 256) /\ (k = 0 => P = 1)
    BY Powers
  <2>3. 2^(8 - (d - 8)) = P /\ 2^(16 - d) = P
    BY <2>1, <2>2 DEF IsPower
  <2>4. CheckDifficulty(hash, d) <=> (a = 0 /\ b < P)
    <3>1. CASE d = 8
      BY <1>1, <2>1, <2>2, <3>1 DEF CheckDifficulty
    <3>2. CASE d = 16
      BY <1>1, <2>1, <2>2, <3>2 DEF CheckDifficulty
    <3>3. CASE d \in 9..15
      <4>1. /\ DOMAIN hash = {1, 2}
            /\ d - 8 * (1 - 1) = d /\ d - 8 * (2 - 1) = d - 8
        BY <3>3
      <4>2. /\ d >= 8 /\ ~(d <= 0)
            /\ ~(d - 8 <= 0) /\ ~(d - 8 >= 8)
        BY <3>3
      <4>3. CheckDifficulty(hash, d) <=>
              /\ CASE d <= 0 -> TRUE
                   [] d >= 8 -> hash[1] = 0
                   [] OTHER -> hash[1] < 2^(8 - d)
              /\ CASE d - 8 <= 0 -> TRUE
                   [] d - 8 >= 8 -> hash[2] = 0
                   [] OTHER -> hash[2] < 2^(8 - (d - 8))
        BY <4>1, Zenon DEF CheckDifficulty
      <4> QED
        BY <1>1, <2>3, <4>2, <4>3
    <3> QED
      BY <1>3, <3>1, <3>2, <3>3
  <2>5. (a = 0 /\ b < P) <=> a * 256 + b < P
    BY <2>2
  <2> QED
    BY <1>1, <2>3, <2>4, <2>5
<1> QED
  BY <1>2, <1>3

LEMMA VerifiesGood ==
  ASSUME AdmissionInv, NEW token \in Tokens, NEW p \in Applicants
  PROVE  Verify(token, p) <=> Good(token, p)
<1>1. token.hash \in (0..255) \X (0..255)
  BY AdmissionAssumption DEF Tokens, Hashes
<1>2. CheckDifficulty(token.hash, Difficulty) <=>
        token.hash[1] * 256 + token.hash[2] < 2^(16 - Difficulty)
  BY <1>1, LeadingZeros, AdmissionAssumption
<1>3. (token.timestamp <= now /\ now - token.timestamp <= MaxAge) <=>
        token.timestamp \in (now - MaxAge)..now
  BY AdmissionAssumption DEF AdmissionInv, Tokens
<1> QED
  BY <1>2, <1>3 DEF Verify, Good

LEMMA Judges ==
  ASSUME AdmissionInv, NEW token \in Tokens, NEW p \in Applicants, Admit(p, token)
  PROVE  AdmissionInv'
<1> DEFINE good == Good(token, p)
           n == Len(judged[p])
<1>1. /\ failures[p] \in Nat /\ judged[p] \in Seq(BOOLEAN) /\ n \in Nat /\ Row(p)
      /\ failures[p] < BanThreshold /\ good \in BOOLEAN
  BY AdmissionAssumption DEF AdmissionInv, Admit, IsBanned, Good
<1>2. /\ failures' = [failures EXCEPT ![p] = IF good THEN 0 ELSE failures[p] + 1]
      /\ judged' = [judged EXCEPT ![p] = Append(judged[p], good)]
      /\ now' = now
  BY VerifiesGood DEF Admit
<1>3. /\ failures' \in [Applicants -> Nat] /\ judged' \in [Applicants -> Seq(BOOLEAN)]
  BY <1>1, <1>2 DEF AdmissionInv
<1>4. \A q \in Applicants : q # p =>
        failures'[q] = failures[q] /\ judged'[q] = judged[q]
  BY <1>2 DEF AdmissionInv
<1>5. /\ Len(judged'[p]) = n + 1
      /\ judged'[p][n + 1] = good
      /\ \A i \in 1..n : judged'[p][i] = judged[p][i]
      /\ failures'[p] = IF good THEN 0 ELSE failures[p] + 1
  BY <1>1, <1>2 DEF AdmissionInv
<1> HIDE DEF good, n
<1>6. Row(p)'
  <2>1. CASE good
    <3>1. failures'[p] = 0 /\ Len(judged'[p]) = n + 1 /\ judged'[p][n + 1]
      BY <1>5, <2>1
    <3>2. (n + 1) - 0 = n + 1 /\ (n + 1) - 0 + 1 > n + 1 /\ 0 <= n + 1 /\ 0 <= BanThreshold
      BY <1>1, AdmissionAssumption
    <3> QED
      BY <1>1, <3>1, <3>2 DEF Row
  <2>2. CASE ~good
    <3>1. failures'[p] <= Len(judged'[p]) /\ failures'[p] <= BanThreshold
      BY <1>1, <1>5, <2>2, AdmissionAssumption DEF Row, n
    <3>2. ASSUME NEW i \in (Len(judged'[p]) - failures'[p] + 1)..Len(judged'[p])
          PROVE  ~judged'[p][i]
      <4>1. i = n + 1 \/ i \in (n - failures[p] + 1)..n
        BY <1>1, <1>5, <2>2, <3>2
      <4>2. i \in 1..n \/ i = n + 1
        BY <1>1, <4>1 DEF Row, n
      <4> QED
        BY <1>1, <1>5, <2>2, <4>1, <4>2 DEF Row, n
    <3>3. failures'[p] < Len(judged'[p]) =>
            judged'[p][Len(judged'[p]) - failures'[p]]
      <4>1. Len(judged'[p]) - failures'[p] = n - failures[p]
        BY <1>1, <1>5, <2>2
      <4>2. SUFFICES ASSUME failures'[p] < Len(judged'[p])
                     PROVE  judged'[p][n - failures[p]]
        BY <4>1
      <4>3. failures[p] < n /\ n - failures[p] \in 1..n
        BY <1>1, <1>5, <2>2, <4>2
      <4>4. judged[p][n - failures[p]]
        BY <1>1, <4>3 DEF Row, n
      <4>5. judged'[p][n - failures[p]] = judged[p][n - failures[p]]
        BY <1>5, <4>3
      <4> QED
        BY <4>4, <4>5
    <3> QED
      BY <3>1, <3>2, <3>3 DEF Row
  <2> QED
    BY <2>1, <2>2
<1>7. \A q \in Applicants : Row(q)'
  BY <1>4, <1>6 DEF AdmissionInv, Row
<1> QED
  BY <1>2, <1>3, <1>7 DEF AdmissionInv

(* A peer is banned exactly when its last BanThreshold attempts all had a  *)
(* token that was not good, for any difficulty up to the 16 bits that are  *)
(* modelled, any age and any threshold.                                    *)
THEOREM BansByRow == AdmissionSpec => []BanNeedsRow
<1>1. AdmissionInit => AdmissionInv
  BY AdmissionAssumption DEF AdmissionInit, AdmissionInv, Row
<1>2. AdmissionInv /\ [AdmissionNext]_admissionVars => AdmissionInv'
  <2> SUFFICES ASSUME AdmissionInv, [AdmissionNext]_admissionVars
               PROVE  AdmissionInv'
    OBVIOUS
  <2>1. ASSUME NEW p \in Applicants, NEW token \in Tokens, Admit(p, token)
        PROVE  AdmissionInv'
    BY <2>1, Judges
  <2>2. CASE Tick
    BY <2>2, AdmissionAssumption DEF Tick, AdmissionInv, Row
  <2>3. CASE UNCHANGED admissionVars
    BY <2>3 DEF admissionVars, AdmissionInv, Row
  <2> QED
    BY <2>1, <2>2, <2>3 DEF AdmissionNext
<1>3. AdmissionInv => BanNeedsRow
  <2> SUFFICES ASSUME AdmissionInv, NEW p \in Applicants
               PROVE  IsBanned(p) <=>
                        /\ Len(judged[p]) >= BanThreshold
                        /\ \A i \in (Len(judged[p]) - BanThreshold + 1)..Len(judged[p]) :
                             ~judged[p][i]
    BY DEF BanNeedsRow
  <2>1. /\ failures[p] \in Nat /\ Len(judged[p]) \in Nat /\ Row(p)
        /\ BanThreshold \in Nat
    BY AdmissionAssumption DEF AdmissionInv
  <2>2. CASE IsBanned(p)
    BY <2>1, <2>2 DEF IsBanned, Row
  <2>3. CASE ~IsBanned(p)
    <3>1. failures[p] < BanThreshold
      BY <2>1, <2>3 DEF IsBanned
    <3>2. ASSUME Len(judged[p]) >= BanThreshold
          PROVE  \E i \in (Len(judged[p]) - BanThreshold + 1)..Len(judged[p]) :
                   judged[p][i]
      <4>1. Len(judged[p]) - failures[p] \in
              (Len(judged[p]) - BanThreshold + 1)..Len(judged[p])
        BY <2>1, <3>1, <3>2
      <4> QED
        BY <2>1, <3>1, <3>2, <4>1 DEF Row
    <3> QED
      BY <2>3, <3>2
  <2> QED
    BY <2>2, <2>3
<1> QED
  BY <1>1, <1>2, <1>3, PTL DEF AdmissionSpec

-----------------------------------------------------------------------------
(* Framing.  The length field is what the sender wrote; what was decoded   *)
(* was in the packet, which is not touched any more.                       *)
FramingInv ==
  /\ sent \in Nat
  /\ wire \in [codec : Codecs, field : Nat, size : Nat]
  /\ wire.field = Field(wire.codec, sent)
  /\ got # Nothing => wire # NoPacket
  /\ got.is = "message" =>
       /\ got.length = wire.field
       /\ wire.size >= Header[wire.codec] + wire.field

LEMMA Fields ==
  ASSUME NEW codec \in Codecs, NEW n \in Nat
  PROVE  /\ Field(codec, n) \in Nat
         /\ codec = "pad" => Field(codec, n) = n
         /\ codec # "pad" => Field(codec, n) = n % 65536
         /\ n < 65536 => Field(codec, n) = n
         /\ Header[codec] \in Nat
         /\ Fill(codec, n) \subseteq Nat
BY DEF Field, Codecs, Header, Fill, BLOCK_SIZE

(* A message that arrives is the one that was sent, whole, for any set of  *)
(* lengths; of a longer one than a pluggable transport has a length field  *)
(* for, exactly the first bytes arrive that the field counts.              *)
THEOREM FramesWhole == FramingSpec => []DeliveredWhole
<1>1. FramingInit => FramingInv
  BY DEF FramingInit, FramingInv, NoPacket, Nothing, Codecs, Field
<1>2. FramingInv /\ [FramingNext]_framingVars => FramingInv'
  <2> SUFFICES ASSUME FramingInv, [FramingNext]_framingVars
               PROVE  FramingInv'
    OBVIOUS
  <2>1. ASSUME NEW codec \in Codecs, NEW n \in Lengths, Obfuscate(codec, n)
        PROVE  FramingInv'
    <3>1. n \in Nat /\ Field(codec, n) \in Nat /\ Header[codec] \in Nat
      BY Fields, FramingAssumption
    <3>2. PICK fill \in Nat :
            wire' = [codec |-> codec, field |-> Field(codec, n),
                     size |-> Header[codec] + n + fill]
      BY <2>1, <3>1, Fields DEF Obfuscate
    <3>3. got = Nothing /\ got' = Nothing /\ sent' = n
      BY <2>1 DEF Obfuscate, FramingInv
    <3> QED
      BY <3>1, <3>2, <3>3 DEF FramingInv, Nothing
  <2>2. ASSUME NEW size \in Cuts, Cut(size)
        PROVE  FramingInv'
    <3>1. size \in Nat
      BY FramingAssumption DEF Cuts
    <3>2. got = Nothing /\ got' = Nothing /\ sent' = sent
      BY <2>2 DEF Cut
    <3>3. wire' = [codec |-> wire.codec, field |-> wire.field, size |-> size]
      BY <2>2 DEF Cut, FramingInv
    <3> QED
      BY <3>1, <3>2, <3>3 DEF FramingInv, Nothing
  <2>3. CASE Deobfuscate
    <3>1. wire # NoPacket /\ got' = Decoded(wire) /\ UNCHANGED <<sent, wire>>
      BY <2>3 DEF Deobfuscate
    <3>2. Header[wire.codec] \in Nat
      BY Fields DEF FramingInv
    <3> QED
      BY <3>1, <3>2 DEF FramingInv, Decoded, Error, Message
  <2>4. CASE UNCHANGED framingVars
    BY <2>4 DEF framingVars, FramingInv
  <2> QED
    BY <2>1, <2>2, <2>3, <2>4 DEF FramingNext
<1>3. FramingInv => DeliveredWhole
  BY Fields DEF FramingInv, DeliveredWhole
<1> QED
  BY <1>1, <1>2, <1>3, PTL DEF FramingSpec

-----------------------------------------------------------------------------
(* Apps.  Who made a manifest file signed what it says is signed.          *)
AppInv ==
  /\ wasm \subseteq Wasms
  /\ \A m \in manifest : [by |-> m.by, over |-> m.over] \in signed
  /\ RunsWithinGrant

(* A run that ends with a result is of a module its author signed, within  *)
(* its fuel and with what the user granted it, for any modules, grants and *)
(* changes to the two files.                                               *)
THEOREM AppsWithinGrant == AppSpec => []RunsWithinGrant
<1>1. AppInit => AppInv
  BY DEF AppInit, AppInv, RunsWithinGrant
<1>2. AppInv /\ [AppNext]_appVars => AppInv'
  <2> SUFFICES ASSUME AppInv, [AppNext]_appVars
               PROVE  AppInv'
    OBVIOUS
  <2>1. ASSUME NEW d \in Developers, NEW caps \in Asked, NEW w \in Wasms,
               Sign(d, w, caps)
        PROVE  AppInv'
    BY <2>1 DEF Sign, AppInv, RunsWithinGrant
  <2>2. ASSUME NEW d \in Developers, NEW caps \in Asked, Altered(d, caps)
        PROVE  AppInv'
    <3>1. UNCHANGED <<wasm, signed, ran>>
      BY <2>2 DEF Altered
    <3>2. ASSUME NEW m \in manifest'
          PROVE  [by |-> m.by, over |-> m.over] \in signed
      <4>1. PICK o \in manifest :
              m = [o EXCEPT !.contents = Contents(d, o.contents.wasm, caps)]
        BY <2>2, <3>2 DEF Altered
      <4>2. m.by = o.by /\ m.over = o.over
        BY <4>1
      <4> QED
        BY <4>2 DEF AppInv
    <3> QED
      BY <3>1, <3>2 DEF AppInv, RunsWithinGrant
  <2>3. ASSUME NEW w \in Wasms, Replaced(w)
        PROVE  AppInv'
    BY <2>3 DEF Replaced, AppInv, RunsWithinGrant
  <2>4. ASSUME NEW granted \in Asked, NEW fuel \in 0..MaxFuel, RunApp(granted, fuel)
        PROVE  AppInv'
    <3>1. PICK m \in manifest, w \in wasm :
            /\ VerifyApp(m, w)
            /\ w.imports \subseteq Linked(m, granted)
            /\ w.steps <= fuel
            /\ ran' = {[over |-> m.contents, module |-> w, granted |-> granted,
                        fuel |-> fuel]}
      BY <2>4 DEF RunApp
    <3>2. UNCHANGED <<manifest, wasm, signed>>
      BY <2>4 DEF RunApp
    <3>3. w.calls \ {"log"} \subseteq {Gated[x] : x \in granted}
      BY <3>1, AppHostAssumption DEF AppInv, Linked
    <3>4. /\ [by |-> m.contents.author, over |-> m.contents] \in signed
          /\ m.contents.wasm = w
      BY <3>1 DEF AppInv, VerifyApp
    <3> QED
      BY <3>1, <3>2, <3>3, <3>4 DEF AppInv, RunsWithinGrant
  <2>5. CASE UNCHANGED appVars
    BY <2>5 DEF appVars, AppInv, RunsWithinGrant
  <2> QED
    BY <2>1, <2>2, <2>3, <2>4, <2>5 DEF AppNext
<1>3. AppInv => RunsWithinGrant
  BY DEF AppInv
<1> QED
  BY <1>1, <1>2, <1>3, PTL DEF AppSpec

-----------------------------------------------------------------------------
(* Onion requests.  A hop with the key it announced in this session or an  *)
(* earlier one; a packet has one layer for a target, or two.               *)
Hop(h) ==
  /\ h.node \in Nodes
  /\ \E n \in Nat : h.key = <<h.node, n>> /\ n <= session[h.node]

Layer(h, next, payload) == [key |-> h.key, next |-> next, payload |-> payload]

Direct(last) ==
  /\ outcome # "none"
  /\ Hop(last) /\ last.node = target
  /\ route = <<last>>

Relayed(h, last) ==
  /\ outcome # "none"
  /\ Hop(h) /\ Hop(last) /\ last.node = target
  /\ route = <<h, last>>

DirectInv(last) ==
  /\ outcome \in {"built", "sent"} => packet = <<Layer(last, {}, TRUE)>>
  /\ outcome \in {"built", "refused", "sent", "unpeeled"} => seen = {}
  /\ outcome = "sent" => holder = {last.node}
  /\ outcome = "answered" => seen = {<<last.node>>}
  /\ outcome = "unpeeled" => last.key # <<last.node, session[last.node]>>

RelayedInv(h, last) ==
  LET whole == <<Layer(h, {last.node}, FALSE), Layer(last, {}, TRUE)>>
      first == <<h.node, last.node>>
  IN
  /\ outcome = "built" => packet = whole
  /\ outcome \in {"built", "refused"} => seen = {}
  /\ outcome = "sent" =>
       \/ packet = whole /\ seen = {} /\ holder = {h.node}
       \/ /\ packet = <<Layer(last, {}, TRUE)>>
          /\ seen = {first} /\ holder = {last.node}
  /\ outcome = "answered" => seen = {first, <<last.node>>}
  /\ outcome = "unpeeled" =>
       \/ seen = {} /\ h.key # <<h.node, session[h.node]>>
       \/ seen = {first} /\ last.key # <<last.node, session[last.node]>>

Keys ==
  /\ session \in [Nodes -> Nat]
  /\ DOMAIN announced = Nodes
  /\ \A p \in Nodes : \A n \in announced[p] : n \in Nat /\ n <= session[p]

OnionInv ==
  /\ Keys
  /\ outcome \in {"none", "built", "sent", "answered", "refused", "unpeeled"}
  /\ \/ outcome = "none" /\ seen = {}
     \/ \E last : Direct(last) /\ DirectInv(last)
     \/ \E h, last : Relayed(h, last) /\ RelayedInv(h, last)

LEMMA Wrapped ==
  ASSUME NEW h, NEW last
  PROVE  /\ WrapOnion(<<last>>) = <<Layer(last, {}, TRUE)>>
         /\ WrapOnion(<<h, last>>) =
              <<Layer(h, {last.node}, FALSE), Layer(last, {}, TRUE)>>
<1> DEFINE one == <<last>>
           two == <<h, last>>
<1>1. /\ DOMAIN one = 1..1 /\ Len(one) = 1 /\ one[1] = last
      /\ DOMAIN two = 1..2 /\ Len(two) = 2 /\ two[1] = h /\ two[2] = last
  OBVIOUS
<1> DEFINE layer(hops, i) ==
             [key |-> hops[i].key,
              next |-> IF i = Len(hops) THEN {} ELSE {hops[i + 1].node},
              payload |-> i = Len(hops)]
<1> HIDE DEF one, two
<1>2. layer(one, 1) = Layer(last, {}, TRUE)
  <2>1. (1 = Len(one)) = TRUE
    BY <1>1
  <2> QED
    BY <1>1, <2>1 DEF Layer
<1>3. layer(two, 1) = Layer(h, {last.node}, FALSE)
  <2>1. (1 = Len(two)) = FALSE /\ 1 + 1 = 2
    BY <1>1
  <2> QED
    BY <1>1, <2>1 DEF Layer
<1>4. layer(two, 2) = Layer(last, {}, TRUE)
  <2>1. (2 = Len(two)) = TRUE
    BY <1>1
  <2> QED
    BY <1>1, <2>1 DEF Layer
<1>5. WrapOnion(one) = <<layer(one, 1)>>
  <2>1. PICK w : w = WrapOnion(one)
    OBVIOUS
  <2>2. w = [i \in DOMAIN one |-> layer(one, i)]
    BY <2>1 DEF WrapOnion
  <2>3. w = [i \in 1..1 |-> w[i]] /\ w[1] = layer(one, 1)
    BY <1>1, <2>2
  <2>4. w = <<w[1]>>
    BY <2>3
  <2> QED
    BY <2>1, <2>3, <2>4
<1>6. WrapOnion(two) = <<layer(two, 1), layer(two, 2)>>
  <2>1. PICK w : w = WrapOnion(two)
    OBVIOUS
  <2>2. w = [i \in DOMAIN two |-> layer(two, i)]
    BY <2>1 DEF WrapOnion
  <2>3. w = [i \in 1..2 |-> w[i]] /\ w[1] = layer(two, 1) /\ w[2] = layer(two, 2)
    BY <1>1, <2>2
  <2>4. w = <<w[1], w[2]>>
    BY <2>3
  <2> QED
    BY <2>1, <2>3, <2>4
<1> HIDE DEF layer
<1> QED
  BY <1>2, <1>3, <1>4, <1>5, <1>6 DEF one, two

LEMMA TwoOf ==
  ASSUME NEW x, NEW y, x # y
  PROVE  Cardinality({x, y}) = 2
<1>1. IsFiniteSet({x}) /\ Cardinality({x}) = 1 /\ y \notin {x}
  BY FS_Singleton
<1>2. Cardinality({x} \cup {y}) = 2
  BY <1>1, FS_AddElement
<1>3. {x, y} = {x} \cup {y}
  OBVIOUS
<1> QED
  BY <1>2, <1>3

(* What the invariant says of a packet does not depend on anything else.   *)
LEMMA PacketStays ==
  ASSUME OnionInv, Keys', UNCHANGED <<session, target, route>>,
         \/ UNCHANGED <<packet, holder, outcome, seen>>
         \/ /\ outcome = "built" /\ outcome' = "refused"
            /\ UNCHANGED seen
         \/ /\ outcome = "built" /\ outcome' = "sent"
            /\ holder' = {route[1].node} /\ UNCHANGED <<packet, seen>>
  PROVE  OnionInv'
<1>1. \A h : Hop(h) => Hop(h)'
  BY DEF Hop
<1>2. CASE outcome = "none" /\ seen = {}
  BY <1>2 DEF OnionInv
<1>3. ASSUME NEW last, Direct(last), DirectInv(last)
      PROVE  OnionInv'
  <2>1. route[1] = last
    BY <1>3 DEF Direct
  <2>2. Direct(last)' /\ DirectInv(last)'
    BY <1>1, <1>3, <2>1 DEF Direct, DirectInv
  <2> QED
    BY <2>2 DEF OnionInv, Direct
<1>4. ASSUME NEW h, NEW last, Relayed(h, last), RelayedInv(h, last)
      PROVE  OnionInv'
  <2>1. route[1] = h
    BY <1>4 DEF Relayed
  <2>2. Relayed(h, last)' /\ RelayedInv(h, last)'
    BY <1>1, <1>4, <2>1 DEF Relayed, RelayedInv
  <2> QED
    BY <2>2 DEF OnionInv, Relayed
<1> QED
  BY <1>2, <1>3, <1>4 DEF OnionInv

LEMMA HopsOK ==
  ASSUME Keys, NEW p \in Nodes, NEW h \in Hops(p)
  PROVE  Hop(h) /\ h.node = p
BY DEF Keys, Hops, Hop

(* The keys of a session only get older.                                   *)
LEMMA SessionsPass ==
  ASSUME Keys, NEW p \in Nodes, Restart(p)
  PROVE  /\ Keys'
         /\ \A h : Hop(h) => Hop(h)'
         /\ \A h : Hop(h) /\ h.key # <<h.node, session[h.node]>>
              => h.key # <<h.node, session'[h.node]>>
<1>1. /\ session' = [session EXCEPT ![p] = session[p] + 1]
      /\ announced' = announced
      /\ \A q \in Nodes : session'[q] \in Nat /\ session[q] <= session'[q]
  BY DEF Keys, Restart
<1>2. Keys'
  BY <1>1 DEF Keys
<1>3. ASSUME NEW h, Hop(h)
      PROVE  /\ Hop(h)'
             /\ h.key # <<h.node, session[h.node]>>
                  => h.key # <<h.node, session'[h.node]>>
  <2>1. PICK n \in Nat : h.key = <<h.node, n>> /\ n <= session[h.node]
    BY <1>3 DEF Hop
  <2>2. /\ h.node \in Nodes /\ session[h.node] \in Nat
        /\ session'[h.node] \in Nat /\ session[h.node] <= session'[h.node]
    BY <1>1, <1>3 DEF Hop, Keys
  <2>3. n <= session'[h.node]
    BY <2>1, <2>2
  <2>4. n # session[h.node] => n # session'[h.node]
    BY <2>1, <2>2, <1>1 DEF Keys
  <2> QED
    BY <2>1, <2>2, <2>3, <2>4 DEF Hop
<1> QED
  BY <1>2, <1>3

LEMMA OnionRestarts ==
  ASSUME OnionInv, NEW p \in Nodes, Restart(p)
  PROVE  OnionInv'
<1>1. UNCHANGED <<target, route, packet, holder, outcome, seen>>
  BY DEF Restart
<1>2. Keys' /\ (\A h : Hop(h) => Hop(h)')
  BY SessionsPass DEF OnionInv
<1>3. ASSUME NEW last, Direct(last), DirectInv(last)
      PROVE  Direct(last)' /\ DirectInv(last)'
  BY <1>1, <1>2, <1>3, SessionsPass DEF OnionInv, Direct, DirectInv
<1>4. ASSUME NEW h, NEW last, Relayed(h, last), RelayedInv(h, last)
      PROVE  Relayed(h, last)' /\ RelayedInv(h, last)'
  BY <1>1, <1>2, <1>4, SessionsPass DEF OnionInv, Relayed, RelayedInv
<1> QED
  BY <1>1, <1>2, <1>3, <1>4 DEF OnionInv

LEMMA OnionBuilt ==
  ASSUME OnionInv, NEW p \in Nodes, NEW relay \in Nodes, OnionFetch(p, relay)
  PROVE  OnionInv'
<1>1. /\ UNCHANGED <<session, announced>> /\ target' = p
      /\ outcome' = "built" /\ seen' = {} /\ packet' = WrapOnion(route')
  BY DEF OnionFetch
<1>2. PICK last \in Hops(p) :
        route' = <<last>> \/ \E h \in Hops(relay) : route' = <<h, last>>
  BY DEF OnionFetch
<1>3. Keys /\ Keys' /\ (\A h : Hop(h) => Hop(h)')
  BY <1>1 DEF OnionInv, Keys, Hop
<1>4. Hop(last)' /\ last.node = p
  BY <1>3, HopsOK
<1>5. CASE route' = <<last>>
  BY <1>1, <1>3, <1>4, <1>5, Wrapped DEF OnionInv, Direct, DirectInv
<1>6. ASSUME NEW h \in Hops(relay), route' = <<h, last>>
      PROVE  OnionInv'
  <2>1. Hop(h)'
    BY <1>3, HopsOK
  <2>2. Relayed(h, last)' /\ RelayedInv(h, last)'
    BY <1>1, <1>4, <1>6, <2>1, Wrapped DEF Relayed, RelayedInv
  <2> QED
    BY <1>1, <1>3, <2>2 DEF OnionInv
<1> QED
  BY <1>2, <1>5, <1>6

LEMMA OnionForwarded ==
  ASSUME OnionInv, NEW p \in Nodes, HandleOnionForward(p)
  PROVE  OnionInv'
<1>1. /\ outcome = "sent" /\ holder = {p}
      /\ UNCHANGED <<session, announced, target, route>>
  BY DEF HandleOnionForward
<1>2. Keys' /\ (\A h : Hop(h) => Hop(h)')
  BY <1>1 DEF OnionInv, Keys, Hop
<1>3. ASSUME NEW last, Direct(last), DirectInv(last)
      PROVE  OnionInv'
  <2> DEFINE inner == Layer(last, {}, TRUE)
  <2>1. packet = <<inner>> /\ {p} = {last.node} /\ seen = {}
    BY <1>1, <1>3 DEF DirectInv
  <2>2. Head(packet) = Layer(last, {}, TRUE) /\ p = last.node /\ seen = {}
    <3> HIDE DEF inner
    <3>1. Head(packet) = inner /\ p = last.node
      BY <2>1
    <3> QED
      BY <2>1, <3>1 DEF inner
  <2>3. \/ outcome' = "unpeeled" /\ seen' = {} /\ last.key # <<p, session[p]>>
        \/ outcome' = "answered" /\ seen' = {<<p>>}
    BY <2>2 DEF HandleOnionForward, Layer
  <2>4. Direct(last)' /\ DirectInv(last)'
    BY <1>1, <1>2, <1>3, <2>2, <2>3 DEF Direct, DirectInv
  <2> QED
    BY <1>2, <2>3, <2>4 DEF OnionInv
<1>4. ASSUME NEW h, NEW last, Relayed(h, last), RelayedInv(h, last)
      PROVE  OnionInv'
  <2> DEFINE inner == Layer(last, {}, TRUE)
             outer == Layer(h, {last.node}, FALSE)
             first == <<h.node, last.node>>
  <2>1. CASE packet = <<outer, inner>> /\ seen = {} /\ holder = {h.node}
    <3>1. Head(packet) = outer /\ Tail(packet) = <<inner>> /\ p = h.node
      <4> HIDE DEF inner, outer
      <4> QED
        BY <1>1, <2>1
    <3>2. \/ outcome' = "unpeeled" /\ seen' = {} /\ h.key # <<p, session[p]>>
          \/ /\ outcome' = "sent" /\ seen' = {first}
             /\ packet' = <<inner>> /\ holder' = {last.node}
      <4>1. outer.next = {last.node} /\ outer.payload = FALSE /\ outer.key = h.key
        BY DEF Layer
      <4>2. {<<p, q>> : q \in outer.next} = {first}
        BY <3>1, <4>1
      <4> QED
        BY <1>1, <2>1, <3>1, <4>1, <4>2 DEF HandleOnionForward
    <3>3. Relayed(h, last)' /\ RelayedInv(h, last)'
      BY <1>1, <1>2, <1>4, <3>1, <3>2 DEF Relayed, RelayedInv
    <3> QED
      BY <1>2, <3>2, <3>3 DEF OnionInv
  <2>2. CASE packet = <<inner>> /\ seen = {first} /\ holder = {last.node}
    <3>1. Head(packet) = inner /\ p = last.node
      <4> HIDE DEF inner
      <4> QED
        BY <1>1, <2>2
    <3>2. \/ outcome' = "unpeeled" /\ seen' = {first} /\ last.key # <<p, session[p]>>
          \/ outcome' = "answered" /\ seen' = {first, <<p>>}
      <4>1. inner.payload = TRUE /\ inner.key = last.key
        BY DEF Layer
      <4> HIDE DEF inner, first
      <4> QED
        BY <2>2, <3>1, <4>1 DEF HandleOnionForward
    <3>3. Relayed(h, last)' /\ RelayedInv(h, last)'
      BY <1>1, <1>2, <1>4, <3>1, <3>2 DEF Relayed, RelayedInv
    <3> QED
      BY <1>2, <3>2, <3>3 DEF OnionInv
  <2> QED
    BY <1>1, <1>4, <2>1, <2>2 DEF RelayedInv
<1> QED
  BY <1>1, <1>3, <1>4 DEF OnionInv

(* The request of an onion packet is read by its target alone, in the      *)
(* session whose key was announced, after every hop opened its layer; a    *)
(* relay learns the next hop; and a layer does not open only because its   *)
(* node has started again.  For any nodes, sessions and old announcements. *)
THEOREM TargetReads == OnionSpec => []OnlyTargetReads
<1>1. OnionInit => OnionInv
  BY DEF OnionInit, OnionInv, Keys
<1>2. OnionInv /\ [OnionNext]_onionVars => OnionInv'
  <2> SUFFICES ASSUME OnionInv, [OnionNext]_onionVars
               PROVE  OnionInv'
    OBVIOUS
  <2>1. ASSUME NEW p \in Nodes, AnnounceRelayKey(p)
        PROVE  OnionInv'
    <3>1. UNCHANGED <<session, target, route, packet, holder, outcome, seen>>
      BY <2>1 DEF AnnounceRelayKey
    <3>2. Keys'
      BY <2>1 DEF OnionInv, Keys, AnnounceRelayKey
    <3> QED
      BY <3>1, <3>2, PacketStays
  <2>2. CASE RequestBlockOnion \/ SentElsewhere \/ UNCHANGED onionVars
    <3>1. UNCHANGED <<session, announced, target, route>> /\ Keys'
      BY <2>2 DEF RequestBlockOnion, SentElsewhere, onionVars, OnionInv, Keys
    <3> QED
      BY <2>2, <3>1, PacketStays DEF RequestBlockOnion, SentElsewhere, onionVars
  <2> QED
    BY <2>1, <2>2, OnionRestarts, OnionBuilt, OnionForwarded
    DEF OnionNext
<1>3. OnionInv => OnlyTargetReads
  <2> SUFFICES ASSUME OnionInv
               PROVE  OnlyTargetReads
    OBVIOUS
  <2>1. CASE outcome = "none" /\ seen = {}
    BY <2>1 DEF OnlyTargetReads
  <2>2. ASSUME NEW last, Direct(last), DirectInv(last)
        PROVE  OnlyTargetReads
    <3>1. /\ route = <<last>> /\ Len(route) = 1 /\ DOMAIN route = {1}
          /\ last.node = target /\ 1..(Len(route) - 1) = {}
      BY <2>2 DEF Direct
    <3>2. outcome \in {"built", "sent", "answered", "refused", "unpeeled"}
      BY <2>2 DEF Direct, OnionInv
    <3>3. seen = {} \/ (outcome = "answered" /\ seen = {<<target>>})
      BY <2>2, <3>1, <3>2 DEF DirectInv
    <3>4. outcome = "sent" => Len(packet) = 1
      BY <2>2 DEF DirectInv
    <3>5. outcome = "answered" =>
            /\ seen = {<<target>>} /\ Cardinality(seen) = 1
      BY <2>2, <3>1, FS_Singleton DEF DirectInv
    <3>6. outcome = "unpeeled" => session[last.node] # last.key[2]
      BY <2>2 DEF DirectInv, Direct, Hop
    <3>7. route[1] = last
      BY <3>1
    <3>8. Len(<<target>>) = 1 /\ <<target>>[1] = target
      OBVIOUS
    <3>9. \A x \in seen : outcome = "answered" /\ x = <<target>>
      BY <3>3
    <3>10. \A i \in DOMAIN route : i = 1
      BY <3>1
    <3>11. outcome = "sent" => 1..(Len(route) - Len(packet)) = {}
      BY <3>1, <3>4
    <3>12. outcome = "answered" =>
             /\ \A i \in DOMAIN route : \E x \in seen : x[1] = route[i].node
             /\ Cardinality(seen) = Len(route)
      BY <3>1, <3>5, <3>7, <3>8, <3>10
    <3>13. outcome = "unpeeled" =>
             \E i \in DOMAIN route : session[route[i].node] # route[i].key[2]
      BY <3>1, <3>6, <3>7
    <3>14. /\ \A x \in seen : Len(x) = 1 => x[1] = target
           /\ \A x \in seen : Len(x) # 2
      BY <3>8, <3>9
    <3>15. outcome = "sent" =>
             \A i \in 1..(Len(route) - Len(packet)) :
               \E x \in seen : x[1] = route[i].node
      BY <3>11
    <3> QED
      BY <3>12, <3>13, <3>14, <3>15 DEF OnlyTargetReads
  <2>3. ASSUME NEW h, NEW last, Relayed(h, last), RelayedInv(h, last)
        PROVE  OnlyTargetReads
    <3> DEFINE first == <<h.node, last.node>>
    <3>1. /\ route = <<h, last>> /\ Len(route) = 2 /\ DOMAIN route = {1, 2}
          /\ last.node = target /\ 1..(Len(route) - 1) = {1}
      BY <2>3 DEF Relayed
    <3>2. /\ Len(first) = 2 /\ first[1] = h.node /\ Len(<<target>>) = 1
          /\ <<target>>[1] = target
          /\ first = <<route[1].node, route[1 + 1].node>>
      BY <3>1
    <3>3. outcome \in {"built", "sent", "answered", "refused", "unpeeled"}
      BY <2>3 DEF Relayed, OnionInv
    <3>4. \A x \in seen : x = first \/ (x = <<target>> /\ outcome = "answered")
      BY <2>3, <3>1, <3>3 DEF RelayedInv
    <3>5. outcome = "answered" =>
            /\ first \in seen /\ <<target>> \in seen /\ Cardinality(seen) = 2
      <4> SUFFICES ASSUME outcome = "answered"
                   PROVE  /\ first \in seen /\ <<target>> \in seen
                          /\ Cardinality(seen) = 2
        OBVIOUS
      <4>1. seen = {first, <<target>>}
        BY <2>3, <3>1 DEF RelayedInv
      <4>2. first # <<target>>
        BY <3>2
      <4> HIDE DEF first
      <4> QED
        BY <4>1, <4>2, TwoOf
    <3>6. outcome = "sent" =>
            \/ Len(packet) = 2
            \/ Len(packet) = 1 /\ first \in seen
      <4> DEFINE inner == Layer(last, {}, TRUE)
                 outer == Layer(h, {last.node}, FALSE)
      <4>1. outcome = "sent" => \/ packet = <<outer, inner>>
                                \/ packet = <<inner>> /\ first \in seen
        BY <2>3 DEF RelayedInv
      <4> HIDE DEF inner, outer, first
      <4> QED
        BY <4>1
    <3>7. outcome = "unpeeled" =>
            session[h.node] # h.key[2] \/ session[last.node] # last.key[2]
      BY <2>3 DEF RelayedInv, Relayed, Hop
    <3>8. \A i \in DOMAIN route : i = 1 \/ i = 2
      BY <3>1
    <3>9. route[1] = h /\ route[2] = last
      BY <3>1
    <3> HIDE DEF first
    <3>10. outcome = "sent" =>
            \A i \in 1..(Len(route) - Len(packet)) :
              \E x \in seen : x[1] = route[i].node
      BY <3>1, <3>2, <3>6, <3>9
    <3> QED
      BY <3>1, <3>2, <3>4, <3>5, <3>7, <3>8, <3>9, <3>10 DEF OnlyTargetReads
  <2> QED
    BY <2>1, <2>2, <2>3 DEF OnionInv
<1> QED
  BY <1>1, <1>2, <1>3, PTL DEF OnionSpec

-----------------------------------------------------------------------------
(* Documents.  A comes before B in a list.                                 *)
Before(s, a, b) == \E i, j \in DOMAIN s : i < j /\ s[i] = a /\ s[j] = b

OfList(d, l) == {e \in d.entries : e.list = l}

EntryType == [id: (Nat \ {0}) \X Nat, list: 1..MaxActors, after: Nat \X Nat,
              last: Nat]

(* Ids name entries.                                                       *)
Named(es) == \A e, f \in es : e.id = f.id => e = f

(* An entry comes with the one it stands behind, which is older.           *)
Rooted(es) ==
  \A e \in es : \/ e.after = <<0, 0>>
                \/ \E x \in es : x.id = e.after /\ Less(x.id, e.id)

Sound(es) == es \in SUBSET EntryType /\ IsFiniteSet(es) /\ Named(es) /\ Rooted(es)

Documents == {doc[r] : r \in Replicas} \cup {s.doc : s \in saved}

(* A document holds all that the writers of its entries had before them,   *)
(* and in its lists it stands before their entries.                        *)
Behind(d, b, e) ==
  \E y \in d.entries : /\ y.id = b /\ y.list = e.list
                       /\ Before(Listed(OfList(d, e.list)), y, e)

ThreadIn(d, x) ==
  \A e \in d.entries : e.id = x.id => \A b \in x.before : Behind(d, b, e)

DocOK(d, th) ==
  /\ d = [lists |-> d.lists, entries |-> d.entries]
  /\ d.lists \subseteq 1..MaxActors
  /\ IsFiniteSet(d.entries)
  /\ d.entries \subseteq EntryType
  /\ \A e \in d.entries : e.list \in d.lists /\ e.id[1] <= e.last
  /\ \A l \in 1..MaxActors : Rooted(OfList(d, l))
  /\ \A e \in d.entries : \E x \in th : x.id = e.id
  /\ \A x \in th : ThreadIn(d, x)

(* An id names one entry, in whatever documents it is.                     *)
Apart(c, d) ==
  \A e \in c.entries, f \in d.entries : e.id = f.id => e = f

KeyOK(d, k, th) ==
  \A x \in th : \A e \in d.entries : e.id = x.id => x.key = k

(* No two open documents are written by one actor, and what an actor wrote *)
(* is in the document that it writes.                                      *)
ActorsOK ==
  /\ \A r, q \in Replicas : Open(r) /\ actor[r] = actor[q] => r = q
  /\ \A r \in Replicas : \A x \in thread :
       Open(r) /\ x.id[2] = actor[r] => \E e \in doc[r].entries : e.id = x.id

DocInv ==
  /\ DOMAIN doc = Replicas
  /\ actor \in [Replicas -> 0..MaxActors]
  /\ \A d \in Documents : DocOK(d, thread)
  /\ \A c, d \in Documents : Apart(c, d)
  /\ \A r \in Replicas : Open(r) => doc[r].lists # {}
  /\ \A s \in saved : s.doc.lists # {}
  /\ \A r \in Replicas : KeyOK(doc[r], roomKey[r], thread)
  /\ \A s \in saved : KeyOK(s.doc, s.key, thread)
  /\ ActorsOK

-----------------------------------------------------------------------------
(* Of some subsets of a finite set there is one that holds none of the     *)
(* others.                                                                 *)
LEMMA LeastSubset ==
  ASSUME NEW E, IsFiniteSet(E), NEW T \in SUBSET (SUBSET E), T # {}
  PROVE  \E S \in T : \A U \in T : U \subseteq S => U = S
<1>1. T \subseteq FiniteSubsetsOf(E)
  BY FS_Subset DEF FiniteSubsetsOf
<1>2. PICK S \in T : \A U \in T : <<U, S>> \notin StrictSubsetOrdering(E)
  BY <1>1, WFMin, FS_StrictSubsetOrderingWellFounded
<1>3. ASSUME NEW U \in T, U \subseteq S, U # S
      PROVE  FALSE
  <2>1. <<U, S>> \in StrictSubsetOrdering(E)
    BY <1>3 DEF StrictSubsetOrdering
  <2> QED
    BY <1>2, <2>1
<1> QED
  BY <1>3

(* The newest of entries is one of them, and newer than the others.        *)
LEMMA NewestIs ==
  ASSUME NEW es \in SUBSET EntryType, IsFiniteSet(es), Named(es), es # {}
  PROVE  /\ Newest(es) \in es
         /\ \A x \in es : x = Newest(es) \/ Less(x.id, Newest(es).id)
<1> DEFINE Has(S) == \E e \in S : \A x \in S : x = e \/ Less(x.id, e.id)
           T == {S \in SUBSET es : S # {} /\ ~Has(S)}
<1>1. SUFFICES ASSUME T # {} PROVE FALSE
  BY DEF Newest
<1>2. T \in SUBSET (SUBSET es)
  OBVIOUS
<1> HIDE DEF T
<1>3. PICK S \in T : \A U \in T : U \subseteq S => U = S
  BY <1>1, <1>2, LeastSubset
<1>4. S \in SUBSET es /\ S # {} /\ ~Has(S)
  BY DEF T
<1>5. PICK e \in S : TRUE
  BY <1>4
<1> DEFINE U == S \ {e}
<1>6. CASE U = {}
  BY <1>4, <1>5, <1>6
<1>7. CASE U # {}
  <2>1. U \notin T
    BY <1>3, <1>5
  <2>2. Has(U)
    BY <1>4, <1>7, <2>1 DEF T
  <2>3. PICK m \in U : \A x \in U : x = m \/ Less(x.id, m.id)
    BY <2>2
  <2>4. m \in EntryType /\ e \in EntryType /\ m.id # e.id
    BY <1>4, <1>5, <2>3 DEF Named
  <2>5. /\ m.id[1] \in Nat /\ m.id[2] \in Nat /\ e.id[1] \in Nat /\ e.id[2] \in Nat
        /\ m.id = <<m.id[1], m.id[2]>> /\ e.id = <<e.id[1], e.id[2]>>
    BY <2>4 DEF EntryType
  <2>6. CASE Less(e.id, m.id)
    BY <1>4, <2>3, <2>6
  <2>7. CASE ~Less(e.id, m.id)
    <3>1. Less(m.id, e.id)
      BY <2>4, <2>5, <2>7 DEF Less
    <3>2. ASSUME NEW x \in U PROVE Less(x.id, e.id)
      <4>1. x \in EntryType /\ x.id[1] \in Nat /\ x.id[2] \in Nat
        BY <1>4 DEF EntryType
      <4> QED
        BY <2>3, <2>5, <3>1, <4>1 DEF Less
    <3> QED
      BY <1>4, <1>5, <3>2
  <2> QED
    BY <2>6, <2>7
<1> QED
  BY <1>6, <1>7

(* What a list is made of, entry by entry.                                 *)
Computes(f, es) ==
  f = [S \in SUBSET es |->
         IF S = {} THEN <<>> ELSE Placed(f[S \ {Newest(S)}], Newest(S))]

(* Two functions that list the same entries one by one agree on them.      *)
LEMMA ComputesOnce ==
  ASSUME NEW es \in SUBSET EntryType, IsFiniteSet(es), Named(es),
         NEW D \in SUBSET es, NEW E \in SUBSET es, NEW f, NEW g,
         Computes(f, D), Computes(g, E), NEW S \in SUBSET (D \cap E)
  PROVE  f[S] = g[S]
<1> DEFINE T == {U \in SUBSET (D \cap E) : f[U] # g[U]}
<1>1. SUFFICES ASSUME T # {} PROVE FALSE
  OBVIOUS
<1>2. T \in SUBSET (SUBSET es)
  OBVIOUS
<1> HIDE DEF T
<1>3. PICK U \in T : \A V \in T : V \subseteq U => V = U
  BY <1>1, <1>2, LeastSubset
<1>4. U \in SUBSET (D \cap E) /\ f[U] # g[U]
  BY DEF T
<1>5. /\ f[U] = IF U = {} THEN <<>> ELSE Placed(f[U \ {Newest(U)}], Newest(U))
      /\ g[U] = IF U = {} THEN <<>> ELSE Placed(g[U \ {Newest(U)}], Newest(U))
  BY <1>4 DEF Computes
<1>6. U # {}
  BY <1>5, <1>4
<1>7. U \in SUBSET EntryType /\ IsFiniteSet(U) /\ Named(U)
  BY <1>4, FS_Subset DEF Named
<1>8. Newest(U) \in U
  BY <1>6, <1>7, NewestIs
<1>9. U \ {Newest(U)} \notin T
  BY <1>3, <1>8
<1>10. f[U \ {Newest(U)}] = g[U \ {Newest(U)}]
  BY <1>9, <1>4 DEF T
<1> QED
  BY <1>5, <1>6, <1>4, <1>10

(* There is such a function: it goes through the entries one by one.       *)
LEMMA ComputesExists ==
  ASSUME NEW es \in SUBSET EntryType, IsFiniteSet(es), Named(es)
  PROVE  \E f : Computes(f, es)
<1> DEFINE T == {S \in SUBSET es : ~\E f : Computes(f, S)}
<1>1. SUFFICES ASSUME T # {} PROVE FALSE
  OBVIOUS
<1>2. T \in SUBSET (SUBSET es)
  OBVIOUS
<1> HIDE DEF T
<1>3. PICK S \in T : \A U \in T : U \subseteq S => U = S
  BY <1>1, <1>2, LeastSubset
<1>4. S \in SUBSET es /\ ~\E h : Computes(h, S)
  BY DEF T
<1> DEFINE G(U) == CHOOSE f : Computes(f, U)
           V(U) == IF U = S
                     THEN IF S = {} THEN <<>>
                          ELSE Placed(G(S \ {Newest(S)})[S \ {Newest(S)}], Newest(S))
                     ELSE G(U)[U]
           f == [U \in SUBSET S |-> V(U)]
<1>5. ASSUME NEW U \in SUBSET S, U # S PROVE Computes(G(U), U)
  <2>1. U \notin T
    BY <1>3, <1>5
  <2>2. \E h : Computes(h, U)
    BY <1>4, <2>1 DEF T
  <2> QED
    BY <2>2
<1>6. ASSUME NEW U \in SUBSET S, U # {}
      PROVE  /\ Newest(U) \in U
             /\ f[U] = Placed(f[U \ {Newest(U)}], Newest(U))
  <2>1. U \in SUBSET EntryType /\ IsFiniteSet(U) /\ Named(U)
    BY <1>4, FS_Subset DEF Named
  <2>2. Newest(U) \in U
    BY <1>6, <2>1, NewestIs
  <2> DEFINE W == U \ {Newest(U)}
  <2>3. W \in SUBSET S /\ W # S /\ W \in SUBSET U
    BY <2>2
  <2>4. f[W] = G(W)[W]
    BY <2>3
  <2>5. CASE U = S
    BY <1>6, <2>2, <2>4, <2>5
  <2>6. CASE U # S
    <3>1. Computes(G(U), U) /\ Computes(G(W), W)
      BY <1>5, <2>3, <2>6
    <3> HIDE DEF W, G
    <3>2. G(U)[U] = Placed(G(U)[W], Newest(U))
      BY <1>6, <3>1 DEF Computes, W
    <3>3. W \in SUBSET (U \cap W) /\ U \in SUBSET es /\ W \in SUBSET es
      BY <1>4, <2>3
    <3>4. G(U)[W] = G(W)[W]
      BY <3>1, <3>3, ComputesOnce
    <3>5. f[U] = G(U)[U]
      BY <2>6
    <3> QED
      BY <2>2, <2>4, <3>2, <3>4, <3>5 DEF W
  <2> QED
    BY <2>5, <2>6
<1>7. f[{}] = <<>>
  <2>1. CASE S = {}
    BY <2>1
  <2>2. CASE S # {}
    <3>1. Computes(G({}), {})
      BY <1>5, <2>2
    <3> HIDE DEF G
    <3>2. G({})[{}] = <<>>
      BY <3>1 DEF Computes
    <3> QED
      BY <2>2, <3>2
  <2> QED
    BY <2>1, <2>2
<1>8. f = [U \in SUBSET S |-> f[U]]
  OBVIOUS
<1> HIDE DEF f
<1>9. f = [U \in SUBSET S |->
             IF U = {} THEN <<>> ELSE Placed(f[U \ {Newest(U)}], Newest(U))]
  BY <1>6, <1>7, <1>8
<1>10. Computes(f, S)
  BY <1>9 DEF Computes
<1> QED
  BY <1>4, <1>10

(* So a list is its newest entry put into the list of the others.          *)
LEMMA ListedIs ==
  ASSUME NEW es \in SUBSET EntryType, IsFiniteSet(es), Named(es)
  PROVE  /\ es = {} => Listed(es) = <<>>
         /\ es # {} => Listed(es) = Placed(Listed(es \ {Newest(es)}), Newest(es))
<1> DEFINE F(S) == CHOOSE f : Computes(f, S)
           rest == es \ {Newest(es)}
<1>1. \A S : Listed(S) = F(S)[S]
  BY DEF Listed, Computes
<1>2. Computes(F(es), es)
  BY ComputesExists
<1>3. rest \in SUBSET EntryType /\ IsFiniteSet(rest) /\ Named(rest)
  BY FS_Subset DEF Named
<1> HIDE DEF rest
<1>4. Computes(F(rest), rest)
  BY <1>3, ComputesExists
<1> HIDE DEF F
<1>5. rest \in SUBSET es /\ rest \in SUBSET (es \cap rest)
  BY DEF rest
<1>6. F(es)[rest] = F(rest)[rest]
  BY <1>2, <1>4, <1>5, ComputesOnce
<1>7. F(es)[es] = IF es = {} THEN <<>> ELSE Placed(F(es)[rest], Newest(es))
  BY <1>2 DEF Computes, rest
<1> QED
  BY <1>1, <1>6, <1>7 DEF rest

-----------------------------------------------------------------------------
(* A list of entries has each of them once.                                *)
IsList(s, es) ==
  /\ s \in Seq(es)
  /\ \A e \in es : \E i \in DOMAIN s : s[i] = e
  /\ \A i, j \in DOMAIN s : s[i] = s[j] => i = j
  /\ Len(s) = Cardinality(es)

PutBehind(s, e, k) ==
  [j \in 1..(Len(s) + 1) |-> IF j <= k THEN s[j]
                             ELSE IF j = k + 1 THEN e ELSE s[j - 1]]

PutOrder(p, s, es, e, k) ==
  /\ \A a, b \in es : Before(p, a, b) <=> Before(s, a, b)
  /\ \A a \in es : Before(p, a, e) <=> \E i \in 1..k : s[i] = a
  /\ \A a \in es : Before(p, e, a) <=> \E i \in (k + 1)..Len(s) : s[i] = a

(* What is put behind the K-th comes after the first K and before the rest;*)
(* among themselves those stay as they were.                               *)
LEMMA PutBehindOrder ==
  ASSUME NEW es, NEW s, IsList(s, es), IsFiniteSet(es), NEW e, e \notin es,
         NEW k \in 0..Len(s), NEW p, p = PutBehind(s, e, k)
  PROVE  IsList(p, es \cup {e}) /\ PutOrder(p, s, es, e, k)
<1> DEFINE n == Len(s)
           To(j) == IF j <= k THEN j ELSE j + 1
<1>1. /\ n \in Nat /\ DOMAIN s = 1..n /\ n = Cardinality(es)
      /\ \A j \in 1..n : s[j] \in es /\ s[j] # e
      /\ \A i, j \in 1..n : s[i] = s[j] => i = j
      /\ \A a \in es : \E i \in 1..n : s[i] = a
      /\ k \in 0..n
  BY FS_CardinalityType DEF IsList
<1>2. DOMAIN p = 1..(n + 1)
  BY DEF PutBehind
<1>3. p[k + 1] = e /\ k + 1 \in 1..(n + 1)
  BY <1>1 DEF PutBehind
<1>4. \A j \in 1..n : To(j) \in 1..(n + 1) /\ To(j) # k + 1 /\ p[To(j)] = s[j]
  BY <1>1 DEF PutBehind
<1>5. \A j \in 1..(n + 1) : j = k + 1 \/ \E i \in 1..n : j = To(i)
  <2> TAKE j \in 1..(n + 1)
  <2>1. CASE j <= k
    BY <1>1, <2>1
  <2>2. CASE j > k + 1
    <3>1. j - 1 \in 1..n /\ To(j - 1) = j
      BY <1>1, <2>2
    <3> QED
      BY <3>1
  <2>3. CASE j = k + 1
    BY <2>3
  <2> QED
    BY <1>1, <2>1, <2>2, <2>3
<1>6. /\ \A i, j \in 1..n : i < j <=> To(i) < To(j)
      /\ \A i, j \in 1..n : To(i) = To(j) => i = j
      /\ \A i \in 1..n : To(i) < k + 1 <=> i <= k
      /\ \A i \in 1..n : k + 1 < To(i) <=> i > k
      /\ \A i \in 1..n : To(i) \in Nat
  BY <1>1
<1>7. p \in Seq(es \cup {e}) /\ Len(p) = n + 1
  <2>1. ASSUME NEW j \in 1..(n + 1) PROVE p[j] \in es \cup {e}
    <3> HIDE DEF To, n
    <3>1. CASE j = k + 1
      BY <1>3, <3>1
    <3>2. CASE j # k + 1
      <4>1. PICK i \in 1..n : j = To(i)
        BY <1>5, <3>2
      <4>2. p[To(i)] = s[i] /\ s[i] \in es
        BY <1>1, <1>4
      <4> QED
        BY <4>1, <4>2
    <3> QED
      BY <3>1, <3>2
  <2>2. p = [j \in 1..(n + 1) |-> p[j]]
    BY DEF PutBehind
  <2>3. n + 1 \in Nat /\ p \in [1..(n + 1) -> es \cup {e}]
    BY <1>1, <2>1, <2>2
  <2> QED
    BY <2>3
<1> HIDE DEF To, n
<1>8. \A i, j \in 1..(n + 1) : p[i] = p[j] => i = j
  BY <1>1, <1>3, <1>4, <1>5, <1>6
<1>9. \A a \in es \cup {e} : \E i \in 1..(n + 1) : p[i] = a
  BY <1>1, <1>3, <1>4
<1>10. Cardinality(es \cup {e}) = n + 1
  BY <1>1, FS_AddElement
<1>11. IsList(p, es \cup {e})
  BY <1>2, <1>7, <1>8, <1>9, <1>10 DEF IsList
<1>12. ASSUME NEW a \in es, NEW b \in es
       PROVE  Before(p, a, b) <=> Before(s, a, b)
  <2>1. ASSUME NEW i \in 1..(n + 1), NEW j \in 1..(n + 1), i < j,
               p[i] = a, p[j] = b
        PROVE  Before(s, a, b)
    <3>1. i # k + 1 /\ j # k + 1
      BY <1>3, <2>1
    <3>2. PICK x \in 1..n : i = To(x)
      BY <1>5, <3>1
    <3>3. PICK y \in 1..n : j = To(y)
      BY <1>5, <3>1
    <3>4. x < y /\ s[x] = a /\ s[y] = b
      BY <1>4, <1>6, <2>1, <3>2, <3>3
    <3> QED
      BY <1>1, <3>4 DEF Before
  <2>2. ASSUME NEW i \in 1..n, NEW j \in 1..n, i < j, s[i] = a, s[j] = b
        PROVE  Before(p, a, b)
    <3>1. To(i) < To(j) /\ p[To(i)] = a /\ p[To(j)] = b
      BY <1>4, <1>6, <2>2
    <3>2. To(i) \in DOMAIN p /\ To(j) \in DOMAIN p
      BY <1>2, <1>4
    <3> QED
      BY <3>1, <3>2 DEF Before
  <2> QED
    BY <1>1, <1>2, <2>1, <2>2 DEF Before
<1>13. ASSUME NEW a \in es
       PROVE  /\ Before(p, a, e) <=> \E i \in 1..k : s[i] = a
              /\ Before(p, e, a) <=> \E i \in (k + 1)..n : s[i] = a
  <2>1. PICK i \in 1..n : s[i] = a
    BY <1>1
  <2>2. /\ p[To(i)] = a /\ To(i) \in 1..(n + 1)
        /\ \A j \in 1..(n + 1) : p[j] = a => j = To(i)
        /\ \A j \in 1..(n + 1) : p[j] = e => j = k + 1
    BY <1>3, <1>4, <1>8, <2>1
  <2>3. Before(p, a, e) <=> To(i) < k + 1
    BY <1>2, <1>3, <2>2 DEF Before
  <2>4. Before(p, e, a) <=> k + 1 < To(i)
    BY <1>2, <1>3, <2>2 DEF Before
  <2>5. \A j \in 1..n : s[j] = a => j = i
    BY <1>1, <2>1
  <2>6. (\E j \in 1..k : s[j] = a) <=> i <= k
    BY <1>1, <2>1, <2>5
  <2>7. (\E j \in (k + 1)..n : s[j] = a) <=> i > k
    BY <1>1, <2>1, <2>5
  <2> QED
    BY <1>6, <2>3, <2>4, <2>6, <2>7
<1> QED
  BY <1>11, <1>12, <1>13 DEF n, PutOrder

-----------------------------------------------------------------------------
(* Without its newest entry a sound set is sound.                          *)
LEMMA NewestLast ==
  ASSUME NEW es, Sound(es), es # {}
  PROVE  /\ Newest(es) \in es
         /\ \A x \in es : x = Newest(es) \/ Less(x.id, Newest(es).id)
         /\ Sound(es \ {Newest(es)})
<1> DEFINE m == Newest(es)
<1>1. m \in es /\ \A x \in es : x = m \/ Less(x.id, m.id)
  BY NewestIs DEF Sound
<1> HIDE DEF m
<1>2. IsFiniteSet(es \ {m}) /\ es \ {m} \in SUBSET EntryType /\ Named(es \ {m})
  BY FS_Subset DEF Sound, Named
<1>3. ASSUME NEW e \in es \ {m}, e.after # <<0, 0>>
      PROVE  \E x \in es \ {m} : x.id = e.after /\ Less(x.id, e.id)
  <2>1. PICK x \in es : x.id = e.after /\ Less(x.id, e.id)
    BY <1>3 DEF Sound, Rooted
  <2>2. x # m
    <3>1. Less(e.id, m.id)
      BY <1>1
    <3>2. /\ e.id[1] \in Nat /\ e.id[2] \in Nat
          /\ m.id[1] \in Nat /\ m.id[2] \in Nat
      BY <1>1 DEF Sound, EntryType
    <3> QED
      BY <2>1, <3>1, <3>2 DEF Less
  <2> QED
    BY <2>1, <2>2
<1>4. Rooted(es \ {m})
  BY <1>3 DEF Rooted
<1> QED
  BY <1>1, <1>2, <1>4 DEF Sound, m

(* Where the newest entry is put.                                          *)
LEMMA NewestPut ==
  ASSUME NEW es, Sound(es), es # {},
         NEW rest, rest = es \ {Newest(es)}, IsList(Listed(rest), rest)
  PROVE  \E k \in 0..Len(Listed(rest)) :
           /\ Listed(es) = PutBehind(Listed(rest), Newest(es), k)
           /\ Newest(es).after = <<0, 0>> => k = 0
           /\ Newest(es).after # <<0, 0>> =>
                k >= 1 /\ Listed(rest)[k].id = Newest(es).after
<1> DEFINE m == Newest(es)
           s == Listed(rest)
           At == IF m.after = <<0, 0>> THEN 0
                 ELSE CHOOSE j \in DOMAIN s : s[j].id = m.after
<1>1. Listed(es) = Placed(s, m)
  BY ListedIs DEF Sound
<1>2. Placed(s, m) = PutBehind(s, m, At)
  BY DEF Placed, PutBehind
<1>3. /\ m \in es
      /\ \A x \in es : x = m \/ Less(x.id, m.id)
  BY NewestLast
<1> HIDE DEF m, s
<1>4. Len(s) \in Nat /\ DOMAIN s = 1..Len(s)
  BY DEF IsList, s
<1>5. CASE m.after = <<0, 0>>
  BY <1>1, <1>2, <1>4, <1>5 DEF m, s
<1>6. CASE m.after # <<0, 0>>
  <2>1. PICK x \in es : x.id = m.after /\ Less(x.id, m.id)
    BY <1>3, <1>6 DEF Sound, Rooted
  <2>2. m.id[1] \in Nat /\ m.id[2] \in Nat
    BY <1>3 DEF Sound, EntryType
  <2>3. x # m
    BY <2>1, <2>2 DEF Less
  <2>4. PICK j \in DOMAIN s : s[j] = x
    BY <2>3 DEF IsList, s, m
  <2>5. At \in DOMAIN s /\ s[At].id = m.after
    BY <1>6, <2>1, <2>4
  <2> HIDE DEF At
  <2>6. At \in 0..Len(s) /\ At >= 1
    BY <1>4, <2>5
  <2> QED
    BY <1>1, <1>2, <1>6, <2>5, <2>6 DEF m, s
<1> QED
  BY <1>5, <1>6

(* A sound set is listed whole.                                            *)
LEMMA ListedAll ==
  ASSUME NEW es, Sound(es)
  PROVE  IsList(Listed(es), es)
<1> DEFINE T == {S \in SUBSET es : Sound(S) /\ ~IsList(Listed(S), S)}
<1>1. SUFFICES ASSUME T # {} PROVE FALSE
  OBVIOUS
<1>2. T \in SUBSET (SUBSET es) /\ IsFiniteSet(es)
  BY DEF Sound
<1> HIDE DEF T
<1>3. PICK S \in T : \A U \in T : U \subseteq S => U = S
  BY <1>1, <1>2, LeastSubset
<1>4. S \in SUBSET es /\ Sound(S) /\ ~IsList(Listed(S), S)
  BY DEF T
<1>5. CASE S = {}
  <2>1. Listed(S) = <<>>
    BY <1>4, <1>5, ListedIs DEF Sound
  <2>2. Cardinality(S) = 0
    BY <1>5, FS_EmptySet
  <2> QED
    <3>1. <<>> \in Seq(S) /\ Len(<<>>) = 0 /\ DOMAIN <<>> = {}
      OBVIOUS
    <3> QED
      BY <1>4, <1>5, <2>1, <2>2, <3>1 DEF IsList
<1>6. CASE S # {}
  <2> DEFINE m == Newest(S)
             rest == S \ {Newest(S)}
  <2>1. m \in S /\ Sound(rest)
    BY <1>4, <1>6, NewestLast
  <2>2. rest \notin T
    BY <1>3, <2>1
  <2>3. IsList(Listed(rest), rest)
    BY <1>4, <2>1, <2>2 DEF T
  <2>4. PICK k \in 0..Len(Listed(rest)) :
          Listed(S) = PutBehind(Listed(rest), m, k)
    BY <1>4, <1>6, <2>3, NewestPut
  <2>5. IsFiniteSet(rest) /\ m \notin rest /\ S = rest \cup {m}
    BY <2>1 DEF Sound
  <2> HIDE DEF rest, m
  <2>6. IsList(PutBehind(Listed(rest), m, k), rest \cup {m})
    BY <2>3, <2>5, PutBehindOrder
  <2> QED
    BY <1>4, <2>4, <2>5, <2>6
<1> QED
  BY <1>5, <1>6

(* How the newest entry stands to the others, which keep their order.      *)
Ordering(es, m, rest) ==
  /\ \A a, b \in rest :
       Before(Listed(es), a, b) <=> Before(Listed(rest), a, b)
  /\ \A a \in rest :
       Before(Listed(es), a, m) <=>
         \E p \in rest : p.id = m.after /\ (a = p \/ Before(Listed(rest), a, p))
  /\ \A a \in rest :
       Before(Listed(es), m, a) <=>
         \A p \in rest : p.id = m.after => Before(Listed(rest), p, a)

LEMMA NewestOrder ==
  ASSUME NEW es, Sound(es), es # {}, NEW m, m = Newest(es),
         NEW rest, rest = es \ {m}
  PROVE  Ordering(es, m, rest)
<1> DEFINE s == Listed(rest)
<1>1. /\ m \in es /\ Sound(rest)
      /\ IsFiniteSet(rest) /\ m \notin rest
  BY NewestLast DEF Sound
<1>2. IsList(s, rest)
  BY <1>1, ListedAll
<1>3. \E k \in 0..Len(s) :
        /\ Listed(es) = PutBehind(s, m, k)
        /\ m.after = <<0, 0>> => k = 0
        /\ m.after # <<0, 0>> => k >= 1 /\ s[k].id = m.after
  BY <1>2, NewestPut
<1> HIDE DEF s, Ordering
<1>4. PICK k \in 0..Len(s) :
        /\ Listed(es) = PutBehind(s, m, k)
        /\ m.after = <<0, 0>> => k = 0
        /\ m.after # <<0, 0>> => k >= 1 /\ s[k].id = m.after
  BY <1>3
<1>5. s \in Seq(rest) /\ Len(s) \in Nat /\ DOMAIN s = 1..Len(s)
  BY <1>2 DEF IsList
<1>6. \A i \in 1..Len(s) : s[i] \in rest
  BY <1>5
<1>7. /\ \A i, j \in 1..Len(s) : s[i] = s[j] => i = j
      /\ \A a \in rest : \E i \in 1..Len(s) : s[i] = a
  BY <1>2, <1>5 DEF IsList
<1>8. /\ Len(s) \in Nat /\ DOMAIN s = 1..Len(s)
      /\ \A i \in 1..Len(s) : s[i] \in rest
      /\ \A i, j \in 1..Len(s) : s[i] = s[j] => i = j
      /\ \A a \in rest : \E i \in 1..Len(s) : s[i] = a
      /\ k \in 0..Len(s)
  BY <1>4, <1>5, <1>6, <1>7
<1> DEFINE t == Listed(es)
<1>9. t = PutBehind(s, m, k)
  BY <1>4
<1> HIDE DEF t
<1>10. PutOrder(t, s, rest, m, k)
  BY <1>1, <1>2, <1>9, PutBehindOrder
<1>11. /\ \A a, b \in rest : Before(Listed(es), a, b) <=> Before(s, a, b)
       /\ \A a \in rest : Before(Listed(es), a, m) <=> \E i \in 1..k : s[i] = a
       /\ \A a \in rest :
            Before(Listed(es), m, a) <=> \E i \in (k + 1)..Len(s) : s[i] = a
  BY <1>10 DEF t, PutOrder
<1>12. CASE m.after = <<0, 0>>
  <2>1. k = 0
    BY <1>4, <1>12
  <2>2. \A p \in rest : p.id # m.after
    BY <1>1, <1>12 DEF Sound, EntryType
  <2>3. \A a \in rest : \E i \in (k + 1)..Len(s) : s[i] = a
    BY <1>8, <2>1
  <2>4. \A a \in rest : ~\E i \in 1..k : s[i] = a
    BY <2>1
  <2> QED
    BY <1>11, <2>2, <2>3, <2>4 DEF s, Ordering
<1>13. CASE m.after # <<0, 0>>
  <2>1. k \in 1..Len(s) /\ s[k] \in rest /\ s[k].id = m.after
    BY <1>4, <1>8, <1>13
  <2>2. \A p \in rest : p.id = m.after <=> p = s[k]
    BY <1>1, <2>1 DEF Sound, Named
  <2>3. ASSUME NEW a \in rest
        PROVE  /\ (\E i \in 1..k : s[i] = a) <=> a = s[k] \/ Before(s, a, s[k])
               /\ (\E i \in (k + 1)..Len(s) : s[i] = a) <=> Before(s, s[k], a)
    <3>1. PICK i \in 1..Len(s) : s[i] = a
      BY <1>8
    <3>2. \A j \in 1..Len(s) : s[j] = a => j = i
      BY <1>8, <3>1
    <3>3. \A j \in 1..Len(s) : s[j] = s[k] => j = k
      BY <1>8, <2>1
    <3>4. Before(s, a, s[k]) <=> i < k
      BY <1>8, <2>1, <3>1, <3>2, <3>3 DEF Before
    <3>5. Before(s, s[k], a) <=> k < i
      BY <1>8, <2>1, <3>1, <3>2, <3>3 DEF Before
    <3>6. (\E j \in 1..k : s[j] = a) <=> i <= k
      BY <1>8, <2>1, <3>1, <3>2
    <3>7. (\E j \in (k + 1)..Len(s) : s[j] = a) <=> i > k
      BY <1>8, <2>1, <3>1, <3>2
    <3>8. a = s[k] <=> i = k
      BY <2>1, <3>1, <3>2, <3>3
    <3> QED
      BY <1>8, <2>1, <3>1, <3>4, <3>5, <3>6, <3>7, <3>8
  <2>4. \A a \in rest : Before(Listed(es), a, m) <=> a = s[k] \/ Before(s, a, s[k])
    BY <1>11, <2>3
  <2>5. \A a \in rest : Before(Listed(es), m, a) <=> Before(s, s[k], a)
    BY <1>11, <2>3
  <2> HIDE DEF s
  <2>6. ASSUME NEW a \in rest
        PROVE  /\ Before(Listed(es), a, m) <=>
                    \E p \in rest : p.id = m.after /\ (a = p \/ Before(s, a, p))
               /\ Before(Listed(es), m, a) <=>
                    \A p \in rest : p.id = m.after => Before(s, p, a)
    BY <2>1, <2>2, <2>4, <2>5
  <2> QED
    BY <1>11, <2>6 DEF s, Ordering
<1> QED
  BY <1>12, <1>13

(* What comes before what in a list are two entries of it.                 *)
LEMMA BeforeIs ==
  ASSUME NEW es, Sound(es), NEW a, NEW b, Before(Listed(es), a, b)
  PROVE  a \in es /\ b \in es /\ a # b
<1>1. IsList(Listed(es), es)
  BY ListedAll
<1>2. PICK i, j \in DOMAIN Listed(es) :
        i < j /\ Listed(es)[i] = a /\ Listed(es)[j] = b
  BY DEF Before
<1> DEFINE s == Listed(es)
<1> HIDE DEF s
<1>3. s \in Seq(es) /\ (\A x, y \in DOMAIN s : s[x] = s[y] => x = y)
  BY <1>1 DEF IsList, s
<1>4. i \in DOMAIN s /\ j \in DOMAIN s /\ i < j /\ s[i] = a /\ s[j] = b
  BY <1>2 DEF s
<1> QED
  BY <1>3, <1>4

(* Entries that are merged into a list leave the order of the others.      *)
LEMMA OrderStays ==
  ASSUME NEW all, Sound(all), NEW some, Sound(some), some \subseteq all,
         NEW a0, NEW b0, Before(Listed(some), a0, b0)
  PROVE  Before(Listed(all), a0, b0)
<1> DEFINE Keeps(S) == \A E \in SUBSET S : Sound(E) => \A a, b \in E :
                         Before(Listed(E), a, b) => Before(Listed(S), a, b)
           T == {S \in SUBSET all : Sound(S) /\ ~Keeps(S)}
<1>1. SUFFICES ASSUME T # {} PROVE FALSE
  BY BeforeIs
<1>2. T \in SUBSET (SUBSET all) /\ IsFiniteSet(all)
  BY DEF Sound
<1> HIDE DEF T
<1>3. PICK S \in T : \A U \in T : U \subseteq S => U = S
  BY <1>1, <1>2, LeastSubset
<1>4. S \in SUBSET all /\ Sound(S) /\ ~Keeps(S)
  BY DEF T
<1>5. PICK E \in SUBSET S :
        /\ Sound(E)
        /\ \E a, b \in E : Before(Listed(E), a, b) /\ ~Before(Listed(S), a, b)
  BY <1>4
<1>6. PICK a \in E, b \in E : Before(Listed(E), a, b) /\ ~Before(Listed(S), a, b)
  BY <1>5
<1> DEFINE m == Newest(S)
           S1 == S \ {m}
           E1 == E \ {m}
<1>7. S # {} /\ E # {} /\ a # b
  BY <1>5, <1>6, BeforeIs
<1>8. m \in S /\ Sound(S1) /\ \A x \in S : x = m \/ Less(x.id, m.id)
  BY <1>4, <1>7, NewestLast
<1>9. S1 \notin T /\ S1 \in SUBSET all
  BY <1>3, <1>4, <1>8
<1>10. Keeps(S1)
  BY <1>8, <1>9 DEF T
<1> HIDE DEF m
<1>11. Ordering(S, m, S1)
  BY <1>4, <1>7, NewestOrder DEF m
<1>12. CASE m \notin E
  <2>1. E \in SUBSET S1 /\ a \in S1 /\ b \in S1
    BY <1>12
  <2>2. Before(Listed(S1), a, b)
    BY <1>5, <1>6, <1>10, <2>1
  <2> QED
    BY <1>6, <1>11, <2>1, <2>2 DEF Ordering
<1>13. CASE m \in E
  <2>1. m = Newest(E)
    <3>1. Newest(E) \in E /\ \A x \in E : x = Newest(E) \/ Less(x.id, Newest(E).id)
      BY <1>5, <1>7, NewestLast
    <3> DEFINE n == Newest(E)
    <3>2. n \in E /\ n \in S /\ (m = n \/ Less(m.id, n.id)) /\ (n = m \/ Less(n.id, m.id))
      BY <1>8, <1>13, <3>1
    <3> HIDE DEF n
    <3>3. /\ m.id[1] \in Nat /\ m.id[2] \in Nat
          /\ n.id[1] \in Nat /\ n.id[2] \in Nat
      BY <1>4, <1>8, <3>2 DEF Sound, EntryType
    <3>4. m = n
      BY <3>2, <3>3 DEF Less
    <3> QED
      BY <3>4 DEF n
  <2>2. Sound(E1) /\ E1 \in SUBSET S1
    BY <1>5, <1>7, <2>1, NewestLast
  <2>3. Ordering(E, m, E1)
    BY <1>5, <1>7, <2>1, NewestOrder
  <2>4. \A x, y \in E1 : Before(Listed(E1), x, y) => Before(Listed(S1), x, y)
    BY <1>10, <2>2
  <2>5. CASE a # m /\ b # m
    BY <1>6, <1>11, <2>2, <2>3, <2>4, <2>5 DEF Ordering
  <2>6. CASE b = m
    <3>1. a \in E1
      BY <1>6, <1>7, <2>6
    <3>2. PICK p \in E1 : p.id = m.after /\ (a = p \/ Before(Listed(E1), a, p))
      BY <1>6, <2>3, <2>6, <3>1 DEF Ordering
    <3>3. p \in S1 /\ a \in S1 /\ (a = p \/ Before(Listed(S1), a, p))
      BY <2>2, <2>4, <3>1, <3>2
    <3> QED
      BY <1>6, <1>11, <2>6, <3>2, <3>3 DEF Ordering
  <2>7. CASE a = m
    <3>1. b \in E1 /\ b \in S1
      BY <1>6, <1>7, <2>2, <2>7
    <3>2. \A p \in E1 : p.id = m.after => Before(Listed(E1), p, b)
      BY <1>6, <2>3, <2>7, <3>1 DEF Ordering
    <3>3. ASSUME NEW p \in S1, p.id = m.after
          PROVE  Before(Listed(S1), p, b)
      <4>1. m.after # <<0, 0>>
        BY <1>4, <3>3 DEF Sound, EntryType
      <4>2. PICK q \in E : q.id = m.after
        BY <1>5, <1>13, <4>1 DEF Sound, Rooted
      <4>3. q = p
        BY <1>4, <3>3, <4>2 DEF Sound, Named
      <4>4. p \in E1
        BY <4>2, <4>3
      <4> QED
        BY <2>4, <3>1, <3>2, <3>3, <4>4
    <3> QED
      BY <1>6, <1>11, <2>7, <3>1, <3>3 DEF Ordering
  <2> QED
    BY <2>5, <2>6, <2>7
<1> QED
  BY <1>12, <1>13

(* The newest entry, put behind the last, comes last.                      *)
LEMMA LastStays ==
  ASSUME NEW es, Sound(es), NEW e, Sound(es \cup {e}), e \notin es,
         \A x \in es : Less(x.id, e.id),
         e.after = IF Listed(es) = <<>> THEN <<0, 0>>
                   ELSE Listed(es)[Len(Listed(es))].id,
         NEW a \in es
  PROVE  Before(Listed(es \cup {e}), a, e)
<1> DEFINE all == es \cup {e}
           s == Listed(es)
<1>1. Newest(all) \in all /\ \A x \in all : x = Newest(all) \/ Less(x.id, Newest(all).id)
  BY NewestLast
<1>2. Newest(all) = e
  <2>1. SUFFICES ASSUME Newest(all) # e PROVE FALSE
    OBVIOUS
  <2>2. PICK n \in es : n = Newest(all)
    BY <1>1, <2>1
  <2>3. Less(n.id, e.id) /\ Less(e.id, n.id)
    BY <1>1, <2>1, <2>2
  <2>4. /\ e.id[1] \in Nat /\ e.id[2] \in Nat
        /\ n.id[1] \in Nat /\ n.id[2] \in Nat
    BY DEF Sound, EntryType
  <2> QED
    BY <2>3, <2>4 DEF Less
<1>3. es = all \ {e}
  OBVIOUS
<1>4. IsList(s, es)
  BY ListedAll
<1> HIDE DEF all, s
<1>5. Before(Listed(all), a, e) <=>
        \E p \in es : p.id = e.after /\ (a = p \/ Before(s, a, p))
  BY <1>2, <1>3, NewestOrder DEF all, s, Ordering
<1>6. /\ Len(s) \in Nat /\ DOMAIN s = 1..Len(s)
      /\ \A i \in 1..Len(s) : s[i] \in es
  BY <1>4 DEF IsList
<1>7. PICK i \in 1..Len(s) : s[i] = a
  BY <1>4, <1>6 DEF IsList
<1>8. s # <<>> /\ Len(s) \in 1..Len(s)
  BY <1>6, <1>7
<1>9. e.after = s[Len(s)].id
  BY <1>8 DEF s
<1>10. a = s[Len(s)] \/ Before(s, a, s[Len(s)])
  BY <1>6, <1>7, <1>8 DEF Before
<1>11. Before(Listed(all), a, e)
  BY <1>5, <1>6, <1>8, <1>9, <1>10
<1> QED
  BY <1>11 DEF all

-----------------------------------------------------------------------------
(* A finite set of numbers that is not empty has its Max.                  *)
LEMMA MaxIs ==
  ASSUME NEW S, S \subseteq Nat, IsFiniteSet(S), S # {}
  PROVE  Max(S) \in S /\ \A x \in S : Max(S) >= x
<1> DEFINE Has(U) == \E e \in U : \A x \in U : e >= x
           T == {U \in SUBSET S : U # {} /\ ~Has(U)}
<1>1. SUFFICES ASSUME T # {} PROVE FALSE
  BY DEF Max
<1>2. T \in SUBSET (SUBSET S)
  OBVIOUS
<1> HIDE DEF T
<1>3. PICK U \in T : \A V \in T : V \subseteq U => V = U
  BY ONLY <1>1, <1>2, IsFiniteSet(S), LeastSubset
<1>4. U \in SUBSET S /\ U # {} /\ ~Has(U)
  BY DEF T
<1>5. PICK e \in U : TRUE
  BY <1>4
<1>6. CASE U \ {e} = {}
  BY <1>4, <1>5, <1>6
<1>7. CASE U \ {e} # {}
  <2>1. U \ {e} \notin T
    BY <1>3, <1>5
  <2>2. Has(U \ {e})
    BY <1>4, <1>7, <2>1 DEF T
  <2>3. PICK m \in U \ {e} : \A x \in U \ {e} : m >= x
    BY <2>2
  <2>4. m \in Nat /\ e \in Nat /\ U \subseteq Nat
    BY <1>4
  <2>5. CASE m >= e
    BY <1>4, <2>3, <2>4, <2>5
  <2>6. CASE ~(m >= e)
    BY <1>4, <1>5, <2>3, <2>4, <2>6
  <2> QED
    BY <2>5, <2>6
<1> QED
  BY <1>6, <1>7

(* Each list of a good document is sound.                                  *)
LEMMA OfListSound ==
  ASSUME NEW d, NEW th, DocOK(d, th), Apart(d, d), NEW l \in 1..MaxActors
  PROVE  Sound(OfList(d, l))
<1>1. OfList(d, l) \subseteq d.entries
  BY DEF OfList
<1>2. IsFiniteSet(OfList(d, l))
  BY <1>1, FS_Subset DEF DocOK
<1> QED
  BY <1>1, <1>2 DEF Sound, DocOK, Apart, Named

(* What is true of a thread stays true when entries are added.             *)
LEMMA ThreadGrows ==
  ASSUME NEW c, NEW d, c.entries \subseteq d.entries, c.entries \subseteq EntryType,
         \A l \in 1..MaxActors : Sound(OfList(c, l)) /\ Sound(OfList(d, l)),
         NEW x, ThreadIn(c, x), NEW e \in c.entries, e.id = x.id,
         NEW b \in x.before
  PROVE  Behind(d, b, e)
<1>1. PICK y \in c.entries : /\ y.id = b /\ y.list = e.list
                             /\ Before(Listed(OfList(c, e.list)), y, e)
  BY DEF ThreadIn, Behind
<1>2. e.list \in 1..MaxActors
  BY DEF EntryType
<1> DEFINE some == OfList(c, e.list)
           all == OfList(d, e.list)
<1>3. some \subseteq all /\ Sound(some) /\ Sound(all)
  BY <1>2 DEF OfList
<1>4. Before(Listed(some), y, e)
  BY <1>1
<1> HIDE DEF some, all
<1>5. Before(Listed(all), y, e)
  BY <1>3, <1>4, OrderStays
<1> QED
  BY <1>1, <1>5 DEF all, Behind

(* What two good documents make together is good.                          *)
LEMMA MergeOK ==
  ASSUME NEW c, NEW d, NEW th, DocOK(c, th), DocOK(d, th),
         Apart(c, c), Apart(d, d), Apart(c, d), NEW m,
         m = [lists |-> c.lists \cup d.lists, entries |-> c.entries \cup d.entries]
  PROVE  DocOK(m, th)
<1>1. m.lists = c.lists \cup d.lists /\ m.entries = c.entries \cup d.entries
  OBVIOUS
<1>2. Apart(m, m)
  BY <1>1 DEF Apart
<1>3. IsFiniteSet(m.entries) /\ m.entries \subseteq EntryType
  BY <1>1, FS_Union DEF DocOK
<1>4. \A l \in 1..MaxActors : Rooted(OfList(m, l))
  <2> TAKE l \in 1..MaxActors
  <2>1. Rooted(OfList(c, l)) /\ Rooted(OfList(d, l))
    BY DEF DocOK
  <2>2. OfList(m, l) = OfList(c, l) \cup OfList(d, l)
    BY <1>1 DEF OfList
  <2> QED
    BY <2>1, <2>2 DEF Rooted
<1>5. \A l \in 1..MaxActors : /\ Sound(OfList(c, l)) /\ Sound(OfList(d, l))
                              /\ Sound(OfList(m, l))
  <2> TAKE l \in 1..MaxActors
  <2>1. IsFiniteSet(OfList(m, l))
    BY <1>3, FS_Subset, OfList(m, l) \subseteq m.entries DEF OfList
  <2>2. Sound(OfList(m, l))
    BY <1>2, <1>3, <1>4, <2>1 DEF Sound, Named, Apart, OfList
  <2> QED
    BY <2>2, OfListSound
<1>6. ASSUME NEW x \in th PROVE ThreadIn(m, x)
  <2> SUFFICES ASSUME NEW e \in m.entries, e.id = x.id, NEW b \in x.before
               PROVE  Behind(m, b, e)
    BY DEF ThreadIn
  <2>1. CASE e \in c.entries
    <3>1. ThreadIn(c, x) /\ c.entries \subseteq EntryType
      BY DEF DocOK
    <3> QED
      BY <1>1, <1>5, <2>1, <3>1, ThreadGrows
  <2>2. CASE e \in d.entries
    <3>1. ThreadIn(d, x) /\ d.entries \subseteq EntryType
      BY DEF DocOK
    <3> QED
      BY <1>1, <1>5, <2>2, <3>1, ThreadGrows
  <2> QED
    BY <1>1, <2>1, <2>2
<1>7. m.lists \subseteq 1..MaxActors
  BY <1>1 DEF DocOK
<1>8. \A e \in m.entries : /\ e.list \in m.lists /\ e.id[1] <= e.last
                           /\ \E x \in th : x.id = e.id
  BY <1>1 DEF DocOK
<1>9. m = [lists |-> m.lists, entries |-> m.entries]
  OBVIOUS
<1> QED
  BY <1>3, <1>4, <1>6, <1>7, <1>8, <1>9 DEF DocOK

(* The counter of a document is not below that of any of its entries.      *)
LEMMA CounterIs ==
  ASSUME NEW d, NEW th, DocOK(d, th)
  PROVE  Counter(d) \in Nat /\ \A e \in d.entries : e.id[1] <= Counter(d)
<1> DEFINE S == {1} \cup {e.last : e \in d.entries}
<1>1. \A e \in d.entries : e.last \in Nat /\ e.id[1] \in Nat /\ e.id[1] <= e.last
  BY DEF DocOK, EntryType
<1>2. IsFiniteSet({e.last : e \in d.entries})
  <2> DEFINE f == [e \in d.entries |-> e.last]
             L == {e.last : e \in d.entries}
  <2>1. f \in Surjection(d.entries, L)
    BY DEF Surjection
  <2> HIDE DEF f, L
  <2>2. IsFiniteSet(L)
    BY <2>1, FS_Surjection DEF DocOK
  <2> QED
    BY <2>2 DEF L
<1>3. IsFiniteSet(S)
  BY <1>2, FS_Union, FS_Singleton
<1>4. S \in SUBSET Nat /\ S # {}
  BY <1>1
<1> HIDE DEF S
<1>5. Max(S) \in S /\ \A x \in S : Max(S) >= x
  BY <1>3, <1>4, MaxIs
<1>6. Counter(d) = Max(S)
  BY DEF Counter, S
<1>7. \A e \in d.entries : e.last \in S
  BY DEF S
<1>8. Counter(d) \in Nat
  BY <1>4, <1>5, <1>6
<1>9. ASSUME NEW e \in d.entries PROVE e.id[1] <= Counter(d)
  <2>1. Counter(d) >= e.last
    BY <1>5, <1>6, <1>7
  <2> QED
    BY <1>1, <1>8, <2>1
<1> QED
  BY <1>8, <1>9

(* What add_entry adds to a document, and what it is remembered by.        *)
NewEntry(c, a, ops) ==
  [id |-> <<Counter(c) + 1, a>>, list |-> Winner(c),
   after |-> IF Shown(c) = <<>> THEN <<0, 0>> ELSE Shown(c)[Len(Shown(c))].id,
   last |-> Counter(c) + 1 + ops - 1]

NewThread(c, e, key) ==
  [id |-> e.id, before |-> {Shown(c)[i].id : i \in DOMAIN Shown(c)}, key |-> key]

(* A good document with a new entry is good.                               *)
LEMMA AddOK ==
  ASSUME NEW c, NEW th, DocOK(c, th), Apart(c, c), c.lists # {},
         NEW a \in Nat, NEW ops \in Nat \ {0}, NEW key, NEW e, NEW x, NEW d,
         e = NewEntry(c, a, ops), x = NewThread(c, e, key),
         d = [lists |-> c.lists, entries |-> c.entries \cup {e}],
         \A y \in th : y.id # e.id
  PROVE  DocOK(d, th \cup {x})
<1> DEFINE l == Winner(c)
           es == OfList(c, l)
           s == Listed(es)
<1>1. l \in c.lists /\ l \in 1..MaxActors
  <2>1. IsFiniteSet(1..MaxActors)
    BY FS_Interval, SharedDocAssumption
  <2>2. IsFiniteSet(c.lists) /\ c.lists \in SUBSET Nat /\ c.lists \subseteq 1..MaxActors
    BY <2>1, FS_Subset, SharedDocAssumption DEF DocOK
  <2> QED
    BY <2>2, MaxIs DEF Winner
<1>2. Sound(es)
  BY <1>1, OfListSound
<1>3. s = Shown(c)
  BY DEF Shown, OfList
<1>4. IsList(s, es)
  BY <1>2, ListedAll
<1> HIDE DEF l, es, s
<1>5. /\ s \in Seq(es) /\ Len(s) \in Nat /\ DOMAIN s = 1..Len(s)
      /\ \A y \in es : \E i \in DOMAIN s : s[i] = y
  BY <1>4 DEF IsList
<1>6. \A i \in DOMAIN s : s[i] \in es
  BY <1>5
<1>7. /\ e.id = <<Counter(c) + 1, a>> /\ e.list = l
      /\ e.last = Counter(c) + 1 + ops - 1
      /\ e.after = IF s = <<>> THEN <<0, 0>> ELSE s[Len(s)].id
  BY <1>3 DEF l, NewEntry
<1>8. s # <<>> => s[Len(s)] \in es
  <2>1. s # <<>> => Len(s) \in DOMAIN s
    BY <1>5
  <2> QED
    BY <1>6, <2>1
<1>9. es \subseteq c.entries /\ c.entries \subseteq EntryType
  BY DEF es, OfList, DocOK
<1>10. Counter(c) \in Nat /\ \A y \in c.entries : y.id[1] <= Counter(c)
  BY CounterIs
<1>11. e.id[1] = Counter(c) + 1 /\ e.id[2] = a
  BY <1>7
<1>12. e \in EntryType /\ e.id[1] <= e.last
  <2>1. e.after \in Nat \X Nat
    <3>1. CASE s = <<>>
      BY <1>7, <3>1
    <3>2. CASE s # <<>>
      <4>1. s[Len(s)].id \in Nat \X Nat
        BY <1>8, <1>9, <3>2 DEF EntryType
      <4> QED
        BY <1>7, <3>2, <4>1
    <3> QED
      BY <3>1, <3>2
  <2>2. Counter(c) + 1 \in Nat \ {0} /\ e.last \in Nat /\ Counter(c) + 1 <= e.last
    BY <1>7, <1>10
  <2>3. e.id \in (Nat \ {0}) \X Nat
    BY <1>7, <2>2
  <2>4. e = [id |-> e.id, list |-> e.list, after |-> e.after, last |-> e.last]
    BY DEF NewEntry
  <2>5. e \in [id: (Nat \ {0}) \X Nat, list: 1..MaxActors, after: Nat \X Nat, last: Nat]
    BY <1>1, <1>7, <2>1, <2>2, <2>3, <2>4
  <2> QED
    BY <1>11, <2>2, <2>5 DEF EntryType
<1>13. \A y \in c.entries : Less(y.id, e.id) /\ y.id # e.id
  <2> TAKE y \in c.entries
  <2>1. y.id[1] \in Nat /\ y.id[1] < e.id[1]
    BY <1>9, <1>10, <1>11 DEF EntryType
  <2> QED
    BY <2>1 DEF Less
<1>14. d.lists = c.lists /\ d.entries = c.entries \cup {e} /\ e \notin c.entries
  BY <1>13
<1>15. /\ OfList(d, l) = es \cup {e}
       /\ \A k \in 1..MaxActors : k # l => OfList(d, k) = OfList(c, k)
  BY <1>7, <1>14 DEF OfList, es
<1>16. Apart(d, d)
  BY <1>13, <1>14 DEF Apart
<1>17. IsFiniteSet(d.entries) /\ d.entries \subseteq EntryType
  BY <1>9, <1>12, <1>14, FS_AddElement DEF DocOK
<1>18. Rooted(es \cup {e})
  <2>1. e.after = <<0, 0>> \/ \E y \in es : y.id = e.after /\ Less(y.id, e.id)
    BY <1>7, <1>8, <1>9, <1>13
  <2>2. Rooted(es)
    BY <1>2 DEF Sound
  <2> QED
    BY <2>1, <2>2 DEF Rooted
<1>19. \A k \in 1..MaxActors : Rooted(OfList(d, k))
  <2> TAKE k \in 1..MaxActors
  <2>1. CASE k = l
    BY <1>15, <1>18, <2>1
  <2>2. CASE k # l
    BY <1>15, <2>2 DEF DocOK
  <2> QED
    BY <2>1, <2>2
<1>20. \A k \in 1..MaxActors : Sound(OfList(c, k)) /\ Sound(OfList(d, k))
  <2> TAKE k \in 1..MaxActors
  <2>1. IsFiniteSet(OfList(d, k))
    BY <1>17, FS_Subset, OfList(d, k) \subseteq d.entries DEF OfList
  <2>2. Sound(OfList(d, k))
    BY <1>16, <1>17, <1>19, <2>1 DEF Sound, Named, Apart, OfList
  <2> QED
    BY <2>2, OfListSound
<1>21. ASSUME NEW y \in th PROVE ThreadIn(d, y)
  <2> SUFFICES ASSUME NEW f \in d.entries, f.id = y.id, NEW b \in y.before
               PROVE  Behind(d, b, f)
    BY DEF ThreadIn
  <2>1. f \in c.entries
    BY <1>14
  <2>2. ThreadIn(c, y)
    BY DEF DocOK
  <2>3. c.entries \subseteq d.entries
    BY <1>14
  <2> QED
    BY <1>9, <1>20, <2>1, <2>2, <2>3, ThreadGrows
<1>22. ThreadIn(d, x)
  <2> SUFFICES ASSUME NEW f \in d.entries, f.id = x.id, NEW b \in x.before
               PROVE  Behind(d, b, f)
    BY DEF ThreadIn
  <2>1. f = e
    BY <1>13, <1>14 DEF NewThread
  <2>2. PICK i \in DOMAIN s : b = s[i].id
    BY <1>3 DEF NewThread
  <2>3. s[i] \in es /\ s[i] \in d.entries /\ s[i].list = l
    BY <1>6, <1>14 DEF es, OfList
  <2>4. Sound(es \cup {e}) /\ e \notin es
    BY <1>1, <1>9, <1>14, <1>15, <1>20
  <2>5. \A y \in es : Less(y.id, e.id)
    BY <1>9, <1>13
  <2>6. s = Listed(es)
    BY DEF s
  <2>7. Before(Listed(es \cup {e}), s[i], e)
    BY <1>2, <1>7, <2>3, <2>4, <2>5, <2>6, LastStays
  <2> QED
    BY <1>7, <1>15, <2>1, <2>2, <2>3, <2>7 DEF Behind
<1>23. \A f \in d.entries : /\ f.list \in d.lists /\ f.id[1] <= f.last
                            /\ \E y \in th \cup {x} : y.id = f.id
  <2> TAKE f \in d.entries
  <2>1. CASE f = e
    BY <1>1, <1>7, <1>12, <1>14, <2>1 DEF NewThread
  <2>2. CASE f \in c.entries
    BY <1>14, <2>2 DEF DocOK
  <2> QED
    BY <1>14, <2>1, <2>2
<1>24. d = [lists |-> d.lists, entries |-> d.entries]
  OBVIOUS
<1>25. d.lists \subseteq 1..MaxActors
  BY <1>14 DEF DocOK
<1> QED
  BY <1>17, <1>19, <1>21, <1>22, <1>23, <1>24, <1>25 DEF DocOK

-----------------------------------------------------------------------------
(* No document is open at first.                                           *)
LEMMA DocInitInv == DocInit => DocInv
<1> SUFFICES ASSUME DocInit PROVE DocInv
  OBVIOUS
<1>1. /\ DOMAIN doc = Replicas /\ saved = {} /\ thread = {}
      /\ \A r \in Replicas : doc[r] = NoDoc /\ ~Open(r) /\ actor[r] = 0
  BY DEF DocInit, Open
<1>2. NoDoc.lists = {} /\ NoDoc.entries = {}
  BY DEF NoDoc
<1>3. \A l : OfList(NoDoc, l) = {}
  BY <1>2 DEF OfList
<1>4. IsFiniteSet({})
  BY FS_EmptySet
<1>5. DocOK(NoDoc, {})
  BY <1>2, <1>3, <1>4 DEF DocOK, NoDoc, Rooted
<1>6. \A d \in Documents : d = NoDoc
  BY <1>1 DEF Documents
<1>7. Apart(NoDoc, NoDoc)
  BY <1>2 DEF Apart
<1>8. actor \in [Replicas -> 0..MaxActors]
  BY SharedDocAssumption DEF DocInit
<1>9. ActorsOK
  BY <1>1 DEF ActorsOK
<1>10. \A k : KeyOK(NoDoc, k, {})
  BY DEF KeyOK
<1>11. \A d \in Documents : DocOK(d, thread)
  BY <1>1, <1>5, <1>6
<1>12. \A c, d \in Documents : Apart(c, d)
  BY <1>6, <1>7
<1> QED
  BY <1>1, <1>8, <1>9, <1>10, <1>11, <1>12 DEF DocInv

(* What a document has that replica r opens or changes, when no entry is   *)
(* written, for all to stay as it is.                                      *)
Opened(r, d) ==
  /\ doc' = [doc EXCEPT ![r] = d]
  /\ d.lists # {}
  /\ DocOK(d, thread)
  /\ KeyOK(d, roomKey[r], thread)
  /\ Apart(d, d)
  /\ \A c \in Documents : Apart(c, d) /\ Apart(d, c)
  /\ UNCHANGED <<roomKey, saved, thread>>

(* A replica whose document is replaced by a good one keeps the invariant. *)
LEMMA OpenedKeeps ==
  ASSUME DocInv, NEW r \in Replicas, NEW d, Opened(r, d),
         actor' \in [Replicas -> 0..MaxActors], ActorsOK'
  PROVE  DocInv'
<1>1. /\ DOMAIN doc' = Replicas /\ doc'[r] = d
      /\ \A q \in Replicas : q # r => doc'[q] = doc[q]
  BY DEF Opened, DocInv
<1>2. saved' = saved /\ thread' = thread /\ roomKey' = roomKey
  BY DEF Opened
<1>3. \A c \in Documents' : c \in Documents \/ c = d
  BY <1>1, <1>2 DEF Documents
<1>4. \A c \in Documents' : DocOK(c, thread')
  BY <1>2, <1>3 DEF DocInv, Opened
<1>5. \A b, c \in Documents' : Apart(b, c)
  BY <1>3 DEF DocInv, Opened
<1>6. \A q \in Replicas : doc'[q].lists # {} \/ doc'[q] = NoDoc
  BY <1>1 DEF DocInv, Opened, Open
<1>7. \A q \in Replicas : KeyOK(doc'[q], roomKey'[q], thread')
  BY <1>1, <1>2 DEF DocInv, Opened
<1>8. \A s \in saved' : s.doc.lists # {} /\ KeyOK(s.doc, s.key, thread')
  BY <1>2 DEF DocInv
<1> QED
  BY <1>1, <1>4, <1>5, <1>6, <1>7, <1>8 DEF DocInv, Open

(* A fresh actor writes nowhere and has written nothing.                   *)
LEMMA FreshIs ==
  ASSUME NEW a \in Fresh
  PROVE  /\ a \in 1..MaxActors
         /\ \A q \in Replicas : actor[q] # a
         /\ \A x \in thread : x.id[2] # a
BY DEF Fresh, Used

(* A replica that begins or loads a document writes as a fresh actor.      *)
LEMMA NewActor ==
  ASSUME DocInv, NEW r \in Replicas, NEW a \in Fresh, NEW d,
         doc' = [doc EXCEPT ![r] = d], actor' = [actor EXCEPT ![r] = a],
         thread' = thread
  PROVE  actor' \in [Replicas -> 0..MaxActors] /\ ActorsOK'
<1>1. /\ a \in 1..MaxActors
      /\ \A q \in Replicas : actor[q] # a
      /\ \A x \in thread : x.id[2] # a
  BY FreshIs
<1>2. actor \in [Replicas -> 0..MaxActors] /\ DOMAIN doc = Replicas /\ ActorsOK
  BY DEF DocInv
<1>3. actor' \in [Replicas -> 0..MaxActors]
  BY <1>1, <1>2
<1>4. /\ actor'[r] = a
      /\ \A q \in Replicas : q # r => actor'[q] = actor[q] /\ doc'[q] = doc[q]
  BY <1>2
<1>5. \A q \in Replicas : q # r => (Open(q)' <=> Open(q))
  BY <1>4 DEF Open
<1>6. ASSUME NEW p \in Replicas, NEW q \in Replicas, Open(p)', actor'[p] = actor'[q]
      PROVE  p = q
  BY <1>1, <1>2, <1>4, <1>5, <1>6 DEF ActorsOK
<1>7. ASSUME NEW q \in Replicas, NEW x \in thread, Open(q)', x.id[2] = actor'[q]
      PROVE  \E e \in doc'[q].entries : e.id = x.id
  BY <1>1, <1>2, <1>4, <1>5, <1>7 DEF ActorsOK
<1> QED
  BY <1>3, <1>6, <1>7 DEF ActorsOK

(* The steps, one by one.                                                  *)
LEMMA NewKeeps ==
  ASSUME DocInv, NEW r \in Replicas, NEW a \in Fresh, New(r, a)
  PROVE  DocInv'
<1> DEFINE d == [lists |-> {a}, entries |-> {}]
<1>1. d.lists = {a} /\ d.entries = {}
  OBVIOUS
<1>2. /\ doc' = [doc EXCEPT ![r] = d] /\ actor' = [actor EXCEPT ![r] = a]
      /\ UNCHANGED <<roomKey, saved, thread>>
  BY DEF New
<1>3. a \in 1..MaxActors
  BY FreshIs
<1>4. d = [lists |-> d.lists, entries |-> d.entries]
  OBVIOUS
<1> HIDE DEF d
<1>5. \A l : OfList(d, l) = {}
  BY <1>1 DEF OfList
<1>6. IsFiniteSet(d.entries)
  BY <1>1, FS_EmptySet
<1>7. DocOK(d, thread)
  BY <1>1, <1>3, <1>4, <1>5, <1>6 DEF DocOK, Rooted, ThreadIn
<1>8. KeyOK(d, roomKey[r], thread) /\ Apart(d, d)
  BY <1>1 DEF KeyOK, Apart
<1>9. \A c : Apart(c, d) /\ Apart(d, c)
  BY <1>1 DEF Apart
<1>10. Opened(r, d)
  BY <1>1, <1>2, <1>7, <1>8, <1>9 DEF Opened
<1> QED
  BY <1>2, <1>10, NewActor, OpenedKeeps

LEMMA LoadKeeps ==
  ASSUME DocInv, NEW r \in Replicas, NEW a \in Fresh, NEW s \in saved, Load(r, s, a)
  PROVE  DocInv'
<1> DEFINE d == s.doc
<1>1. /\ doc' = [doc EXCEPT ![r] = d] /\ actor' = [actor EXCEPT ![r] = a]
      /\ UNCHANGED <<roomKey, saved, thread>> /\ s.key = roomKey[r]
  BY DEF Load
<1>2. d \in Documents
  BY DEF Documents
<1>3. /\ d.lists # {} /\ DocOK(d, thread) /\ KeyOK(d, roomKey[r], thread)
      /\ Apart(d, d) /\ \A c \in Documents : Apart(c, d) /\ Apart(d, c)
  BY <1>1, <1>2 DEF DocInv
<1> HIDE DEF d
<1>4. Opened(r, d)
  BY <1>1, <1>3 DEF Opened
<1> QED
  BY <1>1, <1>4, NewActor, OpenedKeeps

LEMMA MergeKeeps ==
  ASSUME DocInv, NEW r \in Replicas, NEW s \in saved, Merge(r, s)
  PROVE  DocInv'
<1> DEFINE c == doc[r]
           d == s.doc
           m == [lists |-> c.lists \cup d.lists, entries |-> c.entries \cup d.entries]
<1>1. /\ doc' = [doc EXCEPT ![r] = m] /\ Open(r) /\ s.key = roomKey[r]
      /\ UNCHANGED <<actor, roomKey, saved, thread>>
  BY DEF Merge, DocInv
<1>2. c \in Documents /\ d \in Documents
  BY DEF Documents
<1>3. m.lists = c.lists \cup d.lists /\ m.entries = c.entries \cup d.entries
  OBVIOUS
<1>4. /\ c.lists # {} /\ DocOK(c, thread) /\ DocOK(d, thread)
      /\ KeyOK(c, roomKey[r], thread) /\ KeyOK(d, roomKey[r], thread)
  BY <1>1, <1>2 DEF DocInv
<1>5. \A b \in Documents : /\ Apart(b, c) /\ Apart(c, b)
                           /\ Apart(b, d) /\ Apart(d, b)
  BY <1>2 DEF DocInv
<1>6. m = [lists |-> c.lists \cup d.lists, entries |-> c.entries \cup d.entries]
  OBVIOUS
<1>7. c = doc[r]
  OBVIOUS
<1> HIDE DEF c, d, m
<1>8. DocOK(m, thread)
  BY <1>2, <1>4, <1>5, <1>6, MergeOK
<1>9. KeyOK(m, roomKey[r], thread)
  BY <1>3, <1>4 DEF KeyOK
<1>10. \A b \in Documents : Apart(b, m) /\ Apart(m, b)
  BY <1>3, <1>5 DEF Apart
<1>11. Apart(m, m)
  BY <1>2, <1>3, <1>5 DEF Apart
<1>12. Opened(r, m)
  BY <1>1, <1>3, <1>4, <1>8, <1>9, <1>10, <1>11 DEF Opened
<1>13. /\ actor' = actor /\ actor \in [Replicas -> 0..MaxActors] /\ ActorsOK
       /\ DOMAIN doc = Replicas
  BY <1>1 DEF DocInv
<1>14. doc'[r] = m /\ \A q \in Replicas : q # r => doc'[q] = doc[q]
  BY <1>1, <1>13
<1>15. /\ \A q \in Replicas : Open(q)' => Open(q)
       /\ \A q \in Replicas : doc[q].entries \subseteq doc'[q].entries
  BY <1>1, <1>3, <1>7, <1>14 DEF Open
<1>16. ActorsOK'
  BY <1>1, <1>13, <1>15 DEF ActorsOK
<1> QED
  BY <1>12, <1>13, <1>16, OpenedKeeps

LEMMA SaveKeeps ==
  ASSUME DocInv, NEW r \in Replicas, Save(r)
  PROVE  DocInv'
<1> DEFINE s == [doc |-> doc[r], key |-> roomKey[r]]
<1>1. /\ saved' = saved \cup {s} /\ Open(r)
      /\ UNCHANGED <<doc, actor, roomKey, thread>>
  BY DEF Save
<1>2. s.doc = doc[r] /\ s.key = roomKey[r]
  OBVIOUS
<1> HIDE DEF s
<1>3. Documents' = Documents
  BY <1>1, <1>2 DEF Documents
<1>4. \A q \in saved' : q.doc.lists # {} /\ KeyOK(q.doc, q.key, thread)
  BY <1>1, <1>2 DEF DocInv
<1>5. ActorsOK' /\ \A q \in Replicas : Open(q)' <=> Open(q)
  BY <1>1 DEF DocInv, ActorsOK, Open
<1> QED
  BY <1>1, <1>3, <1>4, <1>5 DEF DocInv

LEMMA AddKeeps ==
  ASSUME DocInv, NEW r \in Replicas, NEW ops \in EntryOps, Add(r, ops)
  PROVE  DocInv'
<1> DEFINE c == doc[r]
           a == actor[r]
           e == NewEntry(c, a, ops)
           x == NewThread(c, e, roomKey[r])
           d == [lists |-> c.lists, entries |-> c.entries \cup {e}]
<1>1. /\ Open(r) /\ doc' = [doc EXCEPT ![r] = d] /\ thread' = thread \cup {x}
      /\ UNCHANGED <<actor, roomKey, saved>>
  <2>1. c = [lists |-> c.lists, entries |-> c.entries] /\ DOMAIN doc = Replicas
    BY DEF DocInv, Documents, DocOK
  <2>2. /\ Open(r) /\ doc' = [doc EXCEPT ![r].entries = @ \cup {e}]
        /\ thread' = thread \cup {x}
        /\ UNCHANGED <<actor, roomKey, saved>>
    BY DEF Add, NewEntry, NewThread
  <2> HIDE DEF e, x
  <2>3. [c EXCEPT !.entries = @ \cup {e}] = d
    BY <2>1
  <2> QED
    BY <2>1, <2>2, <2>3
<1>2. /\ c \in Documents /\ c.lists # {} /\ DocOK(c, thread) /\ Apart(c, c)
      /\ KeyOK(c, roomKey[r], thread)
  BY <1>1 DEF DocInv, Documents
<1>3. actor[r] \in Nat /\ ops \in Nat \ {0}
  BY SharedDocAssumption DEF DocInv
<1>4. e.id = <<Counter(c) + 1, actor[r]>> /\ x.id = e.id /\ x.key = roomKey[r]
  BY DEF NewEntry, NewThread
<1>5. Counter(c) \in Nat /\ \A f \in c.entries : f.id[1] <= Counter(c)
  BY <1>2, CounterIs
<1>6. \A y \in thread : y.id # e.id
  <2> SUFFICES ASSUME NEW y \in thread, y.id = e.id PROVE FALSE
    OBVIOUS
  <2> HIDE DEF e, x, d
  <2>1. y.id[2] = actor[r] /\ y.id[1] = Counter(c) + 1
    BY <1>4
  <2>2. PICK f \in c.entries : f.id = y.id
    BY <1>1, <2>1 DEF DocInv, ActorsOK
  <2>3. f.id[1] <= Counter(c) /\ f.id[1] = Counter(c) + 1
    BY <1>5, <2>1, <2>2
  <2> QED
    BY <1>5, <2>3
<1>7. DocOK(d, thread \cup {x})
  <2>1. /\ e = NewEntry(c, a, ops) /\ x = NewThread(c, e, roomKey[r])
        /\ d = [lists |-> c.lists, entries |-> c.entries \cup {e}]
    OBVIOUS
  <2>2. a \in Nat
    BY <1>3
  <2> HIDE DEF c, e, x, d, a
  <2> QED
    BY <1>2, <1>3, <1>6, <2>1, <2>2, AddOK
<1>8. d.lists = c.lists /\ d.entries = c.entries \cup {e}
  OBVIOUS
<1> HIDE DEF c, e, x, d
<1>9. /\ DOMAIN doc = Replicas /\ DOMAIN doc' = Replicas /\ doc'[r] = d
      /\ \A q \in Replicas : q # r => doc'[q] = doc[q]
  BY <1>1 DEF DocInv
<1>10. \A b \in Documents' : b \in Documents \/ b = d
  BY <1>1, <1>9 DEF Documents
<1>11. ASSUME NEW b \in Documents
       PROVE  /\ DocOK(b, thread \cup {x})
              /\ \A f \in b.entries : f.id # e.id
              /\ Apart(b, d) /\ Apart(d, b)
  <2>1. DocOK(b, thread) /\ Apart(b, c) /\ Apart(c, b)
    BY <1>2 DEF DocInv
  <2>2. \A f \in b.entries : \E y \in thread : y.id = f.id
    BY <2>1 DEF DocOK
  <2>3. \A f \in b.entries : f.id # e.id
    BY <1>6, <2>2
  <2>4. ThreadIn(b, x)
    BY <1>4, <2>3 DEF ThreadIn
  <2>5. DocOK(b, thread \cup {x})
    BY <2>1, <2>4 DEF DocOK
  <2> QED
    BY <1>8, <2>1, <2>3, <2>5 DEF Apart
<1>12. Apart(d, d)
  BY <1>2, <1>8, <1>11 DEF Apart
<1>13. \A b \in Documents' : DocOK(b, thread')
  BY <1>1, <1>7, <1>10, <1>11
<1>14. \A b, f \in Documents' : Apart(b, f)
  BY <1>10, <1>11, <1>12 DEF DocInv
<1>15. KeyOK(d, roomKey[r], thread \cup {x})
  <2> SUFFICES ASSUME NEW y \in thread \cup {x}, NEW f \in d.entries, f.id = y.id
               PROVE  y.key = roomKey[r]
    BY DEF KeyOK
  <2>1. CASE y = x
    BY <1>4, <2>1
  <2>2. CASE y \in thread
    <3>1. f \in c.entries
      BY <1>6, <1>8, <2>2
    <3> QED
      BY <1>2, <2>2, <3>1 DEF KeyOK
  <2> QED
    BY <2>1, <2>2
<1>16. ASSUME NEW b \in Documents, NEW k, KeyOK(b, k, thread)
       PROVE  KeyOK(b, k, thread \cup {x})
  BY <1>4, <1>11, <1>16 DEF KeyOK
<1>17. \A q \in Replicas : KeyOK(doc'[q], roomKey'[q], thread')
  <2> TAKE q \in Replicas
  <2>1. CASE q = r
    BY <1>1, <1>9, <1>15, <2>1
  <2>2. CASE q # r
    <3>1. doc[q] \in Documents /\ KeyOK(doc[q], roomKey[q], thread)
      BY DEF DocInv, Documents
    <3> QED
      BY <1>1, <1>9, <1>16, <2>2, <3>1
  <2> QED
    BY <2>1, <2>2
<1>18. ASSUME NEW s \in saved'
       PROVE  s.doc.lists # {} /\ KeyOK(s.doc, s.key, thread')
  <2>1. /\ s \in saved /\ s.doc \in Documents /\ s.doc.lists # {}
        /\ KeyOK(s.doc, s.key, thread)
    BY <1>1 DEF DocInv, Documents
  <2> QED
    BY <1>1, <1>16, <2>1
<1>19. \A q \in Replicas : Open(q)' => Open(q) /\ doc'[q].lists # {}
  BY <1>1, <1>2, <1>8, <1>9 DEF Open, DocInv
<1>20. ActorsOK'
  <2>1. \A p, q \in Replicas : Open(p)' /\ actor'[p] = actor'[q] => p = q
    BY <1>1, <1>19 DEF DocInv, ActorsOK
  <2>2. ASSUME NEW q \in Replicas, NEW y \in thread', Open(q)', y.id[2] = actor'[q]
        PROVE  \E f \in doc'[q].entries : f.id = y.id
    <3>1. CASE y \in thread
      <4>1. PICK f \in doc[q].entries : f.id = y.id
        BY <1>1, <1>19, <2>2, <3>1 DEF DocInv, ActorsOK
      <4>2. f \in doc'[q].entries
        BY <1>8, <1>9, <4>1 DEF c
      <4> QED
        BY <4>1, <4>2
    <3>2. CASE y = x
      <4>1. actor[q] = actor[r] /\ Open(r)
        BY <1>1, <1>4, <2>2, <3>2
      <4>2. q = r
        BY <4>1 DEF DocInv, ActorsOK
      <4> QED
        BY <1>4, <1>8, <1>9, <3>2, <4>2
    <3> QED
      BY <1>1, <2>2, <3>1, <3>2
  <2> QED
    BY <2>1, <2>2 DEF ActorsOK
<1>21. actor' \in [Replicas -> 0..MaxActors]
  BY <1>1 DEF DocInv
<1> QED
  BY <1>9, <1>13, <1>14, <1>17, <1>18, <1>19, <1>20, <1>21 DEF DocInv

LEMMA DocNextInv == DocInv /\ [DocNext]_docVars => DocInv'
<1> SUFFICES ASSUME DocInv, [DocNext]_docVars PROVE DocInv'
  OBVIOUS
<1>1. CASE DocNext
  BY <1>1, NewKeeps, LoadKeeps, MergeKeeps, AddKeeps, SaveKeeps DEF DocNext
<1>2. CASE UNCHANGED docVars
  BY <1>2 DEF docVars, DocInv, Documents, ActorsOK, Open
<1> QED
  BY <1>1, <1>2

(* In whatever order snapshots are saved, loaded and merged, by any number *)
(* of replicas and in documents of any size: an entry that is shown stands *)
(* behind all that its writer had read, none of which is missing; it was   *)
(* written under the replica's key; and a document begun once shows every  *)
(* entry it has.                                                           *)
THEOREM ThreadsAreKept == DocSpec => []ThreadsKept
<1>1. DocSpec => []DocInv
  BY DocInitInv, DocNextInv, PTL DEF DocSpec
<1>2. DocInv => ThreadsKept
  <2> SUFFICES ASSUME DocInv, NEW r \in Replicas, Open(r)
               PROVE  LET shown == Shown(doc[r]) IN
                      /\ Cardinality(doc[r].lists) = 1 =>
                           Len(shown) = Cardinality(doc[r].entries)
                      /\ \A x \in thread : \A i \in DOMAIN shown : shown[i].id = x.id =>
                           /\ x.key = roomKey[r]
                           /\ x.before \subseteq {shown[j].id : j \in 1..(i - 1)}
    BY DEF ThreadsKept
  <2> DEFINE d == doc[r]
             l == Winner(d)
             es == OfList(d, l)
             s == Shown(d)
  <2>1. /\ d \in Documents /\ d.lists # {} /\ DocOK(d, thread) /\ Apart(d, d)
        /\ KeyOK(d, roomKey[r], thread)
    BY DEF DocInv, Documents
  <2> HIDE DEF d
  <2>2. l \in d.lists /\ l \in 1..MaxActors
    <3>1. IsFiniteSet(1..MaxActors)
      BY FS_Interval, SharedDocAssumption
    <3>2. IsFiniteSet(d.lists) /\ d.lists \in SUBSET Nat /\ d.lists \subseteq 1..MaxActors
      BY <2>1, <3>1, FS_Subset, SharedDocAssumption DEF DocOK
    <3> QED
      BY <2>1, <3>2, MaxIs DEF Winner
  <2> HIDE DEF l
  <2>3. Sound(es)
    BY <2>1, <2>2, OfListSound
  <2>4. s = Listed(es)
    BY DEF Shown, OfList, l
  <2> HIDE DEF s, es
  <2>5. IsList(s, es)
    BY <2>3, <2>4, ListedAll
  <2>6. /\ Len(s) \in Nat /\ DOMAIN s = 1..Len(s) /\ Len(s) = Cardinality(es)
        /\ \A i \in DOMAIN s : s[i] \in es
        /\ \A i, j \in DOMAIN s : s[i] = s[j] => i = j
    BY <2>5 DEF IsList
  <2>7. ASSUME Cardinality(d.lists) = 1
        PROVE  Len(s) = Cardinality(d.entries)
    <3>1. \A k \in d.lists : k = l
      <4>1. IsFiniteSet(1..MaxActors)
        BY FS_Interval, SharedDocAssumption
      <4>2. IsFiniteSet(d.lists)
        BY <2>1, <4>1, FS_Subset DEF DocOK
      <4>3. \E k : d.lists = {k}
        BY <2>7, <4>2, FS_Singleton
      <4> QED
        BY <2>2, <4>3
    <3>2. es = d.entries
      BY <2>1, <3>1 DEF es, OfList, DocOK
    <3> QED
      BY <2>6, <3>2
  <2>8. ASSUME NEW x \in thread, NEW i \in DOMAIN s, s[i].id = x.id
        PROVE  /\ x.key = roomKey[r]
               /\ x.before \subseteq {s[j].id : j \in 1..(i - 1)}
    <3>1. s[i] \in es /\ s[i] \in d.entries /\ s[i].list = l
      BY <2>6 DEF es, OfList
    <3>2. x.key = roomKey[r]
      BY <2>1, <2>8, <3>1 DEF KeyOK
    <3>3. ASSUME NEW b \in x.before
          PROVE  \E j \in 1..(i - 1) : b = s[j].id
      <4>1. Behind(d, b, s[i])
        BY <2>1, <2>8, <3>1 DEF DocOK, ThreadIn
      <4>2. PICK y \in d.entries : y.id = b /\ Before(Listed(OfList(d, l)), y, s[i])
        BY <3>1, <4>1 DEF Behind
      <4>3. Before(s, y, s[i])
        BY <2>4, <4>2 DEF es
      <4>4. PICK j, k \in DOMAIN s : j < k /\ s[j] = y /\ s[k] = s[i]
        BY <4>3 DEF Before
      <4>5. k = i
        BY <2>6, <2>8, <4>4
      <4> QED
        BY <2>6, <4>2, <4>4, <4>5
    <3> QED
      BY <3>2, <3>3
  <2> QED
    BY <2>7, <2>8 DEF d, s
<1> QED
  BY <1>1, <1>2, PTL
=============================================================================
