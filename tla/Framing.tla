------------------------------ MODULE Framing ------------------------------
(***************************************************************************)
(* The three ways a message is dressed for the wire: pad_message of        *)
(* alternet-core/src/traffic.rs and the obfs4 and snowflake transports of  *)
(* pluggable.rs.  Each writes the length of the message into a header of   *)
(* fixed size and fills up with bytes that mean nothing; the receiver      *)
(* finds the message by that length.  A message is its length; the receiver*)
(* gets a prefix of it, or bytes of the filler after it.                   *)
(***************************************************************************)
EXTENDS Naturals

CONSTANT Lengths  \* lengths of messages

ASSUME FramingAssumption == Lengths \subseteq Nat

VARIABLES
  sent,  \* the length of the message that was sent, 0 before
  wire,  \* the packet: its codec, its length field and its size in bytes
  got    \* what the receiver makes of it

framingVars == <<sent, wire, got>>

BLOCK_SIZE == 512
Codecs == {"pad", "obfs4", "snowflake"}

(* Length field, and nonce or magic bytes.                                 *)
Header == [pad |-> 4, obfs4 |-> 18, snowflake |-> 6]

(* 4 bytes of length (no message has 2^32 bytes), or 2.                    *)
Field(codec, n) == IF codec = "pad" THEN n ELSE n % 65536

(* What is added after the message: PKCS#7-like, or of a random length;    *)
(* snowflake says its length in two bytes more.                            *)
Fill(codec, n) ==
  CASE codec = "pad" -> {BLOCK_SIZE - (n % BLOCK_SIZE)}
    [] codec = "obfs4" -> 0..31
    [] codec = "snowflake" -> 2..65

NoPacket == [codec |-> "pad", field |-> 0, size |-> 0]
Nothing == [is |-> "nothing", length |-> 0]
Error == [is |-> "error", length |-> 0]
Message(n) == [is |-> "message", length |-> n]

FramingInit == sent = 0 /\ wire = NoPacket /\ got = Nothing

(* pad_message, obfuscate.                                                 *)
Obfuscate(codec, n) ==
  /\ wire = NoPacket
  /\ sent' = n
  /\ \E fill \in Fill(codec, n) :
       wire' = [codec |-> codec, field |-> Field(codec, n),
                size |-> Header[codec] + n + fill]
  /\ UNCHANGED got

(* The packet arrives with its first bytes only.                           *)
Cut(size) ==
  /\ wire # NoPacket
  /\ got = Nothing
  /\ size < wire.size
  /\ wire' = [wire EXCEPT !.size = size]
  /\ UNCHANGED <<sent, got>>

(* Faulty: what the length field says is taken on trust.                   *)
DecodedTrusting(w) ==
  IF w.size < Header[w.codec] THEN Error ELSE Message(w.field)

(* unpad_message, deobfuscate.                                             *)
Decoded(w) ==
  IF w.size < Header[w.codec] \/ w.size < Header[w.codec] + w.field
    THEN Error ELSE Message(w.field)

Deobfuscate ==
  /\ wire # NoPacket
  /\ got = Nothing
  /\ got' = Decoded(wire)
  /\ UNCHANGED <<sent, wire>>

(* Where a packet may be cut: in the header, the message or the filler.    *)
Cuts == {0, 3, 5, 17} \cup Lengths \cup {n + 20 : n \in Lengths}

FramingNext ==
  \/ \E codec \in Codecs, n \in Lengths : Obfuscate(codec, n)
  \/ \E size \in Cuts : Cut(size)
  \/ Deobfuscate

FramingSpec == FramingInit /\ [][FramingNext]_framingVars

-----------------------------------------------------------------------------
(* A message that arrives is the one that was sent, whole, and its bytes   *)
(* were all in the packet.  For the pluggable transports that holds below  *)
(* 65536 bytes: of a longer message the first bytes arrive, as many as the *)
(* low 16 bits of its length say, and nothing reports the loss.            *)
DeliveredWhole ==
  got.is = "message" =>
    /\ wire.size >= Header[wire.codec] + got.length
    /\ \/ got.length = sent
       \/ /\ wire.codec # "pad" /\ sent >= 65536
          /\ got.length = sent % 65536
=============================================================================
