----------------------------- MODULE Admission -----------------------------
(***************************************************************************)
(* Admission of peers by proof of work: SybilGuard and PoWToken of         *)
(* alternet-core/src/pow.rs over the counters of PowBanList (traffic.rs).  *)
(***************************************************************************)
EXTENDS Integers, Sequences

CONSTANTS
  Applicants,    \* peers that ask to be admitted
  Difficulty,    \* leading zero bits a hash must have
  MaxAge,        \* how many seconds a token is good for
  BanThreshold,  \* failures that make a ban
  HashBytes,     \* bytes that hashes are made of, two each
  Latest,        \* bound: the clock
  MaxAttempts    \* bound: attempts of one peer that are judged

ASSUME AdmissionAssumption ==
  /\ Difficulty \in 0..16
  /\ MaxAge \in Nat
  /\ BanThreshold \in Nat \ {0}
  /\ HashBytes \subseteq 0..255
  /\ Latest \in Nat
  /\ MaxAttempts \in Nat

VARIABLES
  now,       \* the clock, in seconds
  failures,  \* the failures counted for each peer
  judged     \* history: each attempt of a peer while not banned: was it good?

admissionVars == <<now, failures, judged>>

Hashes == HashBytes \X HashBytes

(* A token names a peer and the time it was made; its hash follows from    *)
(* them and the nonce.                                                     *)
Tokens == [resource : Applicants, timestamp : 0..Latest, hash : Hashes]

AdmissionInit ==
  /\ now = 0
  /\ failures = [p \in Applicants |-> 0]
  /\ judged = [p \in Applicants |-> <<>>]

(* check_difficulty, byte by byte: whole bytes must be zero, of the last   *)
(* one the high bits.  (byte & mask) = 0 says the byte is below 2^(8-rest).*)
CheckDifficulty(hash, difficulty) ==
  \A i \in DOMAIN hash :
    LET rest == difficulty - 8 * (i - 1) IN
    CASE rest <= 0 -> TRUE
      [] rest >= 8 -> hash[i] = 0
      [] OTHER -> hash[i] < 2^(8 - rest)

Verify(token, p) ==
  /\ token.resource = p
  /\ token.timestamp <= now
  /\ now - token.timestamp <= MaxAge
  /\ CheckDifficulty(token.hash, Difficulty)

IsBanned(p) == failures[p] >= BanThreshold

(* What a good token is: its number, read as one, is small enough.         *)
Good(token, p) ==
  /\ token.resource = p
  /\ token.timestamp \in (now - MaxAge)..now
  /\ token.hash[1] * 256 + token.hash[2] < 2^(16 - Difficulty)

(* Faulty: a failure is counted for ever.                                  *)
AdmitNoReset(p, token) ==
  /\ ~IsBanned(p)
  /\ Len(judged[p]) < MaxAttempts
  /\ failures' = [failures EXCEPT ![p] = IF Verify(token, p) THEN @ ELSE @ + 1]
  /\ judged' = [judged EXCEPT ![p] = Append(@, Good(token, p))]
  /\ UNCHANGED now

(* A banned peer is turned away at once and nothing is counted; else a     *)
(* good token clears the counter and any other counts.                     *)
Admit(p, token) ==
  /\ ~IsBanned(p)
  /\ Len(judged[p]) < MaxAttempts
  /\ failures' = [failures EXCEPT ![p] = IF Verify(token, p) THEN 0 ELSE @ + 1]
  /\ judged' = [judged EXCEPT ![p] = Append(@, Good(token, p))]
  /\ UNCHANGED now

Tick ==
  /\ now < Latest
  /\ now' = now + 1
  /\ UNCHANGED <<failures, judged>>

AdmissionNext ==
  \/ \E p \in Applicants, token \in Tokens : Admit(p, token)
  \/ Tick

AdmissionSpec == AdmissionInit /\ [][AdmissionNext]_admissionVars

-----------------------------------------------------------------------------
(* A peer is banned exactly when its last BanThreshold attempts all had a  *)
(* token that was not good, and never comes back.                          *)
BanNeedsRow ==
  \A p \in Applicants :
    IsBanned(p) <=>
      /\ Len(judged[p]) >= BanThreshold
      /\ \A i \in (Len(judged[p]) - BanThreshold + 1)..Len(judged[p]) :
           ~judged[p][i]
=============================================================================
