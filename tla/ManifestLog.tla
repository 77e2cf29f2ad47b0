---------------------------- MODULE ManifestLog ----------------------------
(***************************************************************************)
(* ManifestStore of alternet-core/src/publish.rs: the manifests known of   *)
(* each author, a log that only takes verified manifests with a higher     *)
(* sequence number than its last.                                          *)
(***************************************************************************)
EXTENDS Naturals, Sequences

CONSTANTS
  Publishers,  \* authors of manifests
  Roots,       \* root CIDs
  MaxSequence  \* bound: the greatest sequence number that comes

ASSUME ManifestLogAssumption == MaxSequence \in Nat

VARIABLE log  \* history: the accepted manifests of each author

Manifests == [author : Publishers, sequence : 0..MaxSequence, root : Roots,
              verified : BOOLEAN]

ManifestLogInit == log = [a \in Publishers |-> <<>>]

(* The sequence number of the author's last manifest, 0 if there is none.  *)
LastSeq(a) == IF log[a] = <<>> THEN 0 ELSE log[a][Len(log[a])].sequence

(* Faulty: the same number again is taken.                                 *)
IsNewOrSame(m) == m.verified /\ m.sequence >= LastSeq(m.author)

IsNew(m) == m.verified /\ m.sequence > LastSeq(m.author)

Accept(m) ==
  /\ IsNew(m)
  /\ log' = [log EXCEPT ![m.author] = Append(@, m)]

ManifestLogNext == \E m \in Manifests : Accept(m)

ManifestLogSpec == ManifestLogInit /\ [][ManifestLogNext]_log

(* at_sequence: the first manifest with that number.                       *)
AtSequence(a, n) == {i \in DOMAIN log[a] :
  log[a][i].sequence = n /\ \A j \in 1..(i - 1) : log[a][j].sequence # n}

-----------------------------------------------------------------------------
(* Whatever order manifests come in, an author's log holds verified        *)
(* manifests of that author only, in strictly growing sequence: an older   *)
(* one never follows a newer, and at_sequence finds each manifest by its   *)
(* number.                                                                 *)
LogGrows ==
  \A a \in Publishers :
    /\ \A i \in DOMAIN log[a] : log[a][i].verified /\ log[a][i].author = a
    /\ \A i, j \in DOMAIN log[a] :
         i < j => log[a][i].sequence < log[a][j].sequence
    /\ \A i \in DOMAIN log[a] : AtSequence(a, log[a][i].sequence) = {i}
=============================================================================
