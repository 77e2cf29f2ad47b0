------------------------------ MODULE MCParts ------------------------------
(* Seven parts without common state on small sets, for TLC: in a behaviour *)
(* one of them moves.                                                      *)
EXTENDS Naming, ManifestLog, Admission, Framing, OnionRoute, AppHost,
  SharedDoc, TLC

VARIABLE part

MCWasms ==
  {[imports |-> {"log"}, calls |-> {"log"}, steps |-> 1],
   [imports |-> {"log", "now"}, calls |-> {"now"}, steps |-> 2],
   [imports |-> {"now", "net_request"}, calls |-> {"now"}, steps |-> 1],
   [imports |-> {"net_request"}, calls |-> {"net_request"}, steps |-> 1]}

partVars == <<namingVars, log, admissionVars, framingVars, onionVars, appVars,
              docVars>>

MCInit ==
  /\ part \in {"naming", "manifests", "admission", "framing", "onion", "apps",
             "documents"}
  /\ NamingInit /\ ManifestLogInit /\ AdmissionInit
  /\ FramingInit /\ OnionInit /\ AppInit /\ DocInit
  /\ part # "onion" => target = CHOOSE p \in Nodes : TRUE
  /\ part # "documents" =>
       roomKey = [r \in Replicas |-> CHOOSE k \in RoomKeys : TRUE]

MCNext ==
  /\ UNCHANGED part
  /\ \/ /\ part = "naming" /\ NamingNext
        /\ UNCHANGED <<log, admissionVars, framingVars, onionVars,
                       appVars, docVars>>
     \/ /\ part = "manifests" /\ ManifestLogNext
        /\ UNCHANGED <<namingVars, admissionVars, framingVars, onionVars,
                       appVars, docVars>>
     \/ /\ part = "admission" /\ AdmissionNext
        /\ UNCHANGED <<namingVars, log, framingVars, onionVars,
                       appVars, docVars>>
     \/ /\ part = "framing" /\ FramingNext
        /\ UNCHANGED <<namingVars, log, admissionVars, onionVars,
                       appVars, docVars>>
     \/ /\ part = "onion" /\ OnionNext
        /\ UNCHANGED <<namingVars, log, admissionVars, framingVars,
                       appVars, docVars>>
     \/ /\ part = "apps" /\ AppNext
        /\ UNCHANGED <<namingVars, log, admissionVars, framingVars,
                       onionVars, docVars>>
     \/ /\ part = "documents" /\ DocNext
        /\ UNCHANGED <<namingVars, log, admissionVars, framingVars,
                       onionVars, appVars>>

MCSpec == MCInit /\ [][MCNext]_<<partVars, part>>

(* Peers, keys of names and replicas: no definition tells them apart.      *)
Interchangeable ==
  Permutations(Peers) \cup Permutations(NameKeys) \cup Permutations(Replicas)
=============================================================================
