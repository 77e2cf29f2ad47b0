------------------------------ MODULE AppHost ------------------------------
(***************************************************************************)
(* Signed WASM apps (alternet-core/src/apps.rs and the app command of the  *)
(* CLI).  A developer signs a manifest over the hash of a module; manifest *)
(* and module are two files that travel and may be changed or mixed; a     *)
(* user runs them with the capabilities he grants.                         *)
(***************************************************************************)
EXTENDS Naturals, FiniteSets

CONSTANTS
  Developers,  \* key pairs
  Wasms,       \* modules: what a module imports and calls, and its length
  MaxFuel,     \* bound: the fuel of a run
  MaxSigned    \* bound: manifests signed

(* A module calls nothing but what it imports.                             *)
ASSUME AppHostAssumption ==
  /\ \A w \in Wasms : w.calls \subseteq w.imports /\ w.steps \in Nat
  /\ MaxFuel \in Nat /\ MaxSigned \in Nat

VARIABLES
  manifest,  \* the manifest file: at most one
  wasm,      \* the module file: at most one
  signed,    \* history: the contents each developer signed
  ran        \* history: the last run that ended with a result

appVars == <<manifest, wasm, signed, ran>>

Capabilities == {"clock", "content-read", "storage-write", "network"}

(* The host function that goes with each capability.                       *)
Gated == [x \in Capabilities |->
  CASE x = "clock" -> "now" [] x = "content-read" -> "content_read"
    [] x = "storage-write" -> "storage_write" [] x = "network" -> "net_request"]
HostFunctions == {Gated[x] : x \in Capabilities} \cup {"log"}

(* What is signed: the author, the hash of the module, the capabilities.   *)
Contents(d, w, caps) == [author |-> d, wasm |-> w, capabilities |-> caps]

AppInit == manifest = {} /\ wasm = {} /\ signed = {} /\ ran = {}

(* app sign: the manifest is written over the one that was there.          *)
Sign(d, w, caps) ==
  LET c == Contents(d, w, caps) IN
  /\ Cardinality(signed) < MaxSigned
  /\ manifest' = {[contents |-> c, by |-> d, over |-> c]}
  /\ signed' = signed \cup {[by |-> d, over |-> c]}
  /\ wasm' = {w}
  /\ UNCHANGED ran

(* Elsewhere, one of the files is replaced or altered.                     *)
Replaced(w) ==
  /\ wasm' = {w}
  /\ UNCHANGED <<manifest, signed, ran>>

Altered(d, caps) ==
  /\ manifest' = {[m EXCEPT !.contents =
                     Contents(d, m.contents.wasm, caps)] : m \in manifest}
  /\ UNCHANGED <<wasm, signed, ran>>

(* verify_app: the author's signature, and the hash of the module.         *)
VerifyApp(m, w) ==
  /\ m.by = m.contents.author /\ m.over = m.contents
  /\ m.contents.wasm = w

(* Faulty: what the manifest asks for is granted with it.                  *)
LinkedAsAsked(m, granted) ==
  {"log"} \cup {Gated[x] : x \in granted \cup m.contents.capabilities}

(* The linker gets `log` and the functions of what the user granted; what  *)
(* the manifest asks for is not looked at.                                 *)
Linked(m, granted) == {"log"} \cup {Gated[x] : x \in granted}

(* A function that is linked but not implemented traps when it is called.  *)
Implemented == {"log", "now"}

(* run_app: an error at the first of these that does not hold.             *)
RunApp(granted, fuel) ==
  /\ \E m \in manifest, w \in wasm :
       /\ VerifyApp(m, w)
       /\ w.imports \subseteq Linked(m, granted)
       /\ w.calls \subseteq Implemented
       /\ w.steps <= fuel
       /\ ran' = {[over |-> m.contents, module |-> w, granted |-> granted,
                   fuel |-> fuel]}
  /\ UNCHANGED <<manifest, wasm, signed>>

Asked == {{}, {"clock"}, {"clock", "network"}}

AppNext ==
  \/ \E d \in Developers, caps \in Asked :
       (\E w \in Wasms : Sign(d, w, caps)) \/ Altered(d, caps)
  \/ \E w \in Wasms : Replaced(w)
  \/ \E granted \in Asked, fuel \in 0..MaxFuel : RunApp(granted, fuel)

AppSpec == AppInit /\ [][AppNext]_appVars

-----------------------------------------------------------------------------
(* Whatever happened to the two files, a run that ends with a result is of *)
(* a module that the author named in the manifest signed himself, within   *)
(* the fuel of that run, and it used nothing but `log` and what the user   *)
(* granted to that run: what the manifest asks for grants nothing.         *)
RunsWithinGrant ==
  \A r \in ran :
    /\ [by |-> r.over.author, over |-> r.over] \in signed
    /\ r.over.wasm = r.module
    /\ r.module.steps <= r.fuel
    /\ r.module.calls \ {"log"} \subseteq {Gated[x] : x \in r.granted}
=============================================================================
