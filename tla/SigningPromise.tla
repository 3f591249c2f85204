--------------------------- MODULE SigningPromise ---------------------------
(***************************************************************************)
(* What the application promises its owner, whatever the host sends: a     *)
(* signature is released for a request that was put on the screen and that *)
(* the user consented to, once per consent, and a request that cannot be   *)
(* shown in clear is put on the screen only while blind signing is enabled.*)
(***************************************************************************)
CONSTANTS
  Request,       \* everything a key can be asked to sign
  BlindRequest,  \* the requests that are not displayed in clear
  NoRequest

VARIABLES
  prompt,    \* the request on the screen, or NoRequest
  consent,   \* whether the user approved it
  released,  \* the request whose signature the last answer carries
  blind      \* whether the user enabled blind signing

promiseVars == <<prompt, consent, released, blind>>

Init ==
  /\ prompt = NoRequest
  /\ consent = FALSE
  /\ released = NoRequest
  /\ blind \in BOOLEAN

\* A request is put on the screen; the previous answer is out of date.
Ask ==
  /\ prompt = NoRequest
  /\ prompt' \in Request
  /\ prompt' \in BlindRequest => blind
  /\ consent' = FALSE
  /\ released' = NoRequest
  /\ UNCHANGED blind

Agree ==
  /\ prompt # NoRequest
  /\ consent' = TRUE
  /\ UNCHANGED <<prompt, released, blind>>

\* The signature of the request agreed to is released; the consent is spent.
Release ==
  /\ consent
  /\ released' = prompt
  /\ prompt' = NoRequest
  /\ consent' = FALSE
  /\ UNCHANGED blind

\* A refusal, a failure, a restart, or an answer that carries no signature.
Withdraw ==
  /\ prompt' = NoRequest
  /\ consent' = FALSE
  /\ released' = NoRequest
  /\ UNCHANGED blind

\* The setting changes only while nothing is on the screen.
Configure ==
  /\ prompt = NoRequest
  /\ blind' = ~blind
  /\ UNCHANGED <<prompt, consent, released>>

Next == Ask \/ Agree \/ Release \/ Withdraw \/ Configure

Spec == Init /\ [][Next]_promiseVars
=============================================================================
