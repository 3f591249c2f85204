---------------------------- MODULE ReviewVerdict ----------------------------
(***************************************************************************)
(* A review as the command loop sees it: a request is received, and one    *)
(* decision on the whole of it either refuses it with a status word or     *)
(* puts it on the screen until the user answers.  AppSession takes this    *)
(* for granted; TxReview, which parses and formats operation by operation, *)
(* implements it.  The four sets are AppSession's parameters.              *)
(***************************************************************************)
CONSTANTS
  Transactions, Authorizations, NoRequest,
  TxParses, TxFormats, TxSoroban, AuthParses

VARIABLES
  asked,    \* the request received and not yet answered, or NoRequest
  visible,  \* whether it is on the screen
  blind,    \* whether blind signing is enabled
  outcome   \* how the last request ended

Verdict(p) ==
  CASE p \in Authorizations /\ ~blind -> "BlindSigningModeNotEnabled"
    [] p \in (Authorizations \ AuthParses) /\ blind -> "DataParsingFail"
    [] p \in Transactions \ TxParses -> "DataParsingFail"
    [] p \in (Transactions \cap TxParses) \ TxFormats -> "DataFormattingFail"
    [] p \in TxParses \cap TxFormats \cap TxSoroban /\ ~blind -> "BlindSigningModeNotEnabled"
    [] OTHER -> "Ok"

Init == asked = NoRequest /\ visible = FALSE /\ blind = FALSE /\ outcome = "none"

Receive ==
  /\ asked = NoRequest /\ asked' \in Transactions
  /\ UNCHANGED <<visible, blind, outcome>>

\* What may be decided: the request received or, if none is, one that is received
\* and decided at once, an authorization or a transaction that cannot be parsed.
Decidable ==
  IF visible THEN {}
  ELSE IF asked = NoRequest THEN Authorizations \union (Transactions \ TxParses)
  ELSE {asked}

Present(p) ==
  /\ Verdict(p) = "Ok"
  /\ asked' = p /\ visible' = TRUE
  /\ UNCHANGED <<blind, outcome>>

Decline(p) ==
  /\ Verdict(p) # "Ok"
  /\ asked' = NoRequest /\ outcome' = Verdict(p)
  /\ UNCHANGED <<visible, blind>>

Answer ==
  /\ visible /\ visible' = FALSE
  /\ asked' = NoRequest /\ outcome' \in {"approved", "denied"}
  /\ UNCHANGED blind

\* The switch cannot change while a request is waiting for its answer.
Configure == asked = NoRequest /\ blind' = ~blind /\ UNCHANGED <<asked, visible, outcome>>

Restart ==
  /\ asked' = NoRequest /\ visible' = FALSE /\ outcome' = "none"
  /\ UNCHANGED blind

Next ==
  \/ Receive \/ Answer \/ Configure \/ Restart
  \/ \E p \in Decidable : Present(p) \/ Decline(p)

Spec == Init /\ [][Next]_<<asked, visible, blind, outcome>>
=============================================================================
