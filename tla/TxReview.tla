------------------------------ MODULE TxReview ------------------------------
(***************************************************************************)
(* The review of a transaction or of a Soroban authorization, from the     *)
(* request to the answer of the user (src/app_ui/sign_tx.rs,               *)
(* sign_soroban_auth.rs).  What the formatter makes of each part of a      *)
(* request is a parameter: ReviewText says it for the real one.            *)
(*                                                                         *)
(* A transaction is formatted operation by operation, with a configuration *)
(* read from the settings at its start.  The settings change only at the   *)
(* home screen, and a restart loses everything but them.                   *)
(***************************************************************************)
EXTENDS Settings

CONSTANTS
  Candidates,  \* the transactions and authorizations a client may send
  Signers,     \* the accounts of the derivation paths it may name
  TouchedRows, \* the rows of the menu a user may touch
  \* The formatter: which operations it formats without an error, the entries
  \* of the header, of an authorization and of an operation, and the words of
  \* the title for an operation, none if there are none.
  Formats(_), HeaderOf(_, _, _), AuthorizationOf(_, _), OperationOf(_, _, _),
  IntentOf(_, _)

ASSUME RequestAssumption ==
  /\ \A r \in Candidates :
       /\ r.kind \in {"tx", "unparsable tx", "auth", "unparsable auth"}
       /\ r.kind = "tx" => r.ops \in Seq({r.ops[i] : i \in DOMAIN r.ops})
  /\ TouchedRows \subseteq DOMAIN EXPOSED_SETTINGS

VARIABLES
  phase,    \* "home", "formatting" or "reviewing"
  request,  \* what is being reviewed
  signer,   \* the account that would sign
  config,   \* the configuration read when the formatting began, if any
  at,       \* the operations formatted so far
  entries,  \* data_entries
  intent,   \* the words after "Review transaction to", if any
  blind,    \* is_soroban_tx, and the mark of the review
  outcome   \* how the last request ended

review == <<request, signer, config, at, entries, intent, blind>>
vars == <<storage, phase, review, outcome>>

Nothing == [kind |-> "nothing"]
NoConfig == << >>
NoWords == << >>

-----------------------------------------------------------------------------
(* The machine. *)

\* A faulty mark that is the last operation's alone.
MarkOfLast(mark, op) == op.type = "InvokeHostFunction"

\* is_soroban_tx after an operation.
MarkAfter(mark, op) == mark \/ op.type = "InvokeHostFunction"

Init ==
  /\ SettingsInit
  /\ phase = "home" /\ request = Nothing /\ outcome = "none"
  /\ signer = << >> /\ config = NoConfig
  /\ at = 0 /\ entries = << >> /\ intent = NoWords /\ blind = FALSE

\* A faulty menu that can be reached while a review is made.
TouchAnyTime(row) == ToggleRow(row) /\ UNCHANGED <<phase, review, outcome>>

Touch(row) == phase = "home" /\ ToggleRow(row) /\ UNCHANGED <<phase, review, outcome>>

\* Back at the home screen; nothing of the request is kept.
Forget ==
  /\ phase' = "home" /\ request' = Nothing /\ signer' = << >> /\ at' = 0
  /\ config' = NoConfig /\ entries' = << >> /\ intent' = NoWords /\ blind' = FALSE
  /\ UNCHANGED storage

Refuse(error) == Forget /\ outcome' = error

\* ui_sign_tx up to its loop over the operations.  A header that is parsed is
\* formatted without an error.
StartTx(tx, key) ==
  /\ phase = "home" /\ tx.kind \in {"tx", "unparsable tx"}
  /\ IF tx.kind = "unparsable tx" THEN Refuse("DataParsingFail")
     ELSE /\ phase' = "formatting" /\ request' = tx /\ signer' = key
          /\ config' = ToFormatConfig
          /\ entries' = HeaderOf(tx, ToFormatConfig, key)
          /\ at' = 0 /\ intent' = NoWords /\ blind' = FALSE
          /\ UNCHANGED <<storage, outcome>>

\* One turn of the loop.  The bytes are parsed here for the first time.
NextOperation ==
  /\ phase = "formatting" /\ at < Len(request.ops)
  /\ LET op == request.ops[at + 1] IN
       \/ op.type = "unparsable" /\ Refuse("DataParsingFail")
       \/ op.type # "unparsable" /\ ~Formats(op) /\ Refuse("DataFormattingFail")
       \/ /\ op.type # "unparsable" /\ Formats(op)
          /\ entries' = entries \o OperationOf(request, at + 1, config)
          /\ intent' = IF Len(request.ops) = 1 THEN IntentOf(request, at + 1) ELSE intent
          /\ blind' = MarkAfter(blind, op)
          /\ at' = at + 1
          /\ UNCHANGED <<storage, phase, request, signer, config, outcome>>

\* ui_sign_tx after its loop.
Show ==
  /\ phase = "formatting" /\ at = Len(request.ops)
  /\ IF blind /\ ~GetSetting("BlindSigning")
     THEN Refuse("BlindSigningModeNotEnabled")
     ELSE phase' = "reviewing" /\ UNCHANGED <<storage, review, outcome>>

\* ui_sign_soroban_auth: the switch is looked at before the bytes.
StartAuth(auth, key) ==
  /\ phase = "home" /\ auth.kind \in {"auth", "unparsable auth"}
  /\ IF ~GetSetting("BlindSigning") THEN Refuse("BlindSigningModeNotEnabled")
     ELSE IF auth.kind = "unparsable auth" THEN Refuse("DataParsingFail")
     ELSE /\ phase' = "reviewing" /\ request' = auth /\ signer' = key
          /\ config' = ToFormatConfig
          /\ entries' = AuthorizationOf(auth, ToFormatConfig)
          /\ at' = 0 /\ intent' = NoWords /\ blind' = TRUE
          /\ UNCHANGED <<storage, outcome>>

Answer(approved) ==
  /\ phase = "reviewing"
  /\ Forget /\ outcome' = IF approved THEN "approved" ELSE "denied"

\* The device is switched off and on again.
Restart == Forget /\ outcome' = "none"

Next ==
  \/ \E row \in TouchedRows : Touch(row)
  \/ \E r \in Candidates, key \in Signers : StartTx(r, key) \/ StartAuth(r, key)
  \/ NextOperation
  \/ Show
  \/ \E approved \in BOOLEAN : Answer(approved)
  \/ Restart

Spec == Init /\ [][Next]_vars

-----------------------------------------------------------------------------
(* The requests by how the loop over their operations ends. *)

Contractual(r) ==
  \/ r.kind = "auth"
  \/ r.kind = "tx" /\ \E i \in DOMAIN r.ops : r.ops[i].type = "InvokeHostFunction"

Transactions == {r \in Candidates : r.kind = "tx"}
TxRequests == Transactions \union {r \in Candidates : r.kind = "unparsable tx"}
Unpresentable(op) == op.type = "unparsable" \/ ~Formats(op)

\* The loop ends at the first operation it cannot present: one that cannot be
\* formatted hides those after it that cannot be parsed.
ParsesSoFar(r) ==
  \A i \in DOMAIN r.ops :
    r.ops[i].type = "unparsable" =>
      \E j \in 1..(i - 1) : r.ops[j].type # "unparsable" /\ ~Formats(r.ops[j])
        /\ \A k \in 1..(j - 1) : r.ops[k].type # "unparsable"

Parsed == {r \in Transactions : ParsesSoFar(r)}
Formatted == {r \in Transactions : \A i \in DOMAIN r.ops : ~Unpresentable(r.ops[i])}
Soroban == {r \in Transactions : Contractual(r)}
ParsedAuthorizations == {r \in Candidates : r.kind = "auth"}

\* The entries of a transaction up to each of its operations, 0 for its header
\* alone, and the whole of what a review shows of a request.
EntriesUpTo(tx, conf, key) ==
  LET upTo[i \in 0..Len(tx.ops)] ==
        IF i = 0 THEN HeaderOf(tx, conf, key)
        ELSE upTo[i - 1] \o OperationOf(tx, i, conf)
  IN  upTo

AllEntries(r, conf, key) ==
  IF r.kind = "auth" THEN AuthorizationOf(r, conf)
  ELSE EntriesUpTo(r, conf, key)[Len(r.ops)]

WholeIntent(r) ==
  IF r.kind = "tx" /\ Len(r.ops) = 1 THEN IntentOf(r, 1) ELSE NoWords

Verdict ==
  INSTANCE ReviewVerdict WITH
    Transactions <- TxRequests, Authorizations <- Candidates \ TxRequests,
    NoRequest <- Nothing, TxParses <- Parsed, TxFormats <- Formatted,
    TxSoroban <- Soroban, AuthParses <- ParsedAuthorizations,
    asked <- request, visible <- phase = "reviewing",
    blind <- SwitchIsOn("BlindSigning")

-----------------------------------------------------------------------------
(* Properties. *)

Configs ==
  [show_sequence_and_nonce : BOOLEAN, show_preconditions : BOOLEAN,
   show_nested_authorization : BOOLEAN, show_tx_source_if_matches_signer : BOOLEAN]

ReviewTypeOK ==
  /\ SettingsTypeOK
  /\ phase \in {"home", "formatting", "reviewing"}
  /\ request \in Candidates \union {Nothing}
  /\ signer \in Signers \union {<< >>}
  /\ config \in Configs \union {NoConfig}
  /\ at \in Nat /\ blind \in BOOLEAN
  /\ outcome \in {"none", "approved", "denied", "DataParsingFail", "DataFormattingFail",
                  "BlindSigningModeNotEnabled"}

\* A review of anything a contract does carries the warning mark and is shown
\* only while the menu's blind-signing switch is on; no other review is marked.
BlindReviewMarked ==
  phase = "reviewing" =>
    /\ blind <=> Contractual(request)
    /\ blind => SwitchIsOn("BlindSigning")

\* Whatever was touched, refused or restarted before, a review is the whole of
\* its request and of nothing else, every operation in its place, under the
\* settings as they are while it is on the screen.
ReviewIsWhole ==
  phase = "reviewing" =>
    /\ entries = AllEntries(request, ToFormatConfig, signer)
    /\ intent = WholeIntent(request)

\* The loop over the operations comes to the decision AppSession takes for one
\* step: whichever operation fails first, wherever a contract call stands among
\* them, and with the switch as it was when the request came.
DecidesAsOne == Verdict!Spec
=============================================================================
