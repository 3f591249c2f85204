------------------------------ MODULE Settings ------------------------------
(***************************************************************************)
(* The five switches of the settings menu and the configuration a review   *)
(* is formatted with (src/settings.rs, src/app_ui/menu.rs).  The record    *)
(* lies in the flash memory of the device: it outlives a restart.          *)
(***************************************************************************)
EXTENDS Integers, Sequences

CONSTANT SETTINGS_SIZE  \* the bytes of the record, the reserved ones included

ASSUME SettingsSizeAssumption == SETTINGS_SIZE \in Nat /\ SETTINGS_SIZE >= 5

VARIABLE storage

\* SettingId::as_index: where a setting's byte lies in the record.
AsIndex ==
  [BlindSigning |-> 0, TransactionSource |-> 1, SequenceAndNonce |-> 2,
   Precondition |-> 3, NestedAuthorization |-> 4]

DEFAULT_SETTINGS ==
  [i \in 0..(SETTINGS_SIZE - 1) |-> IF i = 4 THEN 1 ELSE 0]

\* A faulty order of the menu's rows.
SwappedRows ==
  <<"BlindSigning", "TransactionSource", "Precondition", "SequenceAndNonce",
    "NestedAuthorization">>

\* The rows of the menu: the label of each, from the top.
EXPOSED_SETTINGS ==
  <<"BlindSigning", "TransactionSource", "SequenceAndNonce", "Precondition",
    "NestedAuthorization">>

GetSetting(setting) == storage[AsIndex[setting]] # 0

ToFormatConfig ==
  [show_sequence_and_nonce          |-> GetSetting("SequenceAndNonce"),
   show_preconditions               |-> GetSetting("Precondition"),
   show_nested_authorization        |-> GetSetting("NestedAuthorization"),
   show_tx_source_if_matches_signer |-> GetSetting("TransactionSource")]

-----------------------------------------------------------------------------
SettingsInit == storage = DEFAULT_SETTINGS

\* A faulty switch that counts its touches.
CountingToggleRow(row) == storage' = [storage EXCEPT ![row - 1] = @ + 1]

\* The menu of the device kit flips the byte that has the number of the touched
\* row, and writes the record in one step that a power loss does not split.
ToggleRow(row) == storage' = [storage EXCEPT ![row - 1] = 1 - @]

SettingsTypeOK == storage \in [0..(SETTINGS_SIZE - 1) -> {0, 1}]

\* What the user sees in the menu: the switch beside a label.
SwitchIsOn(label) ==
  \E row \in DOMAIN EXPOSED_SETTINGS :
    EXPOSED_SETTINGS[row] = label /\ storage[row - 1] = 1
=============================================================================
