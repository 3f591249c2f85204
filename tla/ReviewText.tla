----------------------------- MODULE ReviewText -----------------------------
(***************************************************************************)
(* The entries and the title of the review of a transaction or of a        *)
(* Soroban authorization, around those of its operations (the first half   *)
(* of stellarlib/src/formatter.rs, and what ui_sign_tx adds).              *)
(***************************************************************************)
EXTENDS OperationText

-----------------------------------------------------------------------------
(* The header of a review. *)

\* add_network_info_if_needed.
Network(network) ==
  EntryIf(network # "public", "Network",
          IF network = "testnet" THEN <<"Testnet">> ELSE <<"Unknown">>)

XlmFee(fee) == <<FormatNativeAmount(fee), XLM>>

\* The title of each kind of memo; no memo, no entry.
Memo(memo) == [i \in DOMAIN memo |-> Entry("Memo " \o memo[i][1], memo[i][2])]

\* The preconditions, each only if it is not zero; an absent one is zero, but
\* the least sequence number is an option.
PreconditionEntries(cond) ==
  EntryIf(cond.min_time # 0, "Valid After", FormatUnixTimestamp(cond.min_time))
  \o EntryIf(cond.max_time # 0, "Valid Before", FormatUnixTimestamp(cond.max_time))
  \o EntryIf(cond.min_ledger # 0, "Min Ledger", Digits[cond.min_ledger])
  \o EntryIf(cond.max_ledger # 0, "Max Ledger", Digits[cond.max_ledger])
  \o FlattenSeq([i \in DOMAIN cond.min_seq_num |->
       EntryIf(cond.min_seq_num[i] # 0, "Min Seq Num", ToText(cond.min_seq_num[i]))])
  \o EntryIf(cond.min_seq_age # 0, "Min Seq Age", Digits[cond.min_seq_age])
  \o EntryIf(cond.min_seq_ledger_gap # 0, "Min Seq Ledger Gap",
             Digits[cond.min_seq_ledger_gap])
  \o [i \in DOMAIN cond.extra_signers |->
        Entry("Extra Signer " \o ToString(i), StrKey(cond.extra_signers[i]))]

\* A faulty choice that compares the keys and not the addresses: it hides a
\* muxed address of the signer's account.
HidesSourceByKey(tx, conf, key) ==
  /\ tx.envelope # "fee_bump"
  /\ ~conf.show_tx_source_if_matches_signer
  /\ Head(tx.source[2]) = Head(key[2])

\* The source is left out where it is the signer, unless the setting or the
\* wrapping of a fee bump asks for it.
HidesSource(tx, conf, key) ==
  /\ tx.envelope # "fee_bump"
  /\ ~conf.show_tx_source_if_matches_signer
  /\ StrKey(tx.source) = StrKey(key)

\* format_transaction.
Transaction(tx, conf, key) ==
  Memo(tx.memo)
  \o <<Entry("Max Fee", XlmFee(tx.fee))>>
  \o EntryIf(conf.show_sequence_and_nonce, "Sequence Num", ToText(tx.seq_num))
  \o (IF conf.show_preconditions THEN PreconditionEntries(tx.cond) ELSE << >>)
  \o EntryIf(~HidesSource(tx, conf, key), "Tx Source", StrKey(tx.source))

\* format_transaction_signature_payload.
TransactionHeader(tx, conf, key) ==
  Network(tx.network)
  \o (IF tx.envelope # "fee_bump" THEN << >>
      ELSE <<Entry("Fee Source", StrKey(tx.fee_source)),
             Entry("Max Fee", XlmFee(tx.outer_fee)),
             Entry("Inner Tx", <<"The following details are for the inner transaction">>)>>)
  \o Transaction(tx, conf, key)

\* format_hash_id_preimage_soroban_authorization.
AuthorizationEntries(auth, conf) ==
  Network(auth.network)
  \o EntryIf(conf.show_sequence_and_nonce, "Nonce", ToText(auth.nonce))
  \o <<Entry("Sig Exp Ledger", Digits[auth.expiration])>>
  \o SorobanAuthorizedInvocation(auth.invocation, conf)

\* The entries of the i-th operation, numbered if it is not the only one.
OperationEntries(tx, i, conf) ==
  EntryIf(Len(tx.ops) > 1, "Operation", <<i, Len(tx.ops)>>)
  \o FormatOperation(tx.ops[i], conf, StrKey(tx.source))

Intent(tx, i) == OperationIntent(tx.ops[i], StrKey(tx.source))

Title(r, words) ==
  IF r.kind = "auth" THEN <<"Review Soroban Authorization">>
  ELSE IF r.envelope = "fee_bump" THEN <<"Review fee bump transaction">>
  ELSE IF words = NoIntent THEN <<"Review transaction">>
  ELSE <<"Review transaction to">> \o words
=============================================================================
