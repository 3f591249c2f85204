---------------------------- MODULE OperationText ----------------------------
(***************************************************************************)
(* The entries a review shows for an operation, and the words of its title *)
(* (stellarlib/src/formatter.rs, token_formatter.rs).  An entry is         *)
(* <<title, content>>; a content is the tuple of its parts.                *)
(*                                                                         *)
(* An asset is <<"native", << >>, << >>>>, <<"alphanum4", code, issuer>>   *)
(* or <<"alphanum12", code, issuer>>; an option is a sequence of at most   *)
(* one element; flags are sets of bits.                                    *)
(***************************************************************************)
EXTENDS ScValText

CONSTANTS
  KnownTokens,  \* tokens.rs: [symbol, decimals] of each known contract's key
  I64_MAX,      \* the largest limit of a trust line
  CODE4         \* the bytes of a short asset code (4 in the code)

Entry(title, content) == <<title, content>>
EntryIf(shown, title, content) == IF shown THEN <<Entry(title, content)>> ELSE << >>
OptionEntry(option, title, Text(_)) ==
  [i \in DOMAIN option |-> Entry(title, Text(option[i]))]

-----------------------------------------------------------------------------
(* Assets, amounts, prices, flags. *)

NUL == "NUL"
XLM == <<"X", "L", "M">>

\* A faulty rendering that lets a long code look like a short one.
CodeTextUnpadded(asset) ==
  LET code == asset[2]
      last == SelectLastInSeq(code, LAMBDA ch : ch # NUL)
  IN  [i \in 1..last |-> IF code[i] = NUL THEN "\\0" ELSE code[i]]

\* Display of AssetCode4 and AssetCode12: up to the last byte that is not zero,
\* but a long code never shorter than CODE4 + 1 bytes; a zero is escaped.
CodeText(asset) ==
  LET code == asset[2]
      last == SelectLastInSeq(code, LAMBDA ch : ch # NUL)
      len  == IF asset[1] = "alphanum12" /\ last <= CODE4 THEN CODE4 + 1 ELSE last
  IN  [i \in 1..len |-> IF code[i] = NUL THEN "\\0" ELSE code[i]]

\* format_issuer: the first three characters and the last four.
FormatIssuer(text) == <<text[1], text[2], "..", text[4]>>

\* format_asset_code.
FormatAssetCode(asset) == IF asset[1] = "native" THEN XLM ELSE CodeText(asset)

\* format_asset, and format_trust_line_asset for what is not a pool share.
FormatAsset(asset) ==
  IF asset[1] = "native" THEN <<XLM>>
  ELSE <<CodeText(asset), FormatIssuer(StrKey(asset[3]))>>

\* format_amount_with_asset.
FormatAmountWithAsset(amount, asset) == <<FormatNativeAmount(amount), FormatAsset(asset)>>

\* format_price: a fraction cut off after the last decimal place.  A negative
\* price, or one without a positive denominator, is an error.
ValidPrice(price) == price[2] > 0 /\ price[1] >= 0
FormatPrice(price) ==
  FormatNativeAmount(
    (price[1] * 10 ^ STELLAR_NATIVE_DECIMAL_PLACES) \div price[2])

\* format_flags_generic: the known ones only, if any is set.
FormatFlags(flags, known, zero) ==
  CASE flags = {}              -> <<zero>>
    [] flags \cap known # {}   -> <<"flags", flags \cap known>>
    [] OTHER                   -> <<"unknown flags", flags>>
FormatAccountFlags(flags)    == FormatFlags(flags, {1, 2, 4, 8}, "None")
FormatAllowTrustFlags(flags) == FormatFlags(flags, {1, 2}, "UNAUTHORIZED")
FormatTrustLineFlags(flags)  == FormatFlags(flags, {1, 2, 4}, "[none]")

-----------------------------------------------------------------------------
(* Classic operations. *)

CreateAccountOp(op) ==
  <<Entry("Send", <<FormatNativeAmount(op.amount), <<XLM>>>>),
    Entry("To", StrKey(op.destination))>>

PaymentOp(op) ==
  <<Entry("Send", FormatAmountWithAsset(op.amount, op.asset)),
    Entry("To", StrKey(op.destination))>>

\* A path payment to oneself is a swap, without a recipient.  The path itself is
\* not kept by the parser.
IsSwap(op, op_source) == StrKey(op.destination) = op_source
PathPayment(op, op_source, sends, receives) ==
  <<Entry(sends, FormatAmountWithAsset(op.send_amount, op.send_asset))>>
  \o EntryIf(~IsSwap(op, op_source), "To", StrKey(op.destination))
  \o <<Entry((IF IsSwap(op, op_source) THEN "" ELSE "They ") \o receives,
             FormatAmountWithAsset(op.dest_amount, op.dest_asset))>>
PathPaymentStrictReceiveOp(op, op_source) == PathPayment(op, op_source, "Send Max", "Receive")
PathPaymentStrictSendOp(op, op_source) == PathPayment(op, op_source, "Send", "Receive Min")

\* An offer: the asset with the amount first, then the other.
Offer(op, first, second) ==
  <<Entry(first[1], FormatAmountWithAsset(op.amount, first[2])),
    Entry(second[1], FormatAsset(second[2])),
    Entry("Price", <<FormatPrice(op.price), FormatAssetCode(second[2]),
                     FormatAssetCode(first[2])>>)>>
Selling(op) == <<"Selling", op.selling>>
Buying(op)  == <<"Buying", op.buying>>
CreatePassiveSellOfferOp(op) == Offer(op, Selling(op), Buying(op))

\* An offer that is removed is named, and nothing else of it is shown.
Removes(op) == op.offer_id # 0 /\ op.amount = 0
ManageOffer(op, first, second) ==
  IF Removes(op) THEN <<Entry("Remove Offer", Digits[op.offer_id])>>
  ELSE EntryIf(op.offer_id # 0, "Change Offer", Digits[op.offer_id])
       \o Offer(op, first, second)
ManageSellOfferOp(op) == ManageOffer(op, Selling(op), Buying(op))
ManageBuyOfferOp(op)  == ManageOffer(op, Buying(op), Selling(op))

SetOptionsOp(op) ==
  <<Entry("Operation Type", <<"Set Options">>)>>
  \o OptionEntry(op.inflation_dest, "Inflation Dest", StrKey)
  \o OptionEntry(op.clear_flags, "Clear Flags", FormatAccountFlags)
  \o OptionEntry(op.set_flags, "Set Flags", FormatAccountFlags)
  \o OptionEntry(op.master_weight, "Master Weight", ToText)
  \o OptionEntry(op.low_threshold, "Low Threshold", ToText)
  \o OptionEntry(op.med_threshold, "Medium Threshold", ToText)
  \o OptionEntry(op.high_threshold, "High Threshold", ToText)
  \o OptionEntry(op.home_domain, "Home Domain", LAMBDA domain :
       IF domain = << >> THEN <<"[set home domain to empty]">> ELSE domain)
  \o [i \in DOMAIN op.signer |->
        IF op.signer[i].weight = 0
        THEN Entry("Remove Signer", <<StrKey(op.signer[i].key)>>)
        ELSE Entry("Add Signer", <<StrKey(op.signer[i].key), op.signer[i].weight>>)]

\* A trust line shows its issuer in full; a pool is its two assets and its fee.
ChangeTrustOp(op) ==
  LET action == IF op.limit = 0 THEN "Remove Trust" ELSE "Change Trust"
      line   == op.line
  IN  (CASE line[1] = "native" -> <<Entry(action, XLM)>>
         [] line[1] = "pool_share" ->
              <<Entry(action, <<"Liquidity Pool Asset">>),
                Entry("Asset A", FormatAsset(line[2])),
                Entry("Asset B", FormatAsset(line[3])),
                Entry("Pool Fee Rate", line[4])>>
         [] OTHER ->
              <<Entry(action, CodeText(line)), Entry("Asset Issuer", StrKey(line[3]))>>)
      \o EntryIf(op.limit # 0, "Trust Limit",
           IF op.limit = I64_MAX THEN <<"[unlimited]">> ELSE FormatNativeAmount(op.limit))

ManageDataOp(op) ==
  IF op.data_value = << >> THEN <<Entry("Remove Data", op.data_name)>>
  ELSE <<Entry("Set Data", op.data_name), Entry("Data Value", op.data_value[1])>>

CreateClaimableBalanceOp(op) ==
  <<Entry("Operation Type", <<"Create Claimable Balance">>),
    Entry("Balance", FormatAmountWithAsset(op.amount, op.asset))>>
  \o [i \in DOMAIN op.claimants |->
        Entry("Claimant " \o ToString(i), ClaimantLine(op.claimants[i]))]

\* The ledger keys whose sponsorship can be reviewed; the rest are an error.
LedgerKeyNames ==
  {"ACCOUNT", "TRUSTLINE", "OFFER", "DATA", "CLAIMABLE_BALANCE",
   "LIQUIDITY_POOL", "SIGNER_KEY"}
RevokeSponsorshipOp(op) ==
  <<Entry("Operation Type", <<"Revoke Sponsorship", op.key>>)>>
  \o CASE op.key = "ACCOUNT" -> <<Entry("Account ID", StrKey(op.id))>>
       [] op.key = "TRUSTLINE" ->
            <<Entry("Account ID", StrKey(op.id)),
              Entry("Asset", IF op.asset[1] = "pool_share"
                             THEN <<<<"Liquidity Pool ID">>, StrKey(op.asset[2])>>
                             ELSE FormatAsset(op.asset))>>
       [] op.key = "OFFER" ->
            <<Entry("Seller ID", StrKey(op.id)), Entry("Offer ID", Digits[op.offer_id])>>
       [] op.key = "DATA" ->
            <<Entry("Account ID", StrKey(op.id)), Entry("Data Name", op.data_name)>>
       [] op.key = "CLAIMABLE_BALANCE" -> <<Entry("Balance ID", StrKey(op.id))>>
       [] op.key = "LIQUIDITY_POOL" -> <<Entry("Pool ID", StrKey(op.id))>>
       [] op.key = "SIGNER_KEY" ->
            <<Entry("Account ID", StrKey(op.id)), Entry("Signer Key", StrKey(op.signer))>>

\* The operations that are a heading and their fields.
Heading(name) == Entry("Operation Type", <<name>>)

AllowTrustOp(op) ==
  <<Heading("Allow Trust"), Entry("Trustor", StrKey(op.trustor)),
    Entry("Asset Code", CodeText(op.asset)),
    Entry("Authorize", FormatAllowTrustFlags(op.authorize))>>
AccountMergeOp(op) ==
  <<Entry("Account Merge", <<"Send all XLM to destination and close account">>),
    Entry("Destination", StrKey(op.destination))>>
BumpSequenceOp(op) ==
  <<Heading("Bump Sequence"), Entry("Bump To", ToText(op.bump_to))>>
ClaimClaimableBalanceOp(op) ==
  <<Heading("Claim Claimable Balance"), Entry("Balance ID", StrKey(op.id))>>
BeginSponsoringFutureReservesOp(op) ==
  <<Heading("Begin Sponsoring Future Reserves"), Entry("Sponsored ID", StrKey(op.id))>>
ClawbackOp(op) ==
  <<Heading("Clawback"), Entry("Clawback", FormatAmountWithAsset(op.amount, op.asset)),
    Entry("From", StrKey(op.from))>>
ClawbackClaimableBalanceOp(op) ==
  <<Heading("Clawback Claimable Balance"), Entry("Balance ID", StrKey(op.id))>>
SetTrustLineFlagsOp(op) ==
  <<Heading("Set Trust Line Flags"), Entry("Trustor", StrKey(op.trustor)),
    Entry("Asset", FormatAsset(op.asset)),
    Entry("Clear Flags", FormatTrustLineFlags(op.clear_flags)),
    Entry("Set Flags", FormatTrustLineFlags(op.set_flags))>>
LiquidityPoolDepositOp(op) ==
  <<Heading("Liquidity Pool Deposit"), Entry("Pool ID", StrKey(op.id)),
    Entry("Max Amount A", FormatNativeAmount(op.amount_a)),
    Entry("Max Amount B", FormatNativeAmount(op.amount_b)),
    Entry("Min Price", FormatPrice(op.min_price)),
    Entry("Max Price", FormatPrice(op.max_price))>>
LiquidityPoolWithdrawOp(op) ==
  <<Heading("Liquidity Pool Withdraw"), Entry("Pool ID", StrKey(op.id)),
    Entry("Amount", FormatNativeAmount(op.amount)),
    Entry("Min Amount A", FormatNativeAmount(op.amount_a)),
    Entry("Min Amount B", FormatNativeAmount(op.amount_b))>>

\* The operations that are a heading alone.
BareHeading ==
  [Inflation |-> "Inflation",
   EndSponsoringFutureReserves |-> "End Sponsoring Future Reserves",
   ExtendFootprintTTL |-> "Extend Footprint TTL", RestoreFootprint |-> "Restore Footprint"]

-----------------------------------------------------------------------------
(* Contract calls and their authorizations. *)

Args(args) ==
  [i \in DOMAIN args |->
     Entry("Arg " \o ToString(i) \o " of " \o ToString(Len(args)),
           ScValToKeyString(args[i]))]

\* The functions of a known token, each with the arguments it must have and the
\* entries it shows: the amount under its own title, then the others.
TokenFunctions ==
  [approve |->
     [types |-> <<"Address", "Address", "I128", "U32">>, amount |-> <<"Approve", 3>>,
      others |-> <<<<"From", 1>>, <<"Spender", 2>>, <<"Exp Ledger", 4>>>>],
   transfer |->
     [types |-> <<"Address", "Address", "I128">>, amount |-> <<"Transfer", 3>>,
      others |-> <<<<"From", 1>>, <<"To", 2>>>>],
   transfer_from |->
     [types |-> <<"Address", "Address", "Address", "I128">>, amount |-> <<"Transfer", 4>>,
      others |-> <<<<"From", 2>>, <<"To", 3>>, <<"Spender", 1>>>>],
   burn |->
     [types |-> <<"Address", "I128">>, amount |-> <<"Burn", 2>>,
      others |-> <<<<"From", 1>>>>],
   burn_from |->
     [types |-> <<"Address", "Address", "I128">>, amount |-> <<"Burn", 3>>,
      others |-> <<<<"From", 2>>, <<"Spender", 1>>>>]]

\* When try_format_token_contract_call and the function it calls do not give up.
IsTokenCall(call) ==
  /\ call.contract[1] = "contract" /\ call.contract[2] \in DOMAIN KnownTokens
  /\ call.function \in DOMAIN TokenFunctions
  /\ [i \in DOMAIN call.args |-> call.args[i][1]] = TokenFunctions[call.function].types

TokenCall(call) ==
  LET f == TokenFunctions[call.function]
      token == KnownTokens[call.contract[2]]
      amount == FromPieces(call.args[f.amount[2]][2])
  IN  <<Entry(f.amount[1], <<FormatTokenAmount(amount, token.decimals), token.symbol,
                             StrKey(call.contract)>>)>>
      \o [i \in DOMAIN f.others |->
            Entry(f.others[i][1], ScValToKeyString(call.args[f.others[i][2]]))]

\* format_invoke_contract_args.
InvokeContract(call) ==
  IF IsTokenCall(call) THEN TokenCall(call)
  ELSE <<Entry("Contract ID", StrKey(call.contract)),
         Entry("Function", <<call.function>>)>> \o Args(call.args)

\* format_create_contract_args and format_create_contract_args_v2 (the first
\* has no arguments): neither shows what the contract's address derives from.
CreateContract(create) ==
  <<Entry("Create Contract", create.executable)>> \o Args(create.args)

\* HostFunction and SorobanAuthorizedFunction.
HostFunction(f) ==
  CASE f[1] = "InvokeContract" -> InvokeContract(f[2])
    [] f[1] = "CreateContract" -> CreateContract(f[2])
    [] f[1] = "UploadContractWasm" -> <<Entry("Upload WASM", <<"Upload Smart Contract WASM">>)>>

\* A faulty number of a nested authorization, without the numbers above it.
NestedIndexAlone(index, i) == <<i>>

\* The number of a nested authorization, under the one it is nested in.
NestedIndex(index, i) == Append(index, i)

\* The numbered entries of the invocations nested in one.
RECURSIVE Nested(_, _)
Nested(subs, index) ==
  FlattenSeq([i \in DOMAIN subs |->
    <<Entry("Nested Authorization", NestedIndex(index, i))>>
    \o HostFunction(subs[i].function)
    \o Nested(subs[i].sub_invocations, NestedIndex(index, i))])

\* A faulty rendering that shows what is nested whatever the setting.
SorobanAuthorizedInvocationWhole(invocation, config) ==
  HostFunction(invocation.function) \o Nested(invocation.sub_invocations, << >>)

\* format_soroban_authorized_invocation.
SorobanAuthorizedInvocation(invocation, config) ==
  HostFunction(invocation.function)
  \o IF config.show_nested_authorization
     THEN Nested(invocation.sub_invocations, << >>) ELSE << >>

\* auth_index: the authorizations by the source account up to this one.
AuthIndex(auth, i) ==
  Cardinality({j \in 1..i : auth[j].credentials = "SourceAccount"})

\* format_invoke_host_function_op: of the authorizations only those by the
\* source account, and of those only what is below the root.
InvokeHostFunctionOp(op, config) ==
  HostFunction(op.host_function)
  \o IF ~config.show_nested_authorization THEN << >>
     ELSE FlattenSeq([i \in DOMAIN op.auth |->
            IF op.auth[i].credentials = "Address" THEN << >>
            ELSE Nested(op.auth[i].root_invocation.sub_invocations,
                        <<AuthIndex(op.auth, i)>>)])

-----------------------------------------------------------------------------
(* Operations. *)

OpSource(op, tx_source) == IF op.source = << >> THEN tx_source ELSE StrKey(op.source[1])

\* The errors of format_operation.
Formattable(op) ==
  CASE op.type \in {"ManageSellOffer", "ManageBuyOffer"} -> Removes(op) \/ ValidPrice(op.price)
    [] op.type = "CreatePassiveSellOffer" -> ValidPrice(op.price)
    [] op.type = "LiquidityPoolDeposit" -> ValidPrice(op.min_price) /\ ValidPrice(op.max_price)
    [] op.type = "RevokeSponsorship" -> op.key \in LedgerKeyNames
    [] OTHER -> TRUE

\* format_operation, when there is no error.
FormatOperation(op, config, tx_source) ==
  LET source == OpSource(op, tx_source)
  IN  (CASE op.type = "CreateAccount" -> CreateAccountOp(op)
         [] op.type = "Payment" -> PaymentOp(op)
         [] op.type = "PathPaymentStrictReceive" -> PathPaymentStrictReceiveOp(op, source)
         [] op.type = "PathPaymentStrictSend" -> PathPaymentStrictSendOp(op, source)
         [] op.type = "ManageSellOffer" -> ManageSellOfferOp(op)
         [] op.type = "ManageBuyOffer" -> ManageBuyOfferOp(op)
         [] op.type = "CreatePassiveSellOffer" -> CreatePassiveSellOfferOp(op)
         [] op.type = "SetOptions" -> SetOptionsOp(op)
         [] op.type = "ChangeTrust" -> ChangeTrustOp(op)
         [] op.type = "AllowTrust" -> AllowTrustOp(op)
         [] op.type = "AccountMerge" -> AccountMergeOp(op)
         [] op.type = "ManageData" -> ManageDataOp(op)
         [] op.type = "BumpSequence" -> BumpSequenceOp(op)
         [] op.type = "CreateClaimableBalance" -> CreateClaimableBalanceOp(op)
         [] op.type = "ClaimClaimableBalance" -> ClaimClaimableBalanceOp(op)
         [] op.type = "BeginSponsoringFutureReserves" -> BeginSponsoringFutureReservesOp(op)
         [] op.type = "RevokeSponsorship" -> RevokeSponsorshipOp(op)
         [] op.type = "Clawback" -> ClawbackOp(op)
         [] op.type = "ClawbackClaimableBalance" -> ClawbackClaimableBalanceOp(op)
         [] op.type = "SetTrustLineFlags" -> SetTrustLineFlagsOp(op)
         [] op.type = "LiquidityPoolDeposit" -> LiquidityPoolDepositOp(op)
         [] op.type = "LiquidityPoolWithdraw" -> LiquidityPoolWithdrawOp(op)
         [] op.type = "InvokeHostFunction" -> InvokeHostFunctionOp(op, config)
         [] OTHER -> <<Heading(BareHeading[op.type])>>)
      \o OptionEntry(op.source, "Op Source", StrKey)

\* get_operation_intent, with offer_action.
OfferAction(op) ==
  CASE op.offer_id = 0 -> <<"create offer">>
    [] op.offer_id # 0 /\ op.amount = 0 -> <<"remove offer">>
    [] OTHER -> <<"change offer">>
PlainIntent ==
  [CreatePassiveSellOffer |-> "create offer", SetOptions |-> "set options",
   ChangeTrust |-> "change trust line", AllowTrust |-> "allow trust",
   AccountMerge |-> "merge account", ManageData |-> "manage data",
   BumpSequence |-> "bump sequence", CreateClaimableBalance |-> "create claimable balance",
   ClaimClaimableBalance |-> "claim claimable balance",
   RevokeSponsorship |-> "revoke sponsorship", Clawback |-> "clawback asset",
   ClawbackClaimableBalance |-> "clawback claimable balance",
   SetTrustLineFlags |-> "set trust line flags",
   LiquidityPoolDeposit |-> "deposit into pool", LiquidityPoolWithdraw |-> "withdraw from pool",
   ExtendFootprintTTL |-> "extend footprint TTL", RestoreFootprint |-> "restore footprint"]
HostFunctionIntent ==
  [InvokeContract |-> "invoke contract", CreateContract |-> "create contract",
   UploadContractWasm |-> "upload WASM"]
NoIntent == << >>

\* A faulty title that takes a payment to the transaction's account for a swap.
OperationIntentByTxSource(op, tx_source) ==
  CASE op.type = "CreateAccount" -> <<"send", XLM>>
    [] op.type = "Payment" -> <<"send", FormatAssetCode(op.asset)>>
    [] op.type \in {"PathPaymentStrictReceive", "PathPaymentStrictSend"} ->
         IF IsSwap(op, tx_source) THEN <<"swap">>
         ELSE <<"send", FormatAssetCode(op.send_asset)>>
    [] op.type \in {"ManageSellOffer", "ManageBuyOffer"} -> OfferAction(op)
    [] op.type = "InvokeHostFunction" -> <<HostFunctionIntent[op.host_function[1]]>>
    [] op.type \in DOMAIN PlainIntent -> <<PlainIntent[op.type]>>
    [] OTHER -> NoIntent

OperationIntent(op, tx_source) ==
  CASE op.type = "CreateAccount" -> <<"send", XLM>>
    [] op.type = "Payment" -> <<"send", FormatAssetCode(op.asset)>>
    [] op.type \in {"PathPaymentStrictReceive", "PathPaymentStrictSend"} ->
         IF IsSwap(op, OpSource(op, tx_source)) THEN <<"swap">>
         ELSE <<"send", FormatAssetCode(op.send_asset)>>
    [] op.type \in {"ManageSellOffer", "ManageBuyOffer"} -> OfferAction(op)
    [] op.type = "InvokeHostFunction" -> <<HostFunctionIntent[op.host_function[1]]>>
    [] op.type \in DOMAIN PlainIntent -> <<PlainIntent[op.type]>>
    [] OTHER -> NoIntent
=============================================================================
