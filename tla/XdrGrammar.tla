----------------------------- MODULE XdrGrammar -----------------------------
(***************************************************************************)
(* What T::parse reads, for each type T of stellarlib/src/parser.rs, in the *)
(* source's order.  The names are the source's; where it has none (VecM,    *)
(* Option, a StringM of some size), the name says what the type is.         *)
(* Fields whose content no branch of the parser looks at are runs of bytes, *)
(* and the runs that follow each other are one.                            *)
(***************************************************************************)
EXTENDS XdrParser, TLC

Production(kind, size, arms) ==
  [kind |-> kind, size |-> size, arms |-> arms, counted |-> FALSE]

NoArms == [a \in {} |-> << >>]

Bytes(n) == Production("bytes", n, NoArms)
Opaque(max) == Production("opaque", max, NoArms)
Struct(fields) == Production("struct", 0, 0 :> fields)
Union(arms) == Production("union", 0, arms)

\* A match with the values 0..n-1, no fields.
Enum(n) == Union([a \in 0..(n - 1) |-> << >>])

\* parse_optional: a bool, 0 or 1, then the value.
Optional(t) == Union(0 :> << >> @@ 1 :> <<t>>)

\* A loop over an array that is not kept (the path of a path payment).
Loop(t, max) == Production("vec", max, 0 :> <<t>>)

Counted(p) == [p EXCEPT !.counted = TRUE]
VecM(t, max) == Counted(Loop(t, max))

-----------------------------------------------------------------------------

Primitives ==
  [Word |-> Bytes(4), Long |-> Bytes(8), Uint256 |-> Bytes(32)]

Texts ==
  [Text28 |-> Opaque(28), Text32 |-> Opaque(32), Text64 |-> Opaque(64),
   AnyBytes |-> Opaque(U32_MAX), OptText32 |-> Optional("Text32"),
   OptBytes64 |-> Optional("Text64")]

Memos ==
  [Memo |-> Union(0 :> << >> @@ 1 :> <<"Text28">> @@ 2 :> <<"Long">> @@
                  3 :> <<"Uint256">> @@ 4 :> <<"Uint256">>)]

\* A MuxedAccount refuses the key types 1, 2 and 3.
Accounts ==
  [AccountId |-> Union(0 :> <<"Uint256">>),
   OptAccountId |-> Optional("AccountId"),
   SignedPayload |-> Opaque(64),
   SignerKey |-> Union([a \in 0..2 |-> <<"Uint256">>] @@
                       3 :> <<"Uint256", "SignedPayload">>),
   MuxedEd25519 |-> Struct(<<"Long", "Uint256">>),
   MuxedAccount |-> Union(0 :> <<"Uint256">> @@ 256 :> <<"MuxedEd25519">>),
   OptMuxedAccount |-> Optional("MuxedAccount")]

\* An Asset refuses a pool share, an AssetCode also the native asset.
Assets ==
  [AssetCode12 |-> Bytes(12),
   AssetCode |-> Union(1 :> <<"Word">> @@ 2 :> <<"AssetCode12">>),
   AlphaNum4 |-> Struct(<<"Word", "AccountId">>),
   AlphaNum12 |-> Struct(<<"AssetCode12", "AccountId">>),
   Asset |-> Union(0 :> << >> @@ 1 :> <<"AlphaNum4">> @@ 2 :> <<"AlphaNum12">>)]

Bounds ==
  [TimeBounds |-> Bytes(16), LedgerBounds |-> Bytes(8),
   OptTimeBounds |-> Optional("TimeBounds"),
   OptLedgerBounds |-> Optional("LedgerBounds"),
   OptLong |-> Optional("Long"),
   MinSeq |-> Bytes(12),  \* min_seq_age, min_seq_ledger_gap
   VecSignerKey |-> VecM("SignerKey", 2),
   PreconditionsV2 |-> Struct(<<"OptTimeBounds", "OptLedgerBounds", "OptLong",
                                "MinSeq", "VecSignerKey">>),
   Preconditions |-> Union(0 :> << >> @@ 1 :> <<"TimeBounds">> @@
                           2 :> <<"PreconditionsV2">>)]

\* The header of a transaction stops after op_count.
Envelopes ==
  [FeeAndSeqNum |-> Bytes(12), OpCount |-> Production("count", 0, NoArms),
   Transaction |-> Struct(<<"MuxedAccount", "FeeAndSeqNum", "Preconditions",
                            "Memo", "OpCount">>),
   InnerTransaction |-> Union(2 :> <<"Transaction">>),
   FeeBumpTransaction |-> Struct(<<"MuxedAccount", "Long", "InnerTransaction">>),
   TaggedTransaction |-> Union(2 :> <<"Transaction">> @@
                               5 :> <<"FeeBumpTransaction">>),
   TransactionSignaturePayload |-> Struct(<<"Uint256", "TaggedTransaction">>)]

Addresses ==
  [ClaimableBalanceId |-> Union(0 :> <<"Uint256">>),
   ScAddress |-> Union(0 :> <<"AccountId">> @@ 1 :> <<"Uint256">> @@
                       2 :> <<"MuxedEd25519">> @@ 3 :> <<"ClaimableBalanceId">> @@
                       4 :> <<"Uint256">>)]

\* The parts of the 128 and 256 bit integers.
Numbers == [Int128 |-> Bytes(16), Int256 |-> Bytes(32)]

ScErrors ==
  [SCErrorCode |-> Enum(10),
   SCError |-> Union(0 :> <<"Word">> @@ [a \in 1..9 |-> <<"SCErrorCode">>])]

\* A vector or a map costs a level, a value or a map entry does not.
ScVals ==
  [Bool |-> Enum(2),
   ScVal |-> Union(0 :> <<"Bool">> @@ 2 :> <<"SCError">> @@
                   [a \in {3, 4} |-> <<"Word">>] @@
                   [a \in {5, 6, 7, 8, 21} |-> <<"Long">>] @@
                   [a \in {9, 10} |-> <<"Int128">>] @@
                   [a \in {11, 12} |-> <<"Int256">>] @@
                   [a \in {13, 14} |-> <<"AnyBytes">>] @@ 15 :> <<"Text32">> @@
                   16 :> <<"OptVecScVal">> @@ 17 :> <<"OptScMap">> @@
                   18 :> <<"ScAddress">> @@
                   19 :> <<"ContractExecutable", "OptScMap">> @@
                   [a \in {1, 20} |-> << >>]),
   ScMapEntry |-> Struct(<<"ScVal", "ScVal">>),
   VecScVal |-> VecM("ScVal", U32_MAX), OptVecScVal |-> Optional("VecScVal"),
   ScMap |-> VecM("ScMapEntry", U32_MAX), OptScMap |-> Optional("ScMap")]

\* The path is read and dropped.
Payments ==
  [CreateAccountOp |-> Struct(<<"AccountId", "Long">>),
   PaymentOp |-> Struct(<<"MuxedAccount", "Asset", "Long">>),
   Path |-> Loop("Asset", 5),
   PathPaymentOp |-> Struct(<<"Asset", "Long", "MuxedAccount", "Asset", "Long",
                              "Path">>)]

Offers ==
  [AmountAndPrice |-> Bytes(16),
   CreatePassiveSellOfferOp |-> Struct(<<"Asset", "Asset", "AmountAndPrice">>),
   ManageOfferOp |-> Struct(<<"Asset", "Asset", "AmountAndPrice", "Long">>)]

AccountSettings ==
  [OptWord |-> Optional("Word"),
   Signer |-> Struct(<<"SignerKey", "Word">>), OptSigner |-> Optional("Signer"),
   SetOptionsOp |-> Struct(<<"OptAccountId", "OptWord", "OptWord", "OptWord",
                             "OptWord", "OptWord", "OptWord", "OptText32",
                             "OptSigner">>),
   ManageDataOp |-> Struct(<<"Text64", "OptBytes64">>)]

TrustLines ==
  [LiquidityPoolParameters |-> Union(0 :> <<"Asset", "Asset", "Word">>),
   ChangeTrustAsset |-> Union(0 :> << >> @@ 1 :> <<"AlphaNum4">> @@
                              2 :> <<"AlphaNum12">> @@
                              3 :> <<"LiquidityPoolParameters">>),
   ChangeTrustOp |-> Struct(<<"ChangeTrustAsset", "Long">>),
   AllowTrustOp |-> Struct(<<"AccountId", "AssetCode", "Word">>)]

\* A predicate costs a level, and the vector of an And or an Or one more.  The
\* predicate of a Not must be there.
Predicates ==
  [ClaimPredicate |->
     Counted(Union(0 :> << >> @@ [a \in {1, 2} |-> <<"VecClaimPredicate">>] @@
                   3 :> <<"SomeClaimPredicate">> @@ [a \in {4, 5} |-> <<"Long">>])),
   SomeClaimPredicate |-> Union(1 :> <<"ClaimPredicate">>),
   VecClaimPredicate |-> VecM("ClaimPredicate", 2)]

Claimants ==
  [Claimant |-> Union(0 :> <<"AccountId", "ClaimPredicate">>),
   VecClaimant |-> VecM("Claimant", 10),
   CreateClaimableBalanceOp |-> Struct(<<"Asset", "Long", "VecClaimant">>)]

LaterOperations ==
  [ClawbackOp |-> Struct(<<"Asset", "MuxedAccount", "Long">>),
   SetTrustLineFlagsOp |-> Struct(<<"AccountId", "Asset", "Long">>),
   Prices |-> Bytes(32),  \* two amounts and two prices, or three amounts
   Amounts |-> Bytes(24),
   LiquidityPoolDepositOp |-> Struct(<<"Uint256", "Prices">>),
   LiquidityPoolWithdrawOp |-> Struct(<<"Uint256", "Amounts">>),
   ExtensionPoint |-> Enum(1),
   ExtendFootprintTTLOp |-> Struct(<<"ExtensionPoint", "Word">>)]

Contracts ==
  [ContractIDPreimage |-> Union(0 :> <<"ScAddress", "Uint256">> @@ 1 :> <<"Asset">>),
   ContractExecutable |-> Union(0 :> <<"Uint256">> @@ 1 :> << >>),
   CreateContractArgs |-> Struct(<<"ContractIDPreimage", "ContractExecutable">>),
   CreateContractArgsV2 |-> Struct(<<"ContractIDPreimage", "ContractExecutable",
                                     "VecScVal">>),
   InvokeContractArgs |-> Struct(<<"ScAddress", "Text32", "VecScVal">>),
   HostFunction |-> Union(0 :> <<"InvokeContractArgs">> @@
                          1 :> <<"CreateContractArgs">> @@ 2 :> <<"AnyBytes">> @@
                          3 :> <<"CreateContractArgsV2">>)]

\* An invocation costs a level by the vector that holds it.
Authorizations ==
  [SorobanCredentials |-> Union(0 :> << >> @@
                                1 :> <<"ScAddress", "Long", "Word", "ScVal">>),
   SorobanAuthorizedFunction |-> Union(0 :> <<"InvokeContractArgs">> @@
                                       1 :> <<"CreateContractArgs">> @@
                                       2 :> <<"CreateContractArgsV2">>),
   SorobanAuthorizedInvocation |-> Struct(<<"SorobanAuthorizedFunction",
                                            "VecInvocation">>),
   VecInvocation |-> VecM("SorobanAuthorizedInvocation", U32_MAX),
   SorobanAuthorizationEntry |-> Struct(<<"SorobanCredentials",
                                          "SorobanAuthorizedInvocation">>),
   VecEntry |-> VecM("SorobanAuthorizationEntry", U32_MAX),
   InvokeHostFunctionOp |-> Struct(<<"HostFunction", "VecEntry">>)]

LedgerKeys ==
  [Durability |-> Enum(2), ConfigSettingID |-> Enum(17),
   TrustLineAsset |-> Union(0 :> << >> @@ 1 :> <<"AlphaNum4">> @@
                            2 :> <<"AlphaNum12">> @@ 3 :> <<"Uint256">>),
   LedgerKey |-> Union(0 :> <<"AccountId">> @@ 1 :> <<"AccountId", "TrustLineAsset">> @@
                       2 :> <<"AccountId", "Long">> @@ 3 :> <<"AccountId", "Text64">> @@
                       4 :> <<"ClaimableBalanceId">> @@ 5 :> <<"Uint256">> @@
                       6 :> <<"ScAddress", "ScVal", "Durability">> @@
                       7 :> <<"Uint256">> @@ 8 :> <<"ConfigSettingID">> @@
                       9 :> <<"Uint256">>),
   RevokeSponsorshipOp |-> Union(0 :> <<"LedgerKey">> @@
                                 1 :> <<"AccountId", "SignerKey">>)]

Operations ==
  [OperationBody |->
     Union(0 :> <<"CreateAccountOp">> @@ 1 :> <<"PaymentOp">> @@
           [a \in {2, 13} |-> <<"PathPaymentOp">>] @@
           [a \in {3, 12} |-> <<"ManageOfferOp">>] @@
           4 :> <<"CreatePassiveSellOfferOp">> @@ 5 :> <<"SetOptionsOp">> @@
           6 :> <<"ChangeTrustOp">> @@ 7 :> <<"AllowTrustOp">> @@
           8 :> <<"MuxedAccount">> @@ [a \in {9, 17} |-> << >>] @@
           10 :> <<"ManageDataOp">> @@ 11 :> <<"Long">> @@
           14 :> <<"CreateClaimableBalanceOp">> @@
           [a \in {15, 20} |-> <<"ClaimableBalanceId">>] @@ 16 :> <<"AccountId">> @@
           18 :> <<"RevokeSponsorshipOp">> @@ 19 :> <<"ClawbackOp">> @@
           21 :> <<"SetTrustLineFlagsOp">> @@ 22 :> <<"LiquidityPoolDepositOp">> @@
           23 :> <<"LiquidityPoolWithdrawOp">> @@ 24 :> <<"InvokeHostFunctionOp">> @@
           25 :> <<"ExtendFootprintTTLOp">> @@ 26 :> <<"ExtensionPoint">>),
   Operation |-> Struct(<<"OptMuxedAccount", "OperationBody">>)]

\* ui_sign_tx: the header, then as many operations as it says, with one parser.
Reviews ==
  [OperationList |-> Production("repeat", 0, 0 :> <<"Operation">>),
   SignTx |-> Struct(<<"TransactionSignaturePayload", "OperationList">>)]

HashIDPreimages ==
  [Authorization |-> Bytes(44),  \* network_id, nonce, signature_expiration_ledger
   SorobanAuthorization |-> Struct(<<"Authorization", "SorobanAuthorizedInvocation">>),
   HashIDPreimage |-> Union(9 :> <<"SorobanAuthorization">>),
   SignSorobanAuth |-> Struct(<<"HashIDPreimage">>)]

StellarGrammar ==
  Primitives @@ Texts @@ Memos @@ Accounts @@ Assets @@ Bounds @@ Envelopes @@
  Addresses @@ Numbers @@ ScErrors @@ ScVals @@ Payments @@ Offers @@
  AccountSettings @@ TrustLines @@ Predicates @@ Claimants @@ LaterOperations @@
  Contracts @@ Authorizations @@ LedgerKeys @@ Operations @@ Reviews @@
  HashIDPreimages

=============================================================================
