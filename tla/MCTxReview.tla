------------------------------ MODULE MCTxReview ------------------------------
(* The requests TLC reviews, in three families: what surrounds the           *)
(* operations, the classic operations, and what contracts do.                *)
EXTENDS ReviewPromise

\* Accounts: two whose keys differ at both ends, one that an abbreviation does
\* not tell from the first, and a muxed address of the first.
A  == <<"ed25519", <<"Ahead", "Amid", "Atail">>>>
A2 == <<"ed25519", <<"Ahead", "Xmid", "Atail">>>>
B  == <<"ed25519", <<"Bhead", "Bmid", "Btail">>>>
M  == <<"muxed", <<"Ahead", "Amid7", "Mtail">>>>
C  == <<"contract", <<"Chead", "Cmid", "Ctail">>>>
D  == <<"contract", <<"Dhead", "Dmid", "Dtail">>>>
Pool == <<"liquidity_pool", <<"Lhead", "Lmid", "Ltail">>>>
Balance == <<"claimable_balance", <<"Yhead", "Ymid", "Ytail">>>>

MCSigners == {A, B}
OneSigner == {A}
MCKnownTokens == [key \in {C[2]} |-> [symbol |-> <<"T">>, decimals |-> 1]]

NoCond ==
  [min_time |-> 0, max_time |-> 0, min_ledger |-> 0, max_ledger |-> 0,
   min_seq_num |-> << >>, min_seq_age |-> 0, min_seq_ledger_gap |-> 0,
   extra_signers |-> << >>]
Native == <<"native", << >>, << >>>>
Pay(source) ==
  [type |-> "Payment", source |-> source, destination |-> B, amount |-> 150,
   asset |-> Native]
Unparsable == [type |-> "unparsable", source |-> << >>]
Base ==
  [kind |-> "tx", network |-> "public", envelope |-> "tx", fee_source |-> A,
   outer_fee |-> 0, source |-> A, fee |-> 100, seq_num |-> 5, memo |-> << >>,
   cond |-> NoCond, ops |-> <<Pay(<< >>)>>]

-----------------------------------------------------------------------------
(* Headers. *)

Memos ==
  {<< >>} \union
  {<<<<kind, <<text>>>>>> : kind \in {"Text", "ID", "Hash", "Return"}, text \in {"7", "seven"}}
Conds ==
  {[NoCond EXCEPT ![field] = n] :
     field \in {"min_time", "max_time", "min_ledger", "max_ledger", "min_seq_age",
                "min_seq_ledger_gap"}, n \in {1, 1500}}
  \union {[NoCond EXCEPT !.min_seq_num = <<n>>, !.max_time = t] : n \in {0, 9}, t \in {0, 1501}}
  \union {[NoCond EXCEPT !.extra_signers = s] :
            s \in {<<A>>, <<A2>>, <<A, <<"hash_x", A[2]>>>>, <<<<"pre_auth_tx", A[2]>>, A>>}}

HeaderCandidates ==
  {[Base EXCEPT !.network = n, !.envelope = e, !.source = s] :
     n \in {"public", "testnet", "third", "fourth"}, e \in {"tx", "fee_bump"},
     s \in {A, B, M}}
  \union {[Base EXCEPT !.envelope = "fee_bump", !.fee_source = s, !.outer_fee = n] :
            s \in {A, B, M}, n \in {1, 10, 12345678}}
  \union {[Base EXCEPT !.fee = n, !.seq_num = q] : n \in {0, 1, 10, 1000}, q \in {1, 5}}
  \union {[Base EXCEPT !.memo = m, !.seq_num = q] : m \in Memos, q \in {1, 5}}
  \union {[Base EXCEPT !.cond = c] : c \in Conds}
  \union {[Base EXCEPT !.ops = o] :
            o \in {<< >>, <<Pay(<<A>>)>>, <<Pay(<< >>), Pay(<<B>>)>>,
                   <<Pay(<< >>), Pay(<<B>>), Pay(<< >>)>>, <<Pay(<<B>>), Unparsable>>}}
  \union {[kind |-> "unparsable tx"]}

-----------------------------------------------------------------------------
(* Classic operations. *)

Code4 == <<"U", "S">>
Usd(issuer) == <<"alphanum4", Code4, issuer>>
Assets ==
  {Native, Usd(A), Usd(A2), Usd(B), <<"alphanum4", <<"U", NUL>>, A>>,
   <<"alphanum12", <<"U", "S", NUL, NUL>>, A>>, <<"alphanum12", <<"U", "S", "D", NUL>>, A>>,
   <<"alphanum12", <<"X", "L", "M", NUL>>, A>>}
FewAssets == {Native, Usd(A), Usd(A2)}
Amounts == {-100, -1, 0, 1, 99, 100, 101, 110, 1000, 10000, 100000, 1000000}
FewAmounts == {0, 100, 1000}
Prices == {<<1, 3>>, <<33, 100>>, <<2, 1>>, <<20, 1>>, <<200, 1>>, <<0, 1>>, <<1, 0>>, <<-1, 2>>}
Sources == {<< >>, <<B>>}

Payments ==
  {[type |-> "Payment", source |-> << >>, destination |-> d, amount |-> n, asset |-> a] :
     d \in {A, M}, n \in Amounts, a \in Assets}
  \union {[type |-> "CreateAccount", source |-> s, destination |-> d, amount |-> n] :
            s \in Sources, d \in {A, B}, n \in FewAmounts}
  \union {[type |-> t, source |-> s, destination |-> d, send_amount |-> n, send_asset |-> a,
           dest_amount |-> 100, dest_asset |-> Usd(B), path |-> p] :
            t \in {"PathPaymentStrictReceive", "PathPaymentStrictSend"}, s \in Sources,
            d \in {A, B, M}, n \in {100, 1000}, a \in FewAssets, p \in {<< >>, <<Usd(A)>>}}

Offers ==
  {[type |-> t, source |-> << >>, offer_id |-> id, amount |-> n, selling |-> a,
    buying |-> Usd(B), price |-> p] :
     t \in {"ManageSellOffer", "ManageBuyOffer"}, id \in {0, 7, 70}, n \in {0, 100},
     a \in FewAssets, p \in Prices}
  \union {[type |-> "CreatePassiveSellOffer", source |-> << >>, amount |-> n, selling |-> a,
           buying |-> Usd(B), price |-> p] : n \in {0, 100}, a \in FewAssets, p \in Prices}

NoOptions ==
  [type |-> "SetOptions", source |-> << >>, inflation_dest |-> << >>, clear_flags |-> << >>,
   set_flags |-> << >>, master_weight |-> << >>, low_threshold |-> << >>,
   med_threshold |-> << >>, high_threshold |-> << >>, home_domain |-> << >>, signer |-> << >>]
FlagSets == {{}, {1}, {2}, {1, 16}, {16}, {32}, {1, 4}}
Options ==
  {[NoOptions EXCEPT ![field] = <<flags>>] :
     field \in {"clear_flags", "set_flags"}, flags \in FlagSets}
  \union {[NoOptions EXCEPT ![field] = <<n>>] :
            field \in {"master_weight", "low_threshold", "med_threshold", "high_threshold"},
            n \in {0, 1}}
  \union {[NoOptions EXCEPT !.home_domain = d, !.inflation_dest = i] :
            d \in {<< >>, <<<< >>>>, <<<<"example.org">>>>, <<<<"[set home domain to empty]">>>>},
            i \in {<< >>, <<A>>, <<A2>>}}
  \union {[NoOptions EXCEPT !.signer = <<[key |-> k, weight |-> w]>>] :
            k \in {A, <<"hash_x", A[2]>>, <<"signed_payload", A[2]>>}, w \in {0, 1, 2}}

Lines ==
  {Native, Usd(A), Usd(A2), <<"alphanum12", <<"U", "S", NUL, NUL>>, A>>}
  \union {<<"pool_share", a, Usd(B), fee>> : a \in FewAssets, fee \in {0, 30}}
Predicates ==
  LET time == <<"BeforeAbsoluteTime", 30>>
      span == <<"BeforeRelativeTime", 30>>
  IN  {<<"Unconditional", 0>>, time, span, <<"Not", time>>, <<"Not", <<"Not", time>>>>,
       <<"And", <<time, span>>>>, <<"Or", <<time, span>>>>, <<"And", <<span, time>>>>,
       <<"Not", <<"And", <<time, span>>>>>>}
OtherOps ==
  {[type |-> "ChangeTrust", source |-> << >>, line |-> l, limit |-> n] :
     l \in Lines, n \in {0, 100, I64_MAX}}
  \union {[type |-> "ManageData", source |-> << >>, data_name |-> n, data_value |-> v] :
            n \in {<<"a">>, <<"b">>}, v \in {<< >>, <<<<"a">>>>, <<<< >>>>}}
  \union {[type |-> "CreateClaimableBalance", source |-> << >>, asset |-> Usd(A),
           amount |-> 100, claimants |-> <<[destination |-> A, predicate |-> p]>> \o rest] :
            p \in Predicates,
            rest \in {<< >>, <<[destination |-> B, predicate |-> <<"Unconditional", 0>>]>>}}
  \union {[type |-> "AllowTrust", source |-> << >>, trustor |-> B, asset |-> a,
           authorize |-> f] : a \in {Usd(A), <<"alphanum12", <<"U", "S", NUL, NUL>>, A>>},
                              f \in FlagSets}
  \union {[type |-> "SetTrustLineFlags", source |-> << >>, trustor |-> B, asset |-> a,
           clear_flags |-> f, set_flags |-> g] : a \in {Usd(A), Usd(A2)}, f \in FlagSets,
                                                 g \in {{}, {8}}}
  \union {[type |-> "Clawback", source |-> << >>, from |-> f, amount |-> n, asset |-> Usd(A)] :
            f \in {A, B, M}, n \in FewAmounts}
  \union {[type |-> "BumpSequence", source |-> s, bump_to |-> n] : s \in Sources, n \in {0, 9}}
  \union {[type |-> "AccountMerge", source |-> s, destination |-> d] :
            s \in Sources, d \in {A, B}}
  \union {[type |-> t, source |-> << >>, id |-> Balance] :
            t \in {"ClaimClaimableBalance", "ClawbackClaimableBalance"}}
  \union {[type |-> t, source |-> s] :
            t \in {"Inflation", "EndSponsoringFutureReserves", "RestoreFootprint"},
            s \in Sources}
  \union {[type |-> "ExtendFootprintTTL", source |-> << >>, extend_to |-> n] : n \in {1, 2}}
  \union {[type |-> "BeginSponsoringFutureReserves", source |-> << >>, id |-> A]}
  \union {[type |-> "LiquidityPoolDeposit", source |-> << >>, id |-> Pool, amount_a |-> n,
           amount_b |-> 100, min_price |-> p, max_price |-> q] :
            n \in FewAmounts, p \in Prices, q \in {<<1, 3>>, <<1, 0>>}}
  \union {[type |-> "LiquidityPoolWithdraw", source |-> << >>, id |-> Pool, amount |-> n,
           amount_a |-> 1, amount_b |-> m] : n \in FewAmounts, m \in FewAmounts}

Revocations ==
  LET Revoke(key, id) == [type |-> "RevokeSponsorship", source |-> << >>, key |-> key, id |-> id]
  IN  {Revoke("ACCOUNT", A), Revoke("CLAIMABLE_BALANCE", Balance),
       Revoke("LIQUIDITY_POOL", Pool), Revoke("CONTRACT_DATA", C)}
      \union {[Revoke("TRUSTLINE", B) EXCEPT !.source = s] @@ [asset |-> a] :
                s \in Sources, a \in {Native, Usd(A), Usd(A2), <<"pool_share", Pool>>}}
      \union {Revoke("OFFER", A) @@ [offer_id |-> n] : n \in {1, 10}}
      \union {Revoke("DATA", A) @@ [data_name |-> n] : n \in {<<"a">>, <<"b">>}}
      \union {Revoke("SIGNER_KEY", A) @@ [signer |-> s] : s \in {A, <<"pre_auth_tx", A[2]>>}}

Single(ops, sources) == {[Base EXCEPT !.ops = <<op>>, !.source = s] : op \in ops, s \in sources}
PaymentCandidates ==
  Single(Payments, {A, B})
  \union {[Base EXCEPT !.ops = <<Pay(<< >>), op>>] :
            op \in {o \in Payments : o.type = "CreateAccount"}}
ClassicCandidates ==
  PaymentCandidates \union Single(Offers \union Options \union OtherOps \union Revocations, {A})

-----------------------------------------------------------------------------
(* Contract calls. *)

U32(n) == <<"U32", n>>
Text(variant, word) == <<variant, Line(<<word>>)>>
Map(pairs) == <<"Map", <<pairs>>>>
Leaves ==
  {<<"Bool", TRUE>>, <<"Bool", FALSE>>, <<"Void", 0>>, <<"Vec", << >>>>, <<"Map", << >>>>,
   <<"Vec", <<<< >>>>>>, Map(<< >>), <<"Error", <<"Contract", 5>>>>,
   <<"Error", <<"WasmVm", "ArithDomain">>>>, <<"Error", <<"Auth", "ArithDomain">>>>,
   U32(5), U32(1000), <<"I64", -5>>, <<"U64", 5>>, <<"I128", <<0, 5>>>>,
   <<"I128", <<-1, 5>>>>, <<"U256", <<0, 0, 1, 5>>>>, <<"U128", <<1, 5>>>>,
   <<"Timepoint", 5>>, <<"Timepoint", 1500>>, <<"Timepoint", 1501>>,
   <<"Duration", 59>>, <<"Duration", 60>>, <<"Duration", 3600>>, <<"Duration", 86405>>,
   <<"Duration", 0>>, Text("Symbol", "word"), Text("String", "word"), Text("Bytes", "word"),
   Text("String", "other"), <<"Address", A>>, <<"Address", C>>, <<"LedgerKeyNonce", 0>>,
   <<"LedgerKeyNonce", 1>>, <<"LedgerKeyContractInstance", 0>>, <<"ContractInstance", "h1">>,
   <<"ContractInstance", "h2">>}
Fives == <<"Vec", <<<<U32(5)>>>>>>
WasmError ==
  Map(<<<<Text("Symbol", "error_type"), Text("String", "WasmVm")>>,
        <<Text("Symbol", "error_value"), Text("String", "ArithDomain")>>>>)
\* Texts that spell other values.
FivesLine == <<"json", <<"array", <<<<"string", Line(<<"5">>)>>>>>>>>
ObjectText(lines) ==
  <<"String", <<"json", <<"object", [key \in DOMAIN lines |-> <<"string", lines[key]>>]>>>>>>
Homonyms ==
  {<<"String", Line(word)>> :
     word \in {<<"true">>, <<"[void]">>, <<"LedgerKeyNonce">>, <<"ContractInstance">>,
               <<"5">>, <<"1", ",", "0", "0", "0">>, <<"-", "5">>,
               <<"1", "5", "0", "0", " UTC">>, <<"1", "5", "0", "1">>, <<"1", "m", "0", "s">>,
               <<"G", "Ahead", "Amid", "Atail">>, <<"C", "Chead", "Cmid", "Ctail">>}}
  \union {<<"Symbol", FivesLine>>, <<"Symbol", Line(<<"5">>)>>, <<"Bytes", Line(<<"true">>)>>,
          ObjectText(Line(<<"5">>) :> Line(<<"1">>)),
          ObjectText(Line(<<"error_type">>) :> Line(<<"WasmVm">>) @@
                     Line(<<"error_value">>) :> Line(<<"ArithDomain">>))}
Keys ==
  {U32(5), Text("Symbol", "5"), <<"Bool", TRUE>>, Text("String", "true"), <<"Void", 0>>,
   Text("String", "[void]"), Fives, <<"String", FivesLine>>}
Maps ==
  {Map(<<<<k, U32(1)>>, <<l, <<"Bool", TRUE>>>>>>) : k \in Keys, l \in Keys}
  \union {Map(<<<<k, U32(1)>>>>) : k \in Keys}
  \union {Map(<<<<Text("Symbol", "word"), v>>>>) :
            v \in {U32(5), <<"I64", 5>>, Map(<<<<U32(5), U32(1)>>>>), Text("String", "5")}}
  \union {WasmError}
Lists ==
  {<<"Vec", <<<<v, U32(1)>>>>>> :
     v \in {U32(5), <<"Void", 0>>, <<"Bool", TRUE>>} \union
           {Text("String", word) : word \in {"5", "[void]", "true"}}}
Values == Leaves \union Homonyms \union Maps \union Lists \union {Fives}
MCSpellable == {v \in Values : v[1] \notin FreeText}

Invoke(contract, function, args) ==
  <<"InvokeContract", [contract |-> contract, function |-> function, args |-> args]>>
Create(executable, preimage, args) ==
  <<"CreateContract", [executable |-> executable, preimage |-> preimage, args |-> args]>>
TokenArgs ==
  {<<<<"Address", A>>, <<"Address", x>>, <<"I128", <<0, n>>>>>> : x \in {B, D}, n \in {5, 10, 100}}
  \union {<<<<"Address", A>>, <<"Address", B>>, <<"I128", <<0, 10>>>>, U32(n)>> : n \in {5, 1000}}
  \union {<<<<"Address", A>>, <<"Address", B>>, <<"Address", D>>, <<"I128", <<0, 10>>>>>>,
          <<<<"Address", B>>, <<"I128", <<-1, 10>>>>>>, << >>}
Functions ==
  {Invoke(C, f, a) : f \in DOMAIN TokenFunctions \union {"balance"}, a \in TokenArgs}
  \union {Invoke(D, "call", <<v>>) : v \in Values}
  \union {Invoke(B, "transfer", a) : a \in TokenArgs}
  \union {Create(e, p, a) : e \in {<<"wasm", "h1">>, <<"wasm", "h2">>, <<"stellar asset">>},
                            p \in {"salt", "pepper"}, a \in {<< >>, <<U32(5)>>, <<U32(5), U32(5)>>}}
  \union {<<"UploadContractWasm", w>> : w \in {"code", "other code"}}

\* Calls nested in calls, up to three of them, every shape.
Call(f, subs) == [function |-> Invoke(D, f, << >>), sub_invocations |-> subs]
Forests ==
  LET a == Call("a", << >>) IN
  {<< >>, <<a>>, <<a, a>>, <<a, a, a>>, <<Call("a", <<a>>)>>, <<Call("a", <<a>>), a>>,
   <<a, Call("a", <<a>>)>>, <<Call("a", <<a, a>>)>>, <<Call("a", <<Call("a", <<a>>)>>)>>}
Auth(credentials, forest) ==
  [credentials |-> credentials, root_invocation |-> Call("root", forest)]
Auths ==
  {<< >>} \union {<<Auth(c, f)>> : c \in {"SourceAccount", "Address"}, f \in Forests}
  \union {<<Auth(c, f), Auth("SourceAccount", g)>> :
            c \in {"SourceAccount", "Address"}, f \in {<< >>, <<Call("a", << >>)>>},
            g \in Forests}

HostOp(f, auth) ==
  [type |-> "InvokeHostFunction", source |-> << >>, host_function |-> f, auth |-> auth]
ContractOps ==
  {HostOp(f, << >>) : f \in Functions}
  \union {HostOp(Invoke(D, "call", << >>), auth) : auth \in Auths}
Authorizations ==
  {[kind |-> "auth", network |-> n, nonce |-> q, expiration |-> e, invocation |-> Call("root", f)] :
     n \in {"public", "third"}, q \in {-1, 1}, e \in {5, 6}, f \in Forests}
ContractCandidates ==
  Single(ContractOps, {A}) \union Authorizations
  \union {[kind |-> "unparsable auth"]}
  \union {[Base EXCEPT !.ops = <<HostOp(Invoke(D, "call", << >>), <<Auth("SourceAccount", f)>>),
                                 op>>] :
            f \in Forests, op \in {Pay(<< >>), HostOp(Invoke(D, "call", << >>), << >>)}}

-----------------------------------------------------------------------------
(* How a review is decided. *)

\* Operations that end the loop in either way, or do not, or leave the mark.
BareCall == HostOp(Invoke(D, "call", << >>), << >>)
AnyFate ==
  {Pay(<< >>), BareCall, Unparsable,
   [type |-> "RevokeSponsorship", source |-> << >>, key |-> "CONTRACT_DATA", id |-> C]}

FateCandidates ==
  {[Base EXCEPT !.ops = ops] :
     ops \in UNION {[1..n -> AnyFate] : n \in 0..2}
             \union {<<Pay(<< >>), BareCall, op>> : op \in AnyFate}
             \union {<<BareCall, Pay(<< >>), op>> : op \in AnyFate}}
  \union {[kind |-> "unparsable auth"]}
  \union {[kind |-> "auth", network |-> n, nonce |-> q, expiration |-> 5,
           invocation |-> Call("root", << >>)] : n \in {"public", "third"}, q \in {-1, 1}}
DecidedCandidates == HeaderCandidates \union FateCandidates

-----------------------------------------------------------------------------
\* The rows of the menu that the user switches; the first lets calls be reviewed.
HeaderRows == {1, 2, 3, 4}
NoRows == {}
ContractRows == {1, 5}
=============================================================================
