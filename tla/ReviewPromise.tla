---------------------------- MODULE ReviewPromise ----------------------------
(***************************************************************************)
(* What a review promises its reader.  The bytes that are signed say more  *)
(* than the screen: Meaning is what is left of a request when all that a   *)
(* review is known to leave out is forgotten, and ReviewTells claims that  *)
(* nothing else is.  Meaning is defined on the request alone, without the  *)
(* operators that format it, so that it can disagree with them; the one    *)
(* exception is a free text, of which it asks what it spells.              *)
(***************************************************************************)
EXTENDS TxReview, ReviewText

CONSTANT Spellable  \* contract values for which a text may be taken, none of them a text

-----------------------------------------------------------------------------
(* What is left of the parts of an operation. *)

\* Of an issuer, its kind and the two ends of its key.
Ends(key) == <<key[1], key[2][1], key[2][3]>>
Short(asset) == IF asset[1] = "native" THEN asset ELSE <<asset[1], asset[2], Ends(asset[3])>>

\* Of flags, the known ones if there are any.
SomeKnown(flags, known) == IF flags \cap known = {} THEN flags ELSE flags \cap known
OptionalFlags(option) == [i \in DOMAIN option |-> SomeKnown(option[i], {1, 2, 4, 8})]

\* Of a price, what the decimal places hold.
Rounded(price) == (price[1] * 10 ^ STELLAR_NATIVE_DECIMAL_PLACES) \div price[2]

\* A text may spell a value that is no text: alone, in place of an argument or of
\* a map's key, anything at all ("true", "[void]", the JSON text of a map), within
\* a list or as a map's value what JSON has as a string (a number, an address, a
\* date).  Nothing on the screen tells the two apart.
Spelt(line, alone) ==
  {v \in Spellable : IF alone THEN ScValToKeyString(v) = line
                     ELSE Json(v) = <<"string", line>>}

\* The map that an error of the host reads like.
AsMap(error) ==
  LET text(word) == <<"Symbol", Line(<<word>>)>>
  IN  <<"Map", <<<<<<text("error_type"), text(error[1])>>,
                   <<text("error_value"), text(error[2])>>>>>>>>

\* Of a contract's value: of a number not its type, of a text not its type nor
\* that it is none of the values it spells, of an absent list or map not that it
\* is one, of an error of the host not that it is no map, of the two values that
\* are never used not what they hold, and of a map the last entry of those whose
\* keys are left alike, without their order.
RECURSIVE Plain(_, _)
Plain(val, alone) ==
  LET variant == val[1] content == val[2] IN
  CASE variant \in Number32And64 -> <<"number", content>>
    [] variant \in WideNumbers -> <<"number", FromPieces(content)>>
    [] variant \in FreeText ->
         IF Spelt(content, alone) = {} THEN <<"text", content>>
         ELSE Plain(CHOOSE v \in Spelt(content, alone) : TRUE, alone)
    [] variant \in Fixed -> <<variant>>
    [] variant = "Error" /\ content[1] # "Contract" -> Plain(AsMap(content), alone)
    [] variant \in {"Vec", "Map"} /\ content = << >> -> <<"void", 0>>
    [] variant = "Void" -> <<"void", 0>>
    [] variant = "Vec" /\ content # << >> ->
         <<"list", [i \in DOMAIN content[1] |-> Plain(content[1][i], FALSE)]>>
    [] variant = "Map" /\ content # << >> ->
         LET entry == [i \in DOMAIN content[1] |->
                         <<Plain(content[1][i][1], TRUE), Plain(content[1][i][2], FALSE)>>]
             last  == {i \in DOMAIN entry : \A j \in DOMAIN entry :
                                              j > i => entry[j][1] # entry[i][1]}
         IN  <<"map", {entry[i] : i \in last}>>
    [] OTHER -> val
Arguments(args) == [i \in DOMAIN args |-> Plain(args[i], TRUE)]

\* Of a call, its arguments' plain values; of a created contract not what its
\* address derives from; of an uploaded one nothing.
FunctionMeaning(f) ==
  CASE f[1] = "InvokeContract" ->
         <<"call", f[2].contract, f[2].function, Arguments(f[2].args)>>
    [] f[1] = "CreateContract" ->
         <<"create", f[2].executable, Arguments(f[2].args)>>
    [] OTHER -> <<"upload">>

\* Of an authorization the whole tree of its calls.
RECURSIVE Tree(_)
Tree(invocation) ==
  <<FunctionMeaning(invocation.function),
    [i \in DOMAIN invocation.sub_invocations |-> Tree(invocation.sub_invocations[i])]>>
Trees(invocations) == [i \in DOMAIN invocations |-> Tree(invocations[i])]

\* Of an operation's authorizations those by the source account, and of those
\* what is below the root; the root is taken to be the call itself.
GrantedTrees(auth) ==
  LET granted == SelectSeq(auth, LAMBDA a : /\ a.credentials = "SourceAccount"
                                            /\ a.root_invocation.sub_invocations # << >>)
  IN  [i \in DOMAIN granted |-> Trees(granted[i].root_invocation.sub_invocations)]

-----------------------------------------------------------------------------
(* What is left of an operation. *)

\* A home domain may spell what is shown of an empty one.
HomeDomain(option) ==
  IF option = <<<<"[set home domain to empty]">>>> THEN <<<< >>>> ELSE option

\* An offer is removed by its number alone, and one that is created reads the
\* same whether it is passive or not.
OfferMeaning(op, type, id) ==
  IF id # 0 /\ op.amount = 0 THEN [type |-> "RemoveOffer", id |-> id, source |-> op.source]
  ELSE [type |-> type, id |-> id, source |-> op.source, amount |-> op.amount,
        selling |-> Short(op.selling), buying |-> Short(op.buying),
        price |-> Rounded(op.price)]

OpMeaning(op, conf) ==
  CASE op.type = "CreateAccount" ->
         [type |-> "Payment", source |-> op.source, destination |-> op.destination,
          amount |-> op.amount, asset |-> <<"native", << >>, << >>>>]
    [] op.type \in {"Payment", "CreateClaimableBalance", "Clawback"} ->
         [op EXCEPT !.asset = Short(@)]
    [] op.type \in {"PathPaymentStrictReceive", "PathPaymentStrictSend"} ->
         [op EXCEPT !.send_asset = Short(@), !.dest_asset = Short(@), !.path = << >>]
    [] op.type = "ManageSellOffer" -> OfferMeaning(op, "SellOffer", op.offer_id)
    [] op.type = "CreatePassiveSellOffer" -> OfferMeaning(op, "SellOffer", 0)
    [] op.type = "ManageBuyOffer" -> OfferMeaning(op, "BuyOffer", op.offer_id)
    [] op.type = "SetOptions" ->
         [op EXCEPT !.clear_flags = OptionalFlags(@), !.set_flags = OptionalFlags(@),
                    !.home_domain = HomeDomain(@)]
    [] op.type = "ChangeTrust" /\ op.line[1] = "pool_share" ->
         [op EXCEPT !.line = <<"pool_share", Short(@[2]), Short(@[3]), @[4]>>]
    [] op.type = "AllowTrust" -> [op EXCEPT !.authorize = SomeKnown(@, {1, 2})]
    [] op.type = "SetTrustLineFlags" ->
         [op EXCEPT !.asset = Short(@), !.clear_flags = SomeKnown(@, {1, 2, 4}),
                    !.set_flags = SomeKnown(@, {1, 2, 4})]
    [] op.type = "RevokeSponsorship" /\ op.key = "TRUSTLINE" ->
         IF op.asset[1] = "pool_share" THEN op ELSE [op EXCEPT !.asset = Short(@)]
    [] op.type = "LiquidityPoolDeposit" ->
         [op EXCEPT !.min_price = Rounded(@), !.max_price = Rounded(@)]
    [] op.type = "ExtendFootprintTTL" -> [op EXCEPT !.extend_to = 0]
    [] op.type = "InvokeHostFunction" ->
         [type |-> op.type, source |-> op.source,
          function |-> FunctionMeaning(op.host_function),
          granted |-> IF conf.show_nested_authorization THEN GrantedTrees(op.auth)
                      ELSE << >>]
    [] OTHER -> op

-----------------------------------------------------------------------------
(* What is left of a request. *)

NetworkMeaning(network) ==
  IF network \in {"public", "testnet"} THEN network ELSE "another network"

\* A least sequence number of zero is taken for none.
CondMeaning(cond) == [cond EXCEPT !.min_seq_num = SelectSeq(@, LAMBDA n : n # 0)]

Meaning(r, conf) ==
  IF r.kind = "auth"
  THEN [kind |-> "auth", network |-> NetworkMeaning(r.network),
        nonce |-> IF conf.show_sequence_and_nonce THEN r.nonce ELSE 0,
        expiration |-> r.expiration,
        calls |-> IF conf.show_nested_authorization THEN Tree(r.invocation)
                  ELSE FunctionMeaning(r.invocation.function)]
  ELSE [kind |-> "tx", network |-> NetworkMeaning(r.network),
        payer |-> IF r.envelope = "fee_bump" THEN <<r.fee_source, r.outer_fee>> ELSE << >>,
        source |-> r.source, fee |-> r.fee, memo |-> r.memo,
        seq_num |-> IF conf.show_sequence_and_nonce THEN r.seq_num ELSE 0,
        cond |-> IF conf.show_preconditions THEN <<CondMeaning(r.cond)>> ELSE << >>,
        ops |-> [i \in DOMAIN r.ops |-> OpMeaning(r.ops[i], conf)]]

-----------------------------------------------------------------------------
(* The review every candidate would get, the whole of it. *)

Presentable == Formatted \union ParsedAuthorizations

WholeTitle(r) == Title(r, WholeIntent(r))

-----------------------------------------------------------------------------
(* Properties. *)

\* A review tells its reader what is signed: another request that the same
\* signer would be shown under the same title with the same entries means the
\* same, but for what Meaning names as left out.
ReviewTells ==
  phase = "reviewing" =>
    \A other \in Presentable :
      /\ WholeTitle(other) = Title(request, intent)
      /\ AllEntries(other, config, signer) = entries
      => Meaning(other, config) = Meaning(request, config)

\* Entries that a row of the menu governs: the whole of what is nested in a
\* call, up to the entry that ends the operation.
IsNested(all, i) ==
  \E j \in 1..i :
    /\ all[j][1] = "Nested Authorization"
    /\ \A k \in j..i : all[k][1] \notin {"Operation", "Op Source"}
ExtraSigners == {"Extra Signer " \o ToString(i) : i \in 1..20}
Governs(label, all, i) ==
  LET title == all[i][1] IN
  CASE label = "TransactionSource" ->
         /\ title = "Tx Source" /\ request.envelope = "tx"
         /\ all[i][2] = StrKey(signer)
    [] label = "SequenceAndNonce" -> title \in {"Sequence Num", "Nonce"}
    [] label = "Precondition" ->
         title \in {"Valid After", "Valid Before", "Min Ledger", "Max Ledger",
                    "Min Seq Num", "Min Seq Age", "Min Seq Ledger Gap"} \union ExtraSigners
    [] label = "NestedAuthorization" -> IsNested(all, i)
    [] OTHER -> FALSE

\* What the menu's switches leave out of a review is what their labels say and
\* nothing else: the entries shown are those of a review with every switch on,
\* without the ones governed by a row that is off.
MenuGovernsReview ==
  phase = "reviewing" =>
    LET all  == AllEntries(request, [field \in DOMAIN config |-> TRUE], signer)
        kept == {i \in DOMAIN all : \A row \in DOMAIN EXPOSED_SETTINGS :
                   Governs(EXPOSED_SETTINGS[row], all, i) =>
                     SwitchIsOn(EXPOSED_SETTINGS[row])}
    IN  entries = [n \in 1..Cardinality(kept) |->
                     all[CHOOSE i \in kept : Cardinality(kept \cap (1..i)) = n]]

\* The title and the entries come from two passes over the operation that decide
\* the same things apart, and they agree: a swap has no recipient and a payment
\* has one other than its payer, and an offer is named as it is titled.
TitleAgrees ==
  phase = "reviewing" /\ intent # NoIntent =>
    LET shown(title) == \E i \in DOMAIN entries : entries[i][1] = title
        told(title)  == entries[SelectInSeq(entries, LAMBDA e : e[1] = title)][2]
        payer == IF shown("Op Source") THEN told("Op Source") ELSE StrKey(request.source)
    IN  /\ intent[1] \in {"swap", "send"} =>
             (intent[1] = "send" <=> shown("To"))
        /\ intent[1] = "remove offer" <=> shown("Remove Offer")
        /\ intent[1] = "change offer" <=> shown("Change Offer")
        /\ (shown("Receive") \/ shown("Receive Min")) => intent[1] = "swap"
        /\ intent[1] = "send" /\ (shown("They Receive") \/ shown("They Receive Min")) =>
             told("To") # payer
=============================================================================
