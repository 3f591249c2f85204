---------------------------- MODULE MCSwapSession ----------------------------
(* A transaction is two symbols, its header and its operation: a header and *)
(* an operation that agree with the parameters, and one of each for every   *)
(* way of disagreeing.  Bytes are bits, words four of them.                 *)
EXTENDS SwapSession

MCPath == {"p1", "p2"}
MCAddressOf == [p1 |-> "G1", p2 |-> "G2"]

Text(s) == [type |-> "text", text |-> s]

GoodHead == [network |-> "public", envelope |-> "tx", source |-> "G1", fee |-> 3,
             memo |-> Text(<<"i", "d">>), op_count |-> 1, ops |-> << >>]
GoodOp == [source |-> "absent", body |-> "payment", asset |-> "native",
           amount |-> 5, destination |-> "GX"]

Heads ==
  [h_good    |-> GoodHead,
   h_network |-> [GoodHead EXCEPT !.network = "testnet"],
   h_bump    |-> [GoodHead EXCEPT !.envelope = "fee_bump"],
   h_source  |-> [GoodHead EXCEPT !.source = "G2"],
   h_fee     |-> [GoodHead EXCEPT !.fee = 2],
   h_nomemo  |-> [GoodHead EXCEPT !.memo = [type |-> "none", text |-> << >>]],
   h_escaped |-> [GoodHead EXCEPT !.memo = Text(<<"byte80">>)],
   h_two     |-> [GoodHead EXCEPT !.op_count = 2]]
Ops ==
  [o_good   |-> GoodOp,
   o_same   |-> [GoodOp EXCEPT !.source = "G1"],
   o_source |-> [GoodOp EXCEPT !.source = "G2"],
   o_body   |-> [GoodOp EXCEPT !.body = "create_account"],
   o_asset  |-> [GoodOp EXCEPT !.asset = "credit"],
   o_amount |-> [GoodOp EXCEPT !.amount = -5],
   o_to     |-> [GoodOp EXCEPT !.destination = "GY"]]

MCBlock == DOMAIN Heads \cup DOMAIN Ops

\* What follows the first operation is not looked at by the parser's caller.
MCTxOf ==
  [s \in {<<h>> : h \in DOMAIN Heads}
         \cup {<<h, o>> : h \in DOMAIN Heads, o \in DOMAIN Ops} |->
     [Heads[s[1]] EXCEPT !.ops = IF Len(s) = 1 THEN << >> ELSE <<Ops[s[2]]>>]]

GoodParams ==
  [command |-> "sign_transaction",
   amount |-> <<0, 0, 1, 0, 1>>, amount_len |-> 4,
   fee_amount |-> <<0, 0, 0, 1, 1>>, fee_amount_len |-> 2,
   dest_address |-> "GX", extra_id |-> [utf8 |-> TRUE, text |-> <<"i", "d">>]]
AddressParams(n, p, r) ==
  [command |-> "check_address", dpath_len |-> n, path |-> p, ref_address |-> r]

MCParams ==
  {GoodParams,
   [GoodParams EXCEPT !.amount_len = 5],
   [GoodParams EXCEPT !.amount_len = 0],
   [GoodParams EXCEPT !.fee_amount = <<0, 0, 1, 1, 1>>, !.fee_amount_len = 3],
   [GoodParams EXCEPT !.extra_id = [utf8 |-> FALSE, text |-> <<"i", "d">>]],
   [GoodParams EXCEPT !.extra_id = [utf8 |-> TRUE, text |-> << >>]],
   [GoodParams EXCEPT !.extra_id = [utf8 |-> TRUE, text |-> <<"\\", "x80">>]],
   AddressParams(3, "p1", "G1"), AddressParams(3, "p2", "G1"),
   AddressParams(2, "p1", "G1")}

\* Amounts around zero, around every place of the decimal point and of a
\* separator, and around the largest one; words of base 64.
MCAmounts ==
  0..120 \cup 990..1010 \cup 9990..10010 \cup 99990..100020
  \cup {123450, 131070, 131071, 131072, 131080, 262143}
PrintableParams ==
  {[command |-> "get_printable_amount",
    amount |-> <<n \div 4096, (n \div 64) % 64, n % 64>>] : n \in MCAmounts}

MCHeader ==
  {[ins |-> INS_SIGN_TX, p1 |-> x, p2 |-> y] :
     x \in {P1_FIRST_APDU, P1_MORE_APDU}, y \in {P2_LAST_APDU, P2_MORE_APDU}}
  \cup {[ins |-> i, p1 |-> 0, p2 |-> y] :
     i \in {INS_GET_PK, INS_SIGN_HASH, INS_SIGN_MESSAGE, 3}, y \in {0, 1}}

MCData ==
  {<<p>> : p \in MCPath} \cup {<<"p1", h>> : h \in DOMAIN Heads}
  \cup {<<o>> : o \in DOMAIN Ops} \cup {<<"p2", "h_source">>, << >>, Malformed}
=============================================================================
