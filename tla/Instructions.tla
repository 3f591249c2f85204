---------------------------- MODULE Instructions ----------------------------
(***************************************************************************)
(* APDU headers and the commands they name (src/main.rs, Instruction).     *)
(* A command is represented by its header: First, More and Display are the *)
(* fields Instruction::try_from derives from P1 and P2.                    *)
(***************************************************************************)
EXTENDS Naturals

INS_GET_PK            == 2
INS_SIGN_TX           == 4
INS_GET_CONF          == 6
INS_SIGN_HASH         == 8
INS_SIGN_SOROBAN_AUTH == 10
INS_SIGN_MESSAGE      == 12

P1_FIRST_APDU  == 0
P1_MORE_APDU   == 128
P2_LAST_APDU   == 0
P2_MORE_APDU   == 128
P2_NON_CONFIRM == 0
P2_CONFIRM     == 1

Chunked == {INS_SIGN_TX, INS_SIGN_SOROBAN_AUTH, INS_SIGN_MESSAGE}
Signing == Chunked \cup {INS_SIGN_HASH}
KnownIns == Signing \cup {INS_GET_PK, INS_GET_CONF}

First(h)   == h.p1 = P1_FIRST_APDU
More(h)    == h.p2 = P2_MORE_APDU
Display(h) == h.p2 = P2_CONFIRM

\* The headers Instruction::try_from accepts.
Accepted(h) ==
  \/ h.ins = INS_GET_PK /\ h.p1 = 0 /\ h.p2 \in {P2_NON_CONFIRM, P2_CONFIRM}
  \/ /\ h.ins \in Chunked
     /\ h.p1 \in {P1_FIRST_APDU, P1_MORE_APDU}
     /\ h.p2 \in {P2_LAST_APDU, P2_MORE_APDU}
  \/ h.ins \in {INS_GET_CONF, INS_SIGN_HASH} /\ h.p1 = 0 /\ h.p2 = 0

\* The status word for a header that is not accepted.
HeaderError(h) == IF h.ins \in KnownIns THEN "WrongP1P2" ELSE "InsNotSupported"
=============================================================================
