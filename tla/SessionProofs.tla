---------------------------- MODULE SessionProofs ----------------------------
(***************************************************************************)
(* Proofs about AppSession, for every choice of paths, blocks, buffer      *)
(* capacity, payload classes, headers and data, and about ChunkedTransfer, *)
(* for jobs of any number of pieces of any length, whatever other programs *)
(* send in between and whenever the application restarts.                  *)
(*                                                                         *)
(* The application's inductive invariant is TypeOK with three facts about  *)
(* a handler that waits for the user: StackOK, what its stack holds,       *)
(* ReviewedIsSigned and BlindOnlyWhenEnabled.                              *)
(*                                                                         *)
(* The client's invariant says what each of its states knows about the     *)
(* application's: what the buffer holds while the job is being sent, what  *)
(* the answer to the last APDU carries, and what a review of the job was   *)
(* built from.  It rests on the application's own invariant, which makes   *)
(* the request under review the one that is signed.                        *)
(***************************************************************************)
EXTENDS ChunkedTransfer, AppContextProofs, RecursiveFunctions


\* A handler that waits for the user is not the configuration handler, and
\* those that keep their request on the stack have it there.
StackOK ==
  InReview =>
    /\ ins.ins # INS_GET_CONF
    /\ ins.ins \in {INS_GET_PK, INS_SIGN_HASH, INS_SIGN_MESSAGE}
         => local \in Request
    /\ ins.ins = INS_GET_PK => local.path \in Path

IInv == TypeOK /\ StackOK /\ ReviewedIsSigned /\ BlindOnlyWhenEnabled

-----------------------------------------------------------------------------
(* Replying and showing. *)

ReplyType == [sw: StatusWord, rdata: RData, sent: BOOLEAN]

\* After a reply the handler has stopped, with nothing on its stack.
LEMMA FinishType ==
  ASSUME TypeOK, NEW h, NEW sw \in StatusWord, NEW rdata \in RData, NEW c,
         Finish(h, sw, rdata, c)
  PROVE  /\ phase' \in {"next_command", "status", "choice"}
         /\ reply' \in ReplyType
         /\ shown' = NoRequest /\ local' = NoRequest
         /\ blind_signing' = blind_signing
         /\ screen' \in {"home", "review"}
  BY DEF Finish, Reply, ReplyType, TypeOK

\* Showing a review leaves the handler waiting with that request.
LEMMA ShowType ==
  ASSUME TypeOK, NEW r \in Request, NEW stack \in Request \cup {NoRequest},
         Show(r, stack)
  PROVE  /\ phase' = "review" /\ screen' = "review"
         /\ shown' = r /\ shown' \in Request
         /\ local' = stack /\ local' \in Request \cup {NoRequest}
         /\ blind_signing' = blind_signing
         /\ reply' \in ReplyType
<1>1. NoReply \in ReplyType
  BY DEF NoReply, ReplyType, Nothing, RData, StatusWord
<1> QED
  BY <1>1 DEF Show

\* What is enough for the invariant after a step that ends in a reply.
LEMMA FinishedInv ==
  ASSUME ctx' \in Context, Len(ctx'.raw_data) <= MAX,
         ins' \in [ins: Nat, p1: Nat, p2: Nat], Accepted(ins'),
         blind_signing' \in BOOLEAN,
         phase' \in {"next_command", "status", "choice"},
         reply' \in ReplyType, shown' = NoRequest, local' = NoRequest,
         screen' \in {"home", "review"}
  PROVE  IInv'
<1>1. TypeOK'
  BY DEF TypeOK, ReplyType, Accepted
<1>2. ~InReview'
  BY DEF InReview
<1> QED
  BY <1>1, <1>2 DEF IInv, StackOK, ReviewedIsSigned,
        BlindOnlyWhenEnabled

\* What each handler signs, instruction by instruction.
SignedByIns ==
  /\ ins.ins \in {INS_SIGN_TX, INS_SIGN_SOROBAN_AUTH}
       => ToSign = Req(ins.ins, ctx.path, ctx.raw_data)
  /\ ins.ins = INS_SIGN_MESSAGE
       => ToSign = Req(ins.ins, ctx.path, local.payload)
  /\ ins.ins \in {INS_SIGN_HASH, INS_GET_PK} => ToSign = local

LEMMA SignedValue == SignedByIns
<1>1. CASE ins.ins \in {INS_SIGN_TX, INS_SIGN_SOROBAN_AUTH}
  BY <1>1 DEF SignedByIns, ToSign, INS_SIGN_TX, INS_SIGN_SOROBAN_AUTH,
              INS_SIGN_MESSAGE, INS_SIGN_HASH, INS_GET_PK
<1>2. CASE ins.ins = INS_SIGN_MESSAGE
  BY <1>2 DEF SignedByIns, ToSign, INS_SIGN_TX, INS_SIGN_SOROBAN_AUTH,
              INS_SIGN_MESSAGE, INS_SIGN_HASH, INS_GET_PK
<1>3. CASE ins.ins \in {INS_SIGN_HASH, INS_GET_PK}
  BY <1>3 DEF SignedByIns, ToSign, INS_SIGN_TX, INS_SIGN_SOROBAN_AUTH,
              INS_SIGN_MESSAGE, INS_SIGN_HASH, INS_GET_PK
<1>4. CASE ins.ins \notin {INS_SIGN_TX, INS_SIGN_SOROBAN_AUTH,
                           INS_SIGN_MESSAGE, INS_SIGN_HASH, INS_GET_PK}
  BY <1>4 DEF SignedByIns
<1> QED
  BY <1>1, <1>2, <1>3, <1>4

LEMMA SignedValueNext == SignedByIns'
  BY SignedValue, PTL

\* The blind signing setting was on if the code before the review reached it
\* with something that is not shown in clear.
LEMMA OutcomesType ==
  ASSUME NEW i \in Chunked, NEW c \in Context, NEW sw \in Outcomes(i, c)
  PROVE  /\ sw \in StatusWord
         /\ sw = "Ok" /\ i = INS_SIGN_TX /\ c.raw_data \in TxSoroban
              => blind_signing
         /\ sw = "Ok" /\ i = INS_SIGN_SOROBAN_AUTH => blind_signing
<1>1. CASE i = INS_SIGN_TX
  <2>1. sw = "KeyDeriveFail" \/ sw = TxVerdict(c.raw_data)
    BY <1>1 DEF Outcomes, INS_SIGN_TX, INS_SIGN_SOROBAN_AUTH, INS_SIGN_MESSAGE
  <2>2. TxVerdict(c.raw_data) \in StatusWord
    BY DEF TxVerdict, StatusWord
  <2>3. c.raw_data \in TxSoroban /\ TxVerdict(c.raw_data) = "Ok"
          => blind_signing
    BY DEF TxVerdict
  <2>4. "KeyDeriveFail" \in StatusWord /\ i # INS_SIGN_SOROBAN_AUTH
    BY <1>1 DEF StatusWord, INS_SIGN_TX, INS_SIGN_SOROBAN_AUTH
  <2> QED
    BY <2>1, <2>2, <2>3, <2>4
<1>2. CASE i = INS_SIGN_SOROBAN_AUTH
  <2>1. sw = AuthVerdict(c.raw_data)
    BY <1>2 DEF Outcomes, INS_SIGN_TX, INS_SIGN_SOROBAN_AUTH, INS_SIGN_MESSAGE
  <2>2. AuthVerdict(c.raw_data) \in StatusWord
    BY DEF AuthVerdict, StatusWord
  <2>3. AuthVerdict(c.raw_data) = "Ok" => blind_signing
    BY DEF AuthVerdict
  <2> QED
    BY <1>2, <2>1, <2>2, <2>3 DEF INS_SIGN_TX, INS_SIGN_SOROBAN_AUTH
<1>3. CASE i = INS_SIGN_MESSAGE
  <2>1. sw \in {"DataHashFail", "Ok"}
    BY <1>3 DEF Outcomes, INS_SIGN_TX, INS_SIGN_SOROBAN_AUTH, INS_SIGN_MESSAGE
  <2> QED
    BY <1>3, <2>1 DEF StatusWord, INS_SIGN_TX, INS_SIGN_SOROBAN_AUTH,
                      INS_SIGN_MESSAGE
<1> QED
  BY <1>1, <1>2, <1>3 DEF Chunked

\* What is enough for the invariant after a step that shows a review.
LEMMA ShownInv ==
  ASSUME ctx' \in Context, Len(ctx'.raw_data) <= MAX,
         ins' \in [ins: Nat, p1: Nat, p2: Nat], Accepted(ins'),
         ins'.ins # INS_GET_CONF,
         blind_signing' \in BOOLEAN, phase' = "review",
         reply' \in ReplyType, screen' = "review",
         shown' \in Request, local' \in Request \cup {NoRequest},
         ins'.ins \in {INS_GET_PK, INS_SIGN_HASH, INS_SIGN_MESSAGE}
           => local' \in Request,
         ins'.ins = INS_GET_PK => local'.path \in Path,
         ins'.ins \in Signing => shown' = ToSign',
         shown' \in BlindRequest => blind_signing'
  PROVE  IInv'
<1>1. TypeOK'
  BY DEF TypeOK, ReplyType, Accepted
<1>2. StackOK'
  BY DEF StackOK
<1>3. ReviewedIsSigned' /\ BlindOnlyWhenEnabled'
  BY DEF ReviewedIsSigned, BlindOnlyWhenEnabled, BlindRequest
<1> QED
  BY <1>1, <1>2, <1>3 DEF IInv

-----------------------------------------------------------------------------
(* The invariant. *)

LEMMA InitInv == Init => IInv
<1> SUFFICES ASSUME Init PROVE IInv
  OBVIOUS
<1>1. ctx \in Context /\ Len(ctx.raw_data) <= MAX
  BY EmptyContextType DEF Init
<1>2. NoReply \in ReplyType
  BY DEF NoReply, ReplyType, Nothing, RData, StatusWord
<1>3. ins \in [ins: Nat, p1: Nat, p2: Nat] /\ Accepted(ins)
  BY DEF Init, INS_GET_CONF, Accepted
<1>4. TypeOK
  BY <1>1, <1>2, <1>3 DEF Init, TypeOK, ReplyType
<1>5. ~InReview
  BY DEF Init, InReview
<1> QED
  BY <1>4, <1>5 DEF IInv, StackOK, ReviewedIsSigned,
        BlindOnlyWhenEnabled

\* A signing handler that waits for the user has a request to sign.
LEMMA ToSignType ==
  ASSUME IInv, InReview, ins.ins \in Signing
  PROVE  ToSign \in Request
<1>1. ctx.path \in Path \cup {DefaultPath} /\ ctx.raw_data \in Seq(Symbol)
  BY DEF IInv, TypeOK, Context
<1>2. CASE ins.ins \in {INS_SIGN_TX, INS_SIGN_SOROBAN_AUTH}
  BY <1>1, <1>2, SignedValue DEF SignedByIns, Req, Request, KnownIns
<1>3. CASE ins.ins = INS_SIGN_MESSAGE
  <2>1. local \in Request
    BY <1>3 DEF IInv, StackOK
  <2>2. local.payload \in Seq(Symbol)
    BY <2>1 DEF Request
  <2> QED
    BY <1>1, <1>3, <2>2, SignedValue DEF SignedByIns, Req, Request, KnownIns
<1>4. CASE ins.ins = INS_SIGN_HASH
  BY <1>4, SignedValue DEF SignedByIns, IInv, StackOK
<1> QED
  BY <1>2, <1>3, <1>4 DEF Signing, Chunked

\* A chunk preserves the invariant, whatever its header and its data.
LEMMA SignChunkInv ==
  ASSUME IInv, NEW h \in [ins: Nat, p1: Nat, p2: Nat],
         NEW d \in Seq(Symbol) \cup {Malformed}, SignChunk(h, d)
  PROVE  IInv'
<1> TypeOK
  BY DEF IInv
<1> DEFINE r == HandleChunk(ctx, First(h), d)
           c == [r.ctx EXCEPT !.review_finished = TRUE]
<1>1. /\ ins' = h /\ h.ins \in Chunked
      /\ ins' \in [ins: Nat, p1: Nat, p2: Nat] /\ Accepted(ins')
  BY DEF SignChunk, Take
<1>2. /\ r.ctx \in Context /\ Len(r.ctx.raw_data) <= MAX
      /\ r.sw \in {"Ok", "WrongApduLength", "RequestDataTooLarge"}
  <2>1. First(h) \in BOOLEAN /\ d \in Seq(Symbol) \cup {Malformed}
    BY SessionAssumption DEF First
  <2> QED
    BY <2>1, HandleChunkType DEF TypeOK
<1>3. c \in Context /\ Len(c.raw_data) <= MAX
  <2>1. ASSUME NEW e \in Context
        PROVE  /\ [e EXCEPT !.review_finished = TRUE] \in Context
               /\ [e EXCEPT !.review_finished = TRUE].raw_data = e.raw_data
    BY DEF Context
  <2> QED
    BY <1>2, <2>1
<1> HIDE DEF c, r
<1>4. ASSUME NEW sw \in StatusWord, NEW e \in {c, r.ctx}, ctx' = e,
             Finish(h, sw, Nothing, e)
      PROVE  IInv'
  <2>1. Nothing \in RData
    BY DEF RData
  <2> QED
    BY <1>1, <1>2, <1>3, <1>4, <2>1, FinishType, FinishedInv DEF TypeOK
<1>5. CASE ctx' = r.ctx /\ Finish(h, r.sw, Nothing, r.ctx)
  BY <1>2, <1>4, <1>5 DEF StatusWord
<1>6. ASSUME ctx' = c, NEW sw \in Outcomes(h.ins, c), sw # "Ok",
             Finish(h, sw, Nothing, c)
      PROVE  IInv'
  BY <1>1, <1>3, <1>4, <1>6, OutcomesType
<1>7. ASSUME ctx' = c, "Ok" \in Outcomes(h.ins, c),
             NEW q, q = Req(h.ins, c.path, c.raw_data),
             Show(q, IF h.ins = INS_SIGN_MESSAGE THEN q ELSE NoRequest)
      PROVE  IInv'
  <2>1. /\ q \in Request /\ q.ins = h.ins /\ q.path = c.path
        /\ q.payload = c.raw_data
    BY <1>1, <1>3, <1>7 DEF Req, Request, Context, KnownIns, Signing
  <2>2. /\ phase' = "review" /\ screen' = "review" /\ reply' \in ReplyType
        /\ shown' = q /\ blind_signing' = blind_signing
        /\ local' \in Request \cup {NoRequest}
        /\ h.ins = INS_SIGN_MESSAGE => local' = q
    BY <1>7, <2>1, ShowType
  <2>3. h.ins \notin {INS_GET_CONF, INS_GET_PK, INS_SIGN_HASH}
    BY <1>1 DEF Chunked, INS_SIGN_HASH, INS_GET_CONF, INS_GET_PK,
                INS_SIGN_TX, INS_SIGN_SOROBAN_AUTH, INS_SIGN_MESSAGE
  <2>4. shown' = ToSign'
    <3>1. CASE h.ins = INS_SIGN_MESSAGE
      BY <1>1, <1>7, <2>1, <2>2, <3>1, SignedValueNext DEF SignedByIns
    <3>2. CASE h.ins \in {INS_SIGN_TX, INS_SIGN_SOROBAN_AUTH}
      BY <1>1, <1>7, <2>1, <2>2, <3>2, SignedValueNext DEF SignedByIns
    <3> QED
      BY <1>1, <3>1, <3>2 DEF Chunked
  <2>5. shown' \in BlindRequest => blind_signing'
    BY <1>1, <1>3, <1>7, <2>1, <2>2, <2>3, OutcomesType DEF BlindRequest
  <2> QED
    BY <1>1, <1>3, <1>7, <2>1, <2>2, <2>3, <2>4, <2>5, ShownInv DEF TypeOK
<1>8. \/ ctx' = r.ctx /\ Finish(h, r.sw, Nothing, r.ctx)
      \/ /\ ctx' = c
         /\ \E sw \in Outcomes(h.ins, c) :
              IF sw = "Ok"
              THEN LET q == Req(h.ins, c.path, c.raw_data) IN
                   Show(q, IF h.ins = INS_SIGN_MESSAGE THEN q ELSE NoRequest)
              ELSE Finish(h, sw, Nothing, c)
  BY DEF SignChunk, r, c
<1> QED
  BY <1>5, <1>6, <1>7, <1>8

LEMMA StepInv == IInv /\ [Next]_vars => IInv'
<1> SUFFICES ASSUME IInv, [Next]_vars PROVE IInv'
  OBVIOUS
<1> TypeOK
  BY DEF IInv
<1>h. ASSUME NEW h \in Header
      PROVE  h \in [ins: Nat, p1: Nat, p2: Nat]
  BY SessionAssumption
<1>1. ASSUME NEW h \in Header, RejectHeader(h)
      PROVE  IInv'
  <2>1. reply' \in ReplyType
    BY <1>1 DEF RejectHeader, HeaderError, Reply, ReplyType, StatusWord, RData
  <2>2. TypeOK'
    BY <1>1, <2>1 DEF RejectHeader, TypeOK, ReplyType
  <2>3. ~InReview'
    BY <1>1 DEF RejectHeader, InReview
  <2> QED
    BY <2>2, <2>3 DEF IInv, StackOK, ReviewedIsSigned,
        BlindOnlyWhenEnabled
<1>2. ASSUME NEW h \in Header, GetConfiguration(h)
      PROVE  IInv'
  <2>1. "Ok" \in StatusWord /\ Configuration(blind_signing) \in RData
    BY DEF StatusWord, RData, TypeOK
  <2>2. Finish(h, "Ok", Configuration(blind_signing), ctx)
    BY <1>2 DEF GetConfiguration
  <2>3. /\ ctx' = ctx /\ ins' \in [ins: Nat, p1: Nat, p2: Nat]
        /\ Accepted(ins')
    BY <1>2, <1>h DEF GetConfiguration, Take
  <2>4. blind_signing' \in BOOLEAN
    BY <2>2 DEF Finish, TypeOK
  <2> QED
    BY <2>1, <2>2, <2>3, <2>4, FinishType, FinishedInv DEF TypeOK
<1>3. ASSUME NEW h \in Header, NEW d \in Data, GetPublicKey(h, d)
      PROVE  IInv'
  <2>1. /\ ctx' = ctx /\ ins' = h /\ ins'.ins = INS_GET_PK
        /\ ins' \in [ins: Nat, p1: Nat, p2: Nat] /\ Accepted(ins')
    BY <1>3, <1>h DEF GetPublicKey, Take
  <2>2. d \in Seq(Symbol) \cup {Malformed}
    BY SessionAssumption
  <2>3. ASSUME NEW sw \in StatusWord, NEW rdata \in RData,
               Finish(h, sw, rdata, ctx)
        PROVE  IInv'
    BY <2>1, <2>3, FinishType, FinishedInv DEF TypeOK
  <2>4. CASE Finish(h, "WrongApduLength", Nothing, ctx)
    BY <2>3, <2>4 DEF StatusWord, RData
  <2>5. CASE Finish(h, "KeyDeriveFail", Nothing, ctx)
    BY <2>3, <2>5 DEF StatusWord, RData
  <2>6. CASE HasPath(d) /\ Finish(h, "Ok", PublicKey(Head(d)), ctx)
    <3>1. PublicKey(Head(d)) \in RData /\ "Ok" \in StatusWord
      BY <2>6 DEF HasPath, RData, StatusWord
    <3> QED
      BY <2>3, <2>6, <3>1
  <2>7. ASSUME HasPath(d), NEW r, r = Req(h.ins, Head(d), << >>), Show(r, r)
        PROVE  IInv'
    <3>1. h.ins \in KnownIns /\ Head(d) \in Path /\ << >> \in Seq(Symbol)
      BY <2>1, <2>7 DEF HasPath, KnownIns
    <3>2. r \in Request /\ r.ins = INS_GET_PK /\ r.path \in Path
      BY <2>1, <2>7, <3>1 DEF Req, Request
    <3>3. r \notin BlindRequest
      BY <3>2 DEF BlindRequest, INS_GET_PK, INS_SIGN_HASH,
                  INS_SIGN_SOROBAN_AUTH, INS_SIGN_TX
    <3>4. /\ phase' = "review" /\ screen' = "review" /\ reply' \in ReplyType
          /\ shown' = r /\ local' = r /\ blind_signing' = blind_signing
      BY <2>7, <3>2, ShowType
    <3>5. ins'.ins \notin Signing /\ ins'.ins # INS_GET_CONF
      BY <2>1 DEF Signing, Chunked, INS_GET_PK, INS_SIGN_HASH, INS_GET_CONF,
                  INS_SIGN_SOROBAN_AUTH, INS_SIGN_TX, INS_SIGN_MESSAGE
    <3> QED
      BY <2>1, <3>2, <3>3, <3>4, <3>5, ShownInv DEF TypeOK
  <2> QED
    BY <1>3, <2>4, <2>5, <2>6, <2>7 DEF GetPublicKey
<1>4. ASSUME NEW h \in Header, NEW d \in Data, SignHash(h, d)
      PROVE  IInv'
  <2>1. /\ ins' = h /\ ins'.ins = INS_SIGN_HASH
        /\ ins' \in [ins: Nat, p1: Nat, p2: Nat] /\ Accepted(ins')
    BY <1>4, <1>h DEF SignHash, Take
  <2>2. ctx' \in Context /\ Len(ctx'.raw_data) <= MAX
    BY <1>4, EmptyContextType DEF SignHash, Reset
  <2>3. ASSUME NEW sw \in StatusWord, Finish(h, sw, Nothing, ctx')
        PROVE  IInv'
    BY <2>1, <2>2, <2>3, FinishType, FinishedInv DEF TypeOK, RData
  <2>4. CASE Finish(h, "WrongApduLength", Nothing, ctx')
    BY <2>3, <2>4 DEF StatusWord
  <2>5. CASE Finish(h, "BlindSigningModeNotEnabled", Nothing, ctx')
    BY <2>3, <2>5 DEF StatusWord
  <2>6. ASSUME HasPath(d), Tail(d) \in Hashes, blind_signing, NEW r,
               r = Req(h.ins, Head(d), Tail(d)), Show(r, r)
        PROVE  IInv'
    <3>1. h.ins \in KnownIns /\ Head(d) \in Path /\ Tail(d) \in Seq(Symbol)
      BY <2>1, <2>6, SessionAssumption DEF HasPath, KnownIns, Signing
    <3>2. r \in Request
      BY <2>6, <3>1 DEF Req, Request
    <3>4. /\ phase' = "review" /\ screen' = "review" /\ reply' \in ReplyType
          /\ shown' = r /\ local' = r /\ blind_signing' = blind_signing
      BY <2>6, <3>2, ShowType
    <3>5. ins'.ins # INS_GET_CONF /\ ins'.ins # INS_GET_PK
      BY <2>1 DEF INS_SIGN_HASH, INS_GET_CONF, INS_GET_PK
    <3>6. shown' = ToSign'
      BY <2>1, <3>4, SignedValueNext DEF SignedByIns
    <3> QED
      BY <2>1, <2>2, <2>6, <3>2, <3>4, <3>5, <3>6, ShownInv DEF TypeOK
  <2> QED
    BY <1>4, <2>4, <2>5, <2>6 DEF SignHash
<1>5. ASSUME NEW h \in Header, NEW d \in Data, SignChunk(h, d)
      PROVE  IInv'
  BY <1>5, SignChunkInv, SessionAssumption
<1>6. CASE Approve
  BY <1>6 DEF Approve, IInv, TypeOK, StackOK, ReviewedIsSigned,
              BlindOnlyWhenEnabled, InReview, ToSign
<1>7. CASE Reject
  <2>1. Finish(ins, "Deny", Nothing, ctx) /\ ctx' = ctx /\ ins' = ins
    BY <1>7 DEF Reject
  <2>2. "Deny" \in StatusWord /\ Nothing \in RData
    BY DEF StatusWord, RData
  <2> QED
    BY <2>1, <2>2, FinishType, FinishedInv DEF TypeOK
<1>8. CASE ToggleBlindSigning
  <2>1. TypeOK'
    BY <1>8 DEF ToggleBlindSigning, TypeOK
  <2>2. ~InReview'
    BY <1>8 DEF ToggleBlindSigning, InReview
  <2> QED
    BY <2>1, <2>2 DEF IInv, StackOK, ReviewedIsSigned,
        BlindOnlyWhenEnabled
<1>9. CASE Dismiss
  <2>1. TypeOK'
    BY <1>9 DEF Dismiss, TypeOK
  <2>2. ~InReview'
    BY <1>9 DEF Dismiss, InReview
  <2> QED
    BY <2>1, <2>2 DEF IInv, StackOK, ReviewedIsSigned,
        BlindOnlyWhenEnabled
<1>10. CASE Complete
  <2>1. /\ ctx' = ctx /\ ins' = ins /\ InReview
        /\ ins \in [ins: Nat, p1: Nat, p2: Nat] /\ Accepted(ins)
    BY <1>10 DEF Complete, InReview, TypeOK
  <2>2. ASSUME NEW sw \in StatusWord, NEW rdata \in RData,
               Finish(ins, sw, rdata, ctx)
        PROVE  IInv'
    BY <2>1, <2>2, FinishType, FinishedInv DEF TypeOK
  <2>3. ASSUME ins.ins = INS_GET_PK, Finish(ins, "Ok", PublicKey(local.path), ctx)
        PROVE  IInv'
    <3>1. PublicKey(local.path) \in RData /\ "Ok" \in StatusWord
      BY <2>1, <2>3 DEF IInv, StackOK, RData, StatusWord
    <3> QED
      BY <2>2, <2>3, <3>1
  <2>4. CASE Finish(ins, "DataHashFail", Nothing, ctx)
    BY <2>2, <2>4 DEF StatusWord, RData
  <2>5. CASE Finish(ins, "DataSignFail", Nothing, ctx)
    BY <2>2, <2>5 DEF StatusWord, RData
  <2>6. ASSUME ins.ins # INS_GET_PK, Finish(ins, "Ok", Signature(ToSign), ctx)
        PROVE  IInv'
    <3>1. ToSign \in Request
      <4>1. ins.ins \in Signing
        BY <2>1, <2>6 DEF IInv, StackOK, Accepted, Signing
      <4> QED
        BY <2>1, <4>1, ToSignType
    <3>2. Signature(ToSign) \in RData /\ "Ok" \in StatusWord
      BY <3>1 DEF Signature, RData, StatusWord
    <3> QED
      BY <2>2, <2>6, <3>2
  <2> QED
    BY <1>10, <2>3, <2>4, <2>5, <2>6 DEF Complete
<1>11. CASE Restart
  <2>1. ctx' \in Context /\ Len(ctx'.raw_data) <= MAX
    BY <1>11, EmptyContextType DEF Restart
  <2>2. reply' \in ReplyType
    BY <1>11 DEF Restart, NoReply, ReplyType, Nothing, RData, StatusWord
  <2> QED
    BY <1>11, <2>1, <2>2, FinishedInv DEF Restart, TypeOK
<1>12. CASE UNCHANGED vars
  BY <1>12 DEF vars, IInv, TypeOK, StackOK, ReviewedIsSigned,
               BlindOnlyWhenEnabled, InReview, ToSign
<1> QED
  BY <1>1, <1>2, <1>3, <1>4, <1>5, <1>6, <1>7, <1>8, <1>9, <1>10, <1>11, <1>12
     DEF Next, Command, User

LEMMA Invariance == Spec => []IInv
  BY InitInv, StepInv, PTL DEF Spec

-----------------------------------------------------------------------------
(* The theorems. *)

\* Whatever headers and data the host sends, in whatever order, the raw data
\* buffer stays within its capacity and every field holds what its readers
\* expect (RawDataBuffer::extend_from_slice, the handlers' stacks, the replies).
THEOREM TypeCorrect == Spec => []TypeOK
<1>1. IInv => TypeOK
  BY DEF IInv
<1> QED
  BY <1>1, Invariance, PTL

\* What a handler signs after the review is what the review showed, key
\* included, although the context is read again once the user has approved.
THEOREM ReviewSafety == Spec => []ReviewedIsSigned
<1>1. IInv => ReviewedIsSigned
  BY DEF IInv
<1> QED
  BY <1>1, Invariance, PTL

\* A request that is not displayed in clear is under review, or approved, only
\* while the blind signing setting is on.
THEOREM BlindSafety == Spec => []BlindOnlyWhenEnabled
<1>1. IInv => BlindOnlyWhenEnabled
  BY DEF IInv
<1> QED
  BY <1>1, Invariance, PTL

-----------------------------------------------------------------------------
(* The screen. *)

\* A handler that waits for the user took a command whose end is always shown:
\* an address only if it was to be displayed, a chunk only if it was the last.
EndIsShown ==
  InReview => /\ ins.ins = INS_GET_PK => Display(ins)
              /\ ins.ins \in Chunked => ctx.review_finished

\* A success that is not earned cannot be shown after these replies.
LEMMA FinishEarned ==
  ASSUME NEW h, NEW sw, NEW rdata, NEW c, Finish(h, sw, rdata, c),
         ins' = h, ctx' = c,
         \/ sw # "Ok"
         \/ rdata # Nothing
         \/ ~ShowsStatus(h, sw, c)
         \/ h.ins \in Chunked /\ More(h) /\ ~First(h) /\ c.review_finished
  PROVE  SuccessIsEarned'
<1>1. reply'.sw = sw /\ reply'.rdata = rdata
  BY DEF Finish, Reply
<1>2. phase' = "status" => ShowsStatus(h, sw, c)
  BY DEF Finish
<1> QED
  BY <1>1, <1>2 DEF SuccessIsEarned

\* What a reply leaves on the screen, when its command is one that is shown.
LEMMA FinishRestores ==
  ASSUME NEW h, NEW sw, NEW rdata, NEW c, Finish(h, sw, rdata, c),
         ShowsStatus(h, sw, c) \/ sw \in CryptoFailure
  PROVE  phase' = "next_command" => reply'.sw \in CryptoFailure
BY DEF Finish, Reply, ShowsStatus, CryptoFailure

LEMMA ScreenInit == Init => EndIsShown /\ SuccessIsEarned
BY DEF Init, EndIsShown, InReview, SuccessIsEarned

\* While a handler waits, its command is the one taken.
LEMMA WaitingIns ==
  ASSUME IInv, InReview
  PROVE  ins.ins \in Signing \cup {INS_GET_PK}
BY DEF IInv, TypeOK, StackOK, Accepted, Signing

LEMMA ScreenStep ==
  ASSUME IInv, EndIsShown, SuccessIsEarned, [Next]_vars
  PROVE  /\ EndIsShown' /\ SuccessIsEarned'
         /\ phase # "next_command" /\ phase' = "next_command"
              => screen' = "home" \/ reply'.sw \in CryptoFailure
<1> DEFINE Restored == phase # "next_command" /\ phase' = "next_command"
                         => screen' = "home" \/ reply'.sw \in CryptoFailure
<1>s. ASSUME NEW h, NEW sw, NEW rdata, NEW c, Finish(h, sw, rdata, c)
      PROVE  EndIsShown'
  BY <1>s DEF Finish, EndIsShown, InReview
<1>1. ASSUME NEW h \in Header, RejectHeader(h)
      PROVE  EndIsShown' /\ SuccessIsEarned' /\ Restored
  BY <1>1 DEF RejectHeader, EndIsShown, InReview, SuccessIsEarned
<1>2. ASSUME NEW h \in Header, GetConfiguration(h)
      PROVE  EndIsShown' /\ SuccessIsEarned' /\ Restored
  <2>1. /\ Finish(h, "Ok", Configuration(blind_signing), ctx)
        /\ ins' = h /\ ctx' = ctx /\ phase = "next_command"
    BY <1>2 DEF GetConfiguration, Take
  <2>2. Configuration(blind_signing) # Nothing
    BY DEF Configuration, Nothing
  <2> QED
    BY <2>1, <2>2, <1>s, FinishEarned
<1>3. ASSUME NEW h \in Header, NEW d \in Data, GetPublicKey(h, d)
      PROVE  EndIsShown' /\ SuccessIsEarned' /\ Restored
  <2>1. ins' = h /\ h.ins = INS_GET_PK /\ ctx' = ctx /\ phase = "next_command"
    BY <1>3 DEF GetPublicKey, Take
  <2>2. CASE \E sw \in {"WrongApduLength", "KeyDeriveFail"} : Finish(h, sw, Nothing, ctx)
    BY <2>1, <2>2, <1>s, FinishEarned
  <2>3. CASE Finish(h, "Ok", PublicKey(Head(d)), ctx)
    <3>1. PublicKey(Head(d)) # Nothing
      BY DEF PublicKey, Nothing
    <3> QED
      BY <2>1, <2>3, <3>1, <1>s, FinishEarned
  <2>4. ASSUME NEW r, Show(r, r), Display(h)
        PROVE  EndIsShown' /\ SuccessIsEarned'
    BY <2>1, <2>4 DEF Show, EndIsShown, SuccessIsEarned, Chunked, INS_GET_PK,
                      INS_SIGN_TX, INS_SIGN_SOROBAN_AUTH, INS_SIGN_MESSAGE
  <2> QED
    BY <1>3, <2>1, <2>2, <2>3, <2>4 DEF GetPublicKey
<1>4. ASSUME NEW h \in Header, NEW d \in Data, SignHash(h, d)
      PROVE  EndIsShown' /\ SuccessIsEarned' /\ Restored
  <2>1. ins' = h /\ h.ins = INS_SIGN_HASH /\ phase = "next_command"
    BY <1>4 DEF SignHash, Take
  <2>2. CASE \E sw \in {"WrongApduLength", "BlindSigningModeNotEnabled"} :
               Finish(h, sw, Nothing, ctx')
    BY <2>1, <2>2, <1>s, FinishEarned
  <2>3. ASSUME NEW r, Show(r, r)
        PROVE  EndIsShown' /\ SuccessIsEarned'
    BY <2>1, <2>3 DEF Show, EndIsShown, SuccessIsEarned, Chunked, INS_GET_PK,
                      INS_SIGN_HASH, INS_SIGN_TX, INS_SIGN_SOROBAN_AUTH,
                      INS_SIGN_MESSAGE
  <2> QED
    BY <1>4, <2>1, <2>2, <2>3 DEF SignHash
<1>5. ASSUME NEW h \in Header, NEW d \in Data, SignChunk(h, d)
      PROVE  EndIsShown' /\ SuccessIsEarned' /\ Restored
  <2> DEFINE r == HandleChunk(ctx, First(h), d)
             c == [r.ctx EXCEPT !.review_finished = TRUE]
  <2>1. ins' = h /\ h.ins \in Chunked /\ phase = "next_command"
    BY <1>5 DEF SignChunk, Take
  <2>2. r.ctx \in Context
    <3>1. ctx \in Context /\ Len(ctx.raw_data) <= MAX
      BY DEF IInv, TypeOK
    <3>2. First(h) \in BOOLEAN /\ d \in Seq(Symbol) \cup {Malformed}
      BY SessionAssumption DEF First
    <3> QED
      BY <3>1, <3>2, HandleChunkType
  <2>3. c.review_finished
    BY <2>2 DEF Context
  <2>4. CASE ctx' = r.ctx /\ Finish(h, r.sw, Nothing, r.ctx) /\ (r.sw # "Ok" \/ More(h))
    <3>1. CASE r.sw # "Ok"
      BY <2>1, <2>4, <3>1, <1>s, FinishEarned
    <3>2. CASE r.sw = "Ok" /\ More(h) /\ First(h)
      <4>1. ~r.ctx.review_finished
        BY <3>2, FirstChunkUnfinished
      <4>2. ~ShowsStatus(h, r.sw, r.ctx)
        BY <2>1, <4>1 DEF ShowsStatus, Chunked, INS_GET_PK, INS_SIGN_HASH,
                          INS_SIGN_TX, INS_SIGN_SOROBAN_AUTH, INS_SIGN_MESSAGE
      <4> QED
        BY <2>1, <2>4, <4>2, <1>s, FinishEarned
    <3>3. CASE r.sw = "Ok" /\ More(h) /\ ~First(h)
      <4>1. CASE r.ctx.review_finished
        BY <2>1, <2>4, <3>3, <4>1, <1>s, FinishEarned
      <4>2. CASE ~r.ctx.review_finished
        <5>1. ~ShowsStatus(h, r.sw, r.ctx)
          BY <2>1, <4>2 DEF ShowsStatus, Chunked, INS_GET_PK, INS_SIGN_HASH,
                            INS_SIGN_TX, INS_SIGN_SOROBAN_AUTH, INS_SIGN_MESSAGE
        <5> QED
          BY <2>1, <2>4, <5>1, <1>s, FinishEarned
      <4> QED
        BY <4>1, <4>2
    <3> QED
      BY <2>1, <2>4, <3>1, <3>2, <3>3
  <2>5. ASSUME ctx' = c, NEW sw, sw # "Ok", Finish(h, sw, Nothing, c)
        PROVE  EndIsShown' /\ SuccessIsEarned'
    BY <2>1, <2>5, <1>s, FinishEarned
  <2>6. ASSUME ctx' = c, NEW q, NEW stack, Show(q, stack)
        PROVE  EndIsShown' /\ SuccessIsEarned'
    BY <2>1, <2>3, <2>6 DEF Show, EndIsShown, SuccessIsEarned, Chunked, INS_GET_PK,
                      INS_SIGN_TX, INS_SIGN_SOROBAN_AUTH, INS_SIGN_MESSAGE
  <2>7. \/ /\ r.sw # "Ok" \/ More(h)
           /\ ctx' = r.ctx /\ Finish(h, r.sw, Nothing, r.ctx)
        \/ /\ ctx' = c
           /\ \E sw \in Outcomes(h.ins, c) :
                IF sw = "Ok"
                THEN LET q == Req(h.ins, c.path, c.raw_data) IN
                     Show(q, IF h.ins = INS_SIGN_MESSAGE THEN q ELSE NoRequest)
                ELSE Finish(h, sw, Nothing, c)
    BY <1>5 DEF SignChunk
  <2> QED
    BY <2>1, <2>4, <2>5, <2>6, <2>7
<1>6. CASE Approve
  BY <1>6 DEF Approve, EndIsShown, InReview, SuccessIsEarned
<1>7. CASE Reject
  <2>1. /\ Finish(ins, "Deny", Nothing, ctx) /\ ctx' = ctx /\ ins' = ins
        /\ InReview
    BY <1>7 DEF Reject, InReview
  <2>2. ShowsStatus(ins, "Deny", ctx)
    BY <2>1, WaitingIns DEF ShowsStatus, EndIsShown, Signing
  <2> QED
    BY <2>1, <2>2, <1>s, FinishEarned, FinishRestores
<1>8. CASE ToggleBlindSigning
  BY <1>8 DEF ToggleBlindSigning, EndIsShown, InReview, SuccessIsEarned
<1>9. CASE Dismiss
  BY <1>9 DEF Dismiss, EndIsShown, InReview, SuccessIsEarned
<1>10. CASE Complete
  <2>1. ctx' = ctx /\ ins' = ins /\ InReview
    BY <1>10 DEF Complete, InReview
  <2>2. ShowsStatus(ins, "Ok", ctx)
    BY <2>1, WaitingIns DEF ShowsStatus, EndIsShown, Signing
  <2>3. ASSUME NEW rdata, rdata # Nothing, Finish(ins, "Ok", rdata, ctx)
        PROVE  EndIsShown' /\ SuccessIsEarned' /\ Restored
    BY <2>1, <2>2, <2>3, <1>s, FinishEarned, FinishRestores
  <2>4. ASSUME NEW sw \in CryptoFailure, Finish(ins, sw, Nothing, ctx)
        PROVE  EndIsShown' /\ SuccessIsEarned' /\ Restored
    <3>1. sw # "Ok"
      BY DEF CryptoFailure
    <3> QED
      BY <2>1, <2>4, <3>1, <1>s, FinishEarned, FinishRestores
  <2>5. PublicKey(local.path) # Nothing /\ Signature(ToSign) # Nothing
    BY DEF PublicKey, Signature, Nothing
  <2>6. "DataHashFail" \in CryptoFailure /\ "DataSignFail" \in CryptoFailure
    BY DEF CryptoFailure
  <2> QED
    BY <1>10, <2>3, <2>4, <2>5, <2>6 DEF Complete
<1>11. CASE Restart
  BY <1>11 DEF Restart, EndIsShown, InReview, SuccessIsEarned
<1>12. CASE UNCHANGED vars
  BY <1>12 DEF vars, EndIsShown, InReview, SuccessIsEarned
<1> QED
  BY <1>1, <1>2, <1>3, <1>4, <1>5, <1>6, <1>7, <1>8, <1>9, <1>10, <1>11, <1>12
     DEF Next, Command, User

LEMMA ScreenInvariance == Spec => [](EndIsShown /\ SuccessIsEarned)
  BY ScreenInit, ScreenStep, Invariance, PTL DEF Spec

\* Whatever the host sends, the device never reports a success for a command
\* that answered with neither a signature nor an address, but for a chunk that
\* continues a request already decided.
THEOREM SuccessSafety == Spec => []SuccessIsEarned
  BY ScreenInvariance, PTL

\* Whatever ends a handler that took the display, the home screen is drawn
\* before the next command is taken, or a cryptographic call has failed.
THEOREM HomeSafety == Spec => HomeRestored
<1> DEFINE Restored == phase # "next_command" /\ phase' = "next_command"
                         => screen' = "home" \/ reply'.sw \in CryptoFailure
<1>1. IInv /\ EndIsShown /\ SuccessIsEarned /\ [Next]_vars => [Restored]_vars
  BY ScreenStep
<1> QED
  BY <1>1, ScreenInvariance, Invariance, PTL DEF Spec, HomeRestored

-----------------------------------------------------------------------------
(* AppSession implements SigningPromise: each step of the application is a   *)
(* step of the promise or changes nothing the promise speaks of.             *)

\* A reply without a signature withdraws whatever was asked.
LEMMA FinishWithdraws ==
  ASSUME NEW h, NEW sw, NEW rdata, NEW c,
         Finish(h, sw, rdata, c), rdata.type # "signature"
  PROVE  ImplementsPromise!Withdraw
<1>1. ~InReview' /\ phase' # "sign" /\ blind_signing' = blind_signing
  BY DEF Finish, InReview
<1>2. ~HasSignature'
  BY DEF Finish, Reply, HasSignature
<1> QED
  BY <1>1, <1>2 DEF ImplementsPromise!Withdraw

\* Showing a signing request asks for it.
LEMMA ShowAsks ==
  ASSUME phase = "next_command", NEW r \in Request, NEW stack, Show(r, stack),
         ins'.ins \in Signing, r \in BlindRequest => blind_signing
  PROVE  ImplementsPromise!Ask
<1>1. /\ InReview' /\ phase' # "sign" /\ shown' = r
      /\ blind_signing' = blind_signing
  BY DEF Show, InReview
<1>2. ~HasSignature'
  BY DEF Show, NoReply, Nothing, HasSignature
<1>3. ~InReview
  BY DEF InReview
<1> QED
  BY <1>1, <1>2, <1>3 DEF ImplementsPromise!Ask

\* The other answers are no signatures.
LEMMA NotSignature ==
  /\ Nothing.type # "signature"
  /\ \A p : PublicKey(p).type # "signature"
  /\ \A b : Configuration(b).type # "signature"
BY DEF Nothing, PublicKey, Configuration

ToSignIsRequest == IInv /\ InReview /\ ins.ins \in Signing => ToSign \in Request

LEMMA ToSignTypeNext == ToSignIsRequest'
<1>1. ToSignIsRequest
  BY ToSignType DEF ToSignIsRequest
<1> QED
  BY <1>1, PTL

LEMMA StepPromise ==
  IInv /\ IInv' /\ [Next]_vars
    => [ImplementsPromise!Next]_(ImplementsPromise!promiseVars)
<1> SUFFICES ASSUME IInv, IInv', [Next]_vars
             PROVE  ImplementsPromise!Next \/ UNCHANGED ImplementsPromise!promiseVars
  OBVIOUS
<1> USE DEF ImplementsPromise!Next
<1>1. ASSUME NEW h \in Header, RejectHeader(h)
      PROVE  ImplementsPromise!Withdraw
  <2>1. ~InReview' /\ phase' # "sign" /\ blind_signing' = blind_signing
    BY <1>1 DEF RejectHeader, InReview
  <2>2. ~HasSignature'
    BY <1>1 DEF RejectHeader, Reply, Nothing, HasSignature
  <2> QED
    BY <2>1, <2>2 DEF ImplementsPromise!Withdraw
<1>2. ASSUME NEW h \in Header, GetConfiguration(h)
      PROVE  ImplementsPromise!Withdraw
  BY <1>2, FinishWithdraws, NotSignature DEF GetConfiguration
<1>3. ASSUME NEW h \in Header, NEW d \in Data, GetPublicKey(h, d)
      PROVE  ImplementsPromise!Withdraw
  <2>1. ASSUME NEW r, Show(r, r) PROVE ImplementsPromise!Withdraw
    <3>1. ins'.ins \notin Signing
      BY <1>3 DEF GetPublicKey, Take, Signing, Chunked, INS_GET_PK,
                  INS_SIGN_HASH, INS_SIGN_SOROBAN_AUTH, INS_SIGN_TX,
                  INS_SIGN_MESSAGE
    <3>2. ~HasSignature' /\ blind_signing' = blind_signing
      BY <2>1 DEF Show, NoReply, Nothing, HasSignature
    <3> QED
      BY <3>1, <3>2 DEF ImplementsPromise!Withdraw
  <2> QED
    BY <1>3, <2>1, FinishWithdraws, NotSignature DEF GetPublicKey
<1>4. ASSUME NEW h \in Header, NEW d \in Data, SignHash(h, d)
      PROVE  ImplementsPromise!Withdraw \/ ImplementsPromise!Ask
  <2>1. ASSUME NEW r, Show(r, r), r = Req(h.ins, Head(d), Tail(d)),
               HasPath(d), Tail(d) \in Hashes, blind_signing
        PROVE  ImplementsPromise!Ask
    <3>1. ins'.ins \in Signing /\ h.ins \in KnownIns /\ phase = "next_command"
      BY <1>4 DEF SignHash, Take, Signing, KnownIns
    <3>2. r \in Request
      BY <2>1, <3>1, SessionAssumption DEF HasPath, Req, Request
    <3> QED
      BY <2>1, <3>1, <3>2, ShowAsks
  <2> QED
    BY <1>4, <2>1, FinishWithdraws, NotSignature DEF SignHash
<1>5. ASSUME NEW h \in Header, NEW d \in Data, SignChunk(h, d)
      PROVE  ImplementsPromise!Withdraw \/ ImplementsPromise!Ask
  <2>1. ASSUME NEW r, NEW stack, Show(r, stack)
        PROVE  ImplementsPromise!Ask
    <3>1. ins'.ins \in Signing /\ phase = "next_command"
      BY <1>5 DEF SignChunk, Take, Signing
    <3>2. InReview' /\ shown' = r /\ blind_signing' = blind_signing
      BY <2>1 DEF Show, InReview
    <3>3. r \in Request
      <4>1. ToSign' \in Request
        BY <3>1, <3>2, ToSignTypeNext DEF ToSignIsRequest
      <4> QED
        BY <3>1, <3>2, <4>1 DEF IInv, ReviewedIsSigned
    <3>4. r \in BlindRequest => blind_signing
      BY <3>2 DEF IInv, BlindOnlyWhenEnabled
    <3> QED
      BY <2>1, <3>1, <3>3, <3>4, ShowAsks
  <2> QED
    BY <1>5, <2>1, FinishWithdraws, NotSignature DEF SignChunk
<1>6. CASE Approve
  <2>1. CASE ins.ins \in Signing
    <3>1. shown \in Request
      BY <1>6, <2>1, ToSignType DEF Approve, InReview, IInv, ReviewedIsSigned
    <3>2. shown # NoRequest
      BY <3>1, NoRequestAssumption
    <3> QED
      BY <1>6, <2>1, <3>2
         DEF Approve, InReview, HasSignature, ImplementsPromise!Agree
  <2>2. CASE ins.ins \notin Signing
    BY <1>6, <2>2
       DEF Approve, InReview, HasSignature, ImplementsPromise!promiseVars
  <2> QED
    BY <2>1, <2>2
<1>7. CASE Reject
  BY <1>7, FinishWithdraws, NotSignature DEF Reject
<1>8. CASE ToggleBlindSigning
  BY <1>8 DEF ToggleBlindSigning, InReview, HasSignature,
              ImplementsPromise!Configure
<1>9. CASE Dismiss
  BY <1>9 DEF Dismiss, InReview, HasSignature, ImplementsPromise!promiseVars
<1>10. CASE Complete
  <2>1. ASSUME ins.ins # INS_GET_PK, Finish(ins, "Ok", Signature(ToSign), ctx)
        PROVE  ImplementsPromise!Release
    <3>1. InReview /\ phase = "sign"
      BY <1>10 DEF Complete, InReview
    <3>2. ins.ins \in Signing
      BY <2>1, <3>1 DEF IInv, TypeOK, StackOK, Accepted, Signing
    <3>3. shown = ToSign
      BY <3>1, <3>2 DEF IInv, ReviewedIsSigned
    <3>4. HasSignature' /\ reply'.rdata.req = ToSign
      BY <2>1 DEF Finish, Reply, Signature, HasSignature
    <3>5. ~InReview' /\ phase' # "sign" /\ blind_signing' = blind_signing
      BY <2>1 DEF Finish, InReview
    <3> QED
      BY <3>1, <3>2, <3>3, <3>4, <3>5 DEF ImplementsPromise!Release
  <2> QED
    BY <1>10, <2>1, FinishWithdraws, NotSignature DEF Complete
<1>11. CASE Restart
  BY <1>11 DEF Restart, NoReply, Nothing, InReview, HasSignature,
               ImplementsPromise!Withdraw
<1>12. CASE UNCHANGED vars
  BY <1>12 DEF vars, InReview, HasSignature, ImplementsPromise!promiseVars
<1> QED
  BY <1>1, <1>2, <1>3, <1>4, <1>5, <1>6, <1>7, <1>8, <1>9, <1>10, <1>11, <1>12
     DEF Next, Command, User

LEMMA InitPromise == Init => ImplementsPromise!Init
BY DEF Init, InReview, HasSignature, NoReply, Nothing, ImplementsPromise!Init

\* Whatever the host sends, a signature leaves the device only for the request
\* that was on the screen when the user approved it, once per approval, and a
\* request not shown in clear was put there with blind signing enabled.
THEOREM PromiseKept == Spec => KeepsPromise
<1>1. Spec => []IInv
  BY Invariance
<1> QED
  BY <1>1, InitPromise, StepPromise, PTL DEF Spec, KeepsPromise, ImplementsPromise!Spec

-----------------------------------------------------------------------------
(* The client. *)


\* The first k pieces of the job under way.
Prefix(k) == FlattenSeq(SubSeq(job.chunks, 1, k))

\* The buffer holds the first k pieces, unless the path was lost.
Holds(k) ==
  ctx.path # DefaultPath => ctx.path = job.path /\ ctx.raw_data = Prefix(k)

Whole == Req(job.ins, job.path, FlattenSeq(job.chunks))

\* An answer that reports no error means that the piece was stored or, for the
\* last one, that the whole was signed.
AnswerIsEarned ==
  pc = "waiting" /\ reply.sent /\ reply.sw = "Ok" =>
    IF next < Len(job.chunks) THEN Holds(next) ELSE reply.rdata = Signature(Whole)

\* A review that starts while the client waits is a review of what it sent.
ReviewIsOfJob ==
  pc = "waiting" /\ InReview =>
    /\ next = Len(job.chunks) /\ Holds(next)
    /\ ins.ins = job.ins
    /\ shown = Req(job.ins, ctx.path, ctx.raw_data)

TransferInv ==
  /\ IInv
  /\ TransferTypeOK
  /\ BufferIsAcknowledgedPrefix
  /\ AnswerIsEarned
  /\ ReviewIsOfJob
  /\ DeliveredWhole

-----------------------------------------------------------------------------
(* Concatenating the pieces. *)

\* All the pieces of a job are the whole of it.
LEMMA WholePrefix ==
  ASSUME job \in Job
  PROVE  Prefix(Len(job.chunks)) = FlattenSeq(job.chunks)
<1>1. job.chunks \in Seq(Seq(Symbol))
  BY TransferAssumption
<1> QED
  BY <1>1, SubSeqFull DEF Prefix

LEMMA NoPrefix ==
  ASSUME job \in Job
  PROVE  Prefix(0) = << >>
<1>1. job.chunks \in Seq(Seq(Symbol))
  BY TransferAssumption
<1>2. SubSeq(job.chunks, 1, 0) = << >>
  BY SubSeqEmpty
<1> QED
  BY <1>2 DEF Prefix, FlattenSeq

LEMMA LongerPrefix ==
  ASSUME job \in Job, NEW k \in 1..Len(job.chunks)
  PROVE  Prefix(k) = Prefix(k - 1) \o job.chunks[k]
<1>1. job.chunks \in Seq(Seq(Symbol))
  BY TransferAssumption
<1> QED
  BY <1>1, FlattenStep DEF Prefix

-----------------------------------------------------------------------------
(* The client's APDUs. *)

LEMMA JobFacts ==
  ASSUME job \in Job
  PROVE  /\ job.ins \in Chunked /\ job.path \in Path
         /\ job.chunks \in Seq(Seq(Symbol))
         /\ Len(job.chunks) \in Nat /\ Len(job.chunks) > 0
<1>1. job.chunks \in Seq(Seq(Symbol)) /\ job.chunks # << >>
  BY TransferAssumption
<1> QED
  BY <1>1, TransferAssumption

\* The headers of a job are accepted, and say where a piece stands in it.
LEMMA ApduFacts ==
  ASSUME job \in Job, next \in 0..Len(job.chunks)
  PROVE  LET h == HeaderOf(job, next)
             d == DataOf(job, next)
         IN  /\ h \in [ins: Nat, p1: Nat, p2: Nat] /\ h.ins = job.ins
             /\ First(h) <=> next = 0
             /\ More(h) <=> next < Len(job.chunks)
             /\ d \in Seq(Symbol)
             /\ d = IF next = 0 THEN <<job.path>> ELSE job.chunks[next]
<1>1. job.ins \in Nat
  BY JobFacts DEF Chunked, INS_SIGN_TX, INS_SIGN_SOROBAN_AUTH, INS_SIGN_MESSAGE
<1>2. <<job.path>> \in Seq(Symbol)
  BY JobFacts DEF Symbol
<1>3. next # 0 => job.chunks[next] \in Seq(Symbol)
  BY JobFacts
<1>4. next < Len(job.chunks) <=> next # Len(job.chunks)
  BY JobFacts
<1> QED
  BY <1>1, <1>2, <1>3, <1>4
     DEF HeaderOf, DataOf, First, More, P1_FIRST_APDU, P1_MORE_APDU,
         P2_LAST_APDU, P2_MORE_APDU

\* A piece that is accepted makes the buffer one piece longer.
LEMMA StoredPiece ==
  ASSUME IInv, job \in Job, next \in 0..Len(job.chunks),
         next > 0 => Holds(next - 1),
         HandleChunk(ctx, First(HeaderOf(job, next)), DataOf(job, next)).sw = "Ok"
  PROVE  LET c == HandleChunk(ctx, First(HeaderOf(job, next)),
                              DataOf(job, next)).ctx
         IN  c.path # DefaultPath => /\ c.path = job.path
                                     /\ c.raw_data = Prefix(next)
<1> DEFINE h == HeaderOf(job, next)
           d == DataOf(job, next)
           c == HandleChunk(ctx, First(h), d).ctx
<1>1. /\ First(h) <=> next = 0
      /\ First(h) \in BOOLEAN /\ d \in Seq(Symbol)
      /\ d = IF next = 0 THEN <<job.path>> ELSE job.chunks[next]
  BY ApduFacts DEF First
<1>2. ctx \in Context
  BY DEF IInv, TypeOK
<1>3. /\ c.raw_data = KeptBy(First(h), ctx) \o PayloadOf(First(h), d)
      /\ c.path = IF First(h) THEN Head(d) ELSE ctx.path
  <2> DEFINE first == First(h)
             r == HandleChunk(ctx, first, d)
  <2>1. first \in BOOLEAN /\ d \in Seq(Symbol) \cup {Malformed} /\ r.sw = "Ok"
    BY <1>1
  <2> HIDE DEF first, d
  <2>2. /\ r.ctx.raw_data = KeptBy(first, ctx) \o PayloadOf(first, d)
        /\ r.ctx.path = IF first THEN Head(d) ELSE ctx.path
    BY <1>2, <2>1, AcceptedChunk, SMTT(40)
  <2> QED
    BY <2>2 DEF first, d
<1> HIDE DEF c, d, h
<1>4. CASE next = 0
  <2>1. c.raw_data = << >> \o Tail(<<job.path>>) /\ c.path = job.path
    BY <1>1, <1>3, <1>4 DEF KeptBy, PayloadOf
  <2>2. << >> \o Tail(<<job.path>>) = << >>
    OBVIOUS
  <2> QED
    BY <1>4, <2>1, <2>2, NoPrefix DEF c, d, h
<1>5. CASE next # 0
  <2>1. next > 0 /\ next \in 1..Len(job.chunks)
    BY <1>5, JobFacts
  <2>2. c.raw_data = ctx.raw_data \o job.chunks[next] /\ c.path = ctx.path
    BY <1>1, <1>3, <1>5 DEF KeptBy, PayloadOf
  <2>3. ctx.path # DefaultPath => /\ ctx.path = job.path
                                  /\ ctx.raw_data = Prefix(next - 1)
    BY <2>1 DEF Holds
  <2> QED
    BY <2>1, <2>2, <2>3, LongerPrefix DEF c, d, h
<1> QED
  BY <1>4, <1>5

-----------------------------------------------------------------------------
(* The invariant. *)

LEMMA TransferInitInv == TransferInit => TransferInv
<1> SUFFICES ASSUME TransferInit PROVE TransferInv
  OBVIOUS
<1>1. IInv
  BY InitInv DEF TransferInit
<1>2. TransferTypeOK
  BY <1>1, JobFacts DEF TransferInit, TransferTypeOK, IInv
<1> QED
  BY <1>1, <1>2 DEF TransferInit, TransferInv, BufferIsAcknowledgedPrefix,
                    AnswerIsEarned, ReviewIsOfJob, DeliveredWhole

\* Sending a piece: it is refused, or stored with more to follow, or it is the
\* last one and a review of the whole starts.
LEMMA SendInv == ASSUME TransferInv, Send PROVE TransferInv'
<1> DEFINE h == HeaderOf(job, next)
           d == DataOf(job, next)
           r == HandleChunk(ctx, First(h), d)
           c == [r.ctx EXCEPT !.review_finished = TRUE]
<1>1. /\ IInv /\ job \in Job /\ next \in 0..Len(job.chunks)
      /\ next > 0 => Holds(next - 1)
  BY DEF TransferInv, TransferTypeOK, BufferIsAcknowledgedPrefix, Send, Holds,
         Prefix
<1>2. /\ h \in [ins: Nat, p1: Nat, p2: Nat] /\ h.ins = job.ins
      /\ First(h) <=> next = 0
      /\ More(h) <=> next < Len(job.chunks)
      /\ d \in Seq(Symbol)
  BY <1>1, ApduFacts
<1>3. /\ SignChunk(h, d) /\ pc' = "waiting"
      /\ job' = job /\ next' = next /\ result' = result
  BY DEF Send
<1>4. r.sw = "Ok" => (r.ctx.path # DefaultPath => /\ r.ctx.path = job.path
                                                  /\ r.ctx.raw_data = Prefix(next))
  BY <1>1, StoredPiece
<1>5. r.ctx \in Context
  <2>1. ctx \in Context /\ Len(ctx.raw_data) <= MAX
    BY <1>1 DEF IInv, TypeOK
  <2>2. First(h) \in BOOLEAN /\ d \in Seq(Symbol) \cup {Malformed}
    BY <1>2 DEF First
  <2> QED
    BY <2>1, <2>2, HandleChunkType
<1>6. \/ /\ r.sw # "Ok" \/ More(h)
         /\ ctx' = r.ctx /\ Finish(h, r.sw, Nothing, r.ctx)
      \/ /\ r.sw = "Ok" /\ ~More(h) /\ ctx' = c
         /\ \E sw \in Outcomes(h.ins, c) :
              IF sw = "Ok"
              THEN LET q == Req(h.ins, c.path, c.raw_data) IN
                   Show(q, IF h.ins = INS_SIGN_MESSAGE THEN q ELSE NoRequest)
              ELSE Finish(h, sw, Nothing, c)
  BY <1>3 DEF SignChunk
<1>7. IInv' /\ ins' = h
  BY <1>1, <1>2, <1>3, SignChunkInv DEF SignChunk, Take
<1>8. TransferTypeOK'
  BY <1>1, <1>3, <1>7 DEF TransferTypeOK, IInv
<1>9. Prefix(next)' = Prefix(next)
  BY <1>3 DEF Prefix
<1>10. c.path = r.ctx.path /\ c.raw_data = r.ctx.raw_data
  BY <1>5 DEF Context
<1> HIDE DEF c, r, d, h
<1>11. ASSUME NEW sw, NEW e, Finish(h, sw, Nothing, e)
       PROVE  /\ ~InReview' /\ reply'.sw = sw
  BY <1>11 DEF Finish, Reply, InReview
<1>12. AnswerIsEarned' /\ ReviewIsOfJob'
  <2>1. CASE r.sw # "Ok" /\ Finish(h, r.sw, Nothing, r.ctx)
    BY <1>11, <2>1 DEF AnswerIsEarned, ReviewIsOfJob
  <2>2. CASE /\ r.sw = "Ok" /\ More(h) /\ ctx' = r.ctx
             /\ Finish(h, r.sw, Nothing, r.ctx)
    <3>1. Holds(next)'
      BY <1>3, <1>4, <1>9, <2>2 DEF Holds
    <3>2. next' < Len(job'.chunks)
      BY <1>2, <1>3, <2>2
    <3> QED
      BY <1>11, <2>2, <3>1, <3>2 DEF AnswerIsEarned, ReviewIsOfJob
  <2>3. ASSUME NEW sw, sw # "Ok", Finish(h, sw, Nothing, c)
        PROVE  AnswerIsEarned' /\ ReviewIsOfJob'
    BY <1>11, <2>3 DEF AnswerIsEarned, ReviewIsOfJob
  <2>4. ASSUME NEW stack, r.sw = "Ok", ~More(h), ctx' = c,
               Show(Req(h.ins, c.path, c.raw_data), stack)
        PROVE  AnswerIsEarned' /\ ReviewIsOfJob'
    <3>1. Holds(next)'
      BY <1>3, <1>4, <1>9, <1>10, <2>4 DEF Holds
    <3>2. next' = Len(job'.chunks)
      BY <1>1, <1>2, <1>3, <2>4, JobFacts
    <3>3. shown' = Req(job'.ins, ctx'.path, ctx'.raw_data) /\ ~reply'.sent
      BY <1>2, <1>3, <2>4 DEF Show, NoReply
    <3>4. ins'.ins = job'.ins
      BY <1>2, <1>3, <1>7
    <3> QED
      BY <3>1, <3>2, <3>3, <3>4 DEF AnswerIsEarned, ReviewIsOfJob
  <2> QED
    BY <1>6, <2>1, <2>2, <2>3, <2>4
<1>13. BufferIsAcknowledgedPrefix' /\ DeliveredWhole'
  BY <1>3 DEF BufferIsAcknowledgedPrefix, DeliveredWhole
<1> QED
  BY <1>7, <1>8, <1>12, <1>13 DEF TransferInv

\* The application is left as it is.
LEMMA SessionKept ==
  ASSUME IInv, UNCHANGED vars
  PROVE  IInv' /\ (TypeOK => TypeOK')
<1>1. [Next]_vars
  OBVIOUS
<1>2. IInv'
  BY <1>1, StepInv
<1> QED
  BY <1>2 DEF IInv

\* The client takes an answer, starts a job, or finds the application gone.
LEMMA ClientInv ==
  ASSUME TransferInv,
         (\E j \in Job : StartJob(j)) \/ Receive \/ ConnectionLost
  PROVE  TransferInv'
<1>1. /\ IInv /\ job \in Job /\ next \in 0..Len(job.chunks)
      /\ pc \in {"idle", "sending", "waiting", "done", "failed"}
  BY DEF TransferInv, TransferTypeOK
<1>2. UNCHANGED vars
  BY DEF StartJob, Receive, ConnectionLost
<1>3. IInv' /\ TypeOK'
  BY <1>1, <1>2, SessionKept DEF IInv
<1>4. ctx' = ctx /\ reply' = reply /\ phase' = phase /\ ins' = ins /\ shown' = shown
  BY <1>2 DEF vars
<1>5. ASSUME NEW j \in Job, StartJob(j)
      PROVE  TransferInv'
  <2>1. pc' = "sending" /\ job' = j /\ next' = 0
    BY <1>5 DEF StartJob
  <2>2. Len(j.chunks) \in Nat
    BY TransferAssumption
  <2> QED
    BY <1>3, <2>1, <2>2 DEF TransferInv, TransferTypeOK,
       BufferIsAcknowledgedPrefix, AnswerIsEarned, ReviewIsOfJob, DeliveredWhole
<1>6. CASE Receive
  <2>1. pc = "waiting" /\ reply.sent /\ job' = job
    BY <1>6 DEF Receive
  <2>2. CASE pc' = "failed" /\ next' = next
    BY <1>1, <1>3, <2>1, <2>2 DEF TransferInv, TransferTypeOK,
       BufferIsAcknowledgedPrefix, AnswerIsEarned, ReviewIsOfJob, DeliveredWhole
  <2>3. CASE /\ reply.sw = "Ok" /\ next < Len(job.chunks)
             /\ pc' = "sending" /\ next' = next + 1
    <3>1. next' \in 0..Len(job'.chunks) /\ next' - 1 = next
      BY <1>1, <2>1, <2>3, JobFacts
    <3>2. Holds(next)
      BY <2>1, <2>3 DEF TransferInv, AnswerIsEarned
    <3>3. BufferIsAcknowledgedPrefix'
      BY <1>4, <2>1, <3>1, <3>2 DEF BufferIsAcknowledgedPrefix, Holds, Prefix
    <3> QED
      BY <1>1, <1>3, <2>1, <2>3, <3>1, <3>3 DEF TransferInv, TransferTypeOK,
         AnswerIsEarned, ReviewIsOfJob, DeliveredWhole
  <2>4. CASE /\ reply.sw = "Ok" /\ next = Len(job.chunks)
             /\ pc' = "done" /\ result' = reply.rdata /\ next' = next
    <3>1. reply.rdata = Signature(Whole)
      <4>1. ~(next < Len(job.chunks))
        BY <1>1, <2>4, JobFacts
      <4> QED
        BY <2>1, <2>4, <4>1 DEF TransferInv, AnswerIsEarned
    <3>2. DeliveredWhole'
      BY <2>1, <2>4, <3>1 DEF DeliveredWhole, Whole, Signature, Req
    <3> QED
      BY <1>1, <1>3, <2>1, <2>4, <3>2 DEF TransferInv, TransferTypeOK,
         BufferIsAcknowledgedPrefix, AnswerIsEarned, ReviewIsOfJob
  <2> QED
    BY <1>6, <2>2, <2>3, <2>4 DEF Receive
<1>7. CASE ConnectionLost
  BY <1>1, <1>3, <1>7 DEF ConnectionLost, TransferInv, TransferTypeOK,
     BufferIsAcknowledgedPrefix, AnswerIsEarned, ReviewIsOfJob, DeliveredWhole
<1> QED
  BY <1>5, <1>6, <1>7

\* What others do to the application leaves the job's buffer, or loses its path.
LEMMA BufferKept ==
  ASSUME NEW k, Holds(k), job' = job, ctx' = ctx \/ ctx' = EmptyContext
  PROVE  Holds(k)'
<1>1. Prefix(k)' = Prefix(k)
  BY DEF Prefix
<1>2. EmptyContext.path = DefaultPath
  BY DEF EmptyContext
<1> QED
  BY <1>1, <1>2 DEF Holds

\* A step of the application alone while the client does not wait.
LEMMA NotWaitingInv ==
  ASSUME TransferInv, [Next]_vars, UNCHANGED clientVars, pc # "waiting",
         ctx' = ctx \/ ctx' = EmptyContext
  PROVE  TransferInv'
<1>1. IInv' /\ TypeOK'
  BY StepInv DEF TransferInv, IInv
<1>2. pc' = pc /\ job' = job /\ next' = next /\ result' = result
  BY DEF clientVars
<1>3. TransferTypeOK'
  BY <1>1, <1>2 DEF TransferInv, TransferTypeOK
<1>4. BufferIsAcknowledgedPrefix'
  <2>1. ASSUME pc = "sending", next > 0
        PROVE  Holds(next - 1)'
    <3>1. Holds(next - 1)
      BY <2>1 DEF TransferInv, BufferIsAcknowledgedPrefix, Holds, Prefix
    <3> QED
      BY <1>2, <3>1, BufferKept
  <2> QED
    BY <1>2, <2>1 DEF BufferIsAcknowledgedPrefix, Holds, Prefix
<1>5. AnswerIsEarned' /\ ReviewIsOfJob'
  BY <1>2 DEF AnswerIsEarned, ReviewIsOfJob
<1>6. DeliveredWhole'
  BY <1>2 DEF TransferInv, DeliveredWhole
<1> QED
  BY <1>1, <1>3, <1>4, <1>5, <1>6 DEF TransferInv

\* No command that is not chunked writes to the buffer.
LEMMA OtherProgramInv == ASSUME TransferInv, OtherProgram PROVE TransferInv'
<1>1. PICK h \in Bystander :
        \/ RejectHeader(h)
        \/ GetConfiguration(h)
        \/ \E d \in Data : GetPublicKey(h, d) \/ SignHash(h, d)
  BY DEF OtherProgram
<1>2. h \in Header
  BY TransferAssumption
<1>3. Next
  BY <1>1, <1>2 DEF Next, Command
<1>4. ctx' = ctx \/ ctx' = EmptyContext
  BY <1>1 DEF RejectHeader, GetConfiguration, GetPublicKey, SignHash, Reset
<1> QED
  BY <1>3, <1>4, NotWaitingInv DEF OtherProgram

\* The approved review of a job ends with the signature of the whole of it.
LEMMA JobSigned ==
  ASSUME TransferInv, pc = "waiting", InReview, ToSign.path \in PermittedPaths
  PROVE  ToSign = Whole
<1>1. /\ next = Len(job.chunks) /\ Holds(next) /\ job \in Job
      /\ ins.ins = job.ins /\ shown = Req(job.ins, ctx.path, ctx.raw_data)
  BY DEF TransferInv, ReviewIsOfJob, TransferTypeOK
<1>2. ins.ins \in Signing
  BY <1>1, JobFacts DEF Signing
<1>3. shown = ToSign
  BY <1>2 DEF TransferInv, IInv, ReviewedIsSigned
<1>4. ctx.path \in PermittedPaths
  BY <1>1, <1>3 DEF Req
<1>5. ctx.path # DefaultPath
  BY <1>4, SessionAssumption, ContextAssumption DEF Symbol
<1> QED
  BY <1>1, <1>3, <1>5, WholePrefix DEF Holds, Whole

\* The user, the rest of a handler, and a restart.
LEMMA DeviceInv == ASSUME TransferInv, Device PROVE TransferInv'
<1>1. Next /\ UNCHANGED clientVars
  BY DEF Device, Next
<1>2. pc' = pc /\ job' = job /\ next' = next /\ result' = result
  BY <1>1 DEF clientVars
<1>3. ctx' = ctx \/ ctx' = EmptyContext
  BY DEF Device, User, Approve, Reject, Dismiss, ToggleBlindSigning, Complete,
         Restart
<1>4. CASE pc # "waiting"
  BY <1>1, <1>3, <1>4, NotWaitingInv
<1>5. CASE pc = "waiting"
  <2>1. IInv' /\ TypeOK'
    BY <1>1, StepInv DEF TransferInv, IInv
  <2>2. TransferTypeOK'
    BY <1>2, <2>1 DEF TransferInv, TransferTypeOK
  <2>3. BufferIsAcknowledgedPrefix' /\ DeliveredWhole'
    BY <1>2, <1>5 DEF BufferIsAcknowledgedPrefix, DeliveredWhole
  <2> SUFFICES AnswerIsEarned' /\ ReviewIsOfJob'
    BY <2>1, <2>2, <2>3 DEF TransferInv
  <2>4. ASSUME ~InReview', ~(reply'.sent /\ reply'.sw = "Ok")
        PROVE  AnswerIsEarned' /\ ReviewIsOfJob'
    BY <2>4 DEF AnswerIsEarned, ReviewIsOfJob
  <2>5. ASSUME NEW sw, NEW rdata, sw # "Ok", Finish(ins, sw, rdata, ctx)
        PROVE  AnswerIsEarned' /\ ReviewIsOfJob'
    BY <2>4, <2>5 DEF Finish, Reply, InReview
  <2>6. CASE Approve
    <3>1. /\ ctx' = ctx /\ ins' = ins /\ shown' = shown /\ reply' = reply
          /\ InReview
      BY <2>6 DEF Approve, InReview
    <3>2. /\ next = Len(job.chunks) /\ Holds(next)
          /\ ins.ins = job.ins /\ shown = Req(job.ins, ctx.path, ctx.raw_data)
      BY <1>5, <3>1 DEF TransferInv, ReviewIsOfJob
    <3>3. Holds(next)'
      BY <1>2, <3>1, <3>2 DEF Holds, Prefix
    <3>4. ReviewIsOfJob'
      BY <1>2, <3>1, <3>2, <3>3 DEF ReviewIsOfJob
    <3>5. AnswerIsEarned'
      BY <1>2, <1>5, <3>1, <3>3 DEF TransferInv, AnswerIsEarned, Whole, Prefix
    <3> QED
      BY <3>4, <3>5
  <2>7. CASE Reject
    BY <2>5, <2>7 DEF Reject
  <2>8. CASE Dismiss \/ ToggleBlindSigning
    <3>1. ctx' = ctx /\ reply' = reply /\ ~InReview'
      BY <2>8 DEF Dismiss, ToggleBlindSigning, InReview
    <3>2. Holds(next)' <=> Holds(next)
      BY <1>2, <3>1 DEF Holds, Prefix
    <3>3. AnswerIsEarned
      BY DEF TransferInv
    <3> QED
      BY <1>2, <1>5, <3>1, <3>2, <3>3 DEF AnswerIsEarned, ReviewIsOfJob, Whole
  <2>9. CASE Complete
    <3>1. InReview
      BY <2>9 DEF Complete, InReview
    <3>2. next = Len(job.chunks) /\ ins.ins = job.ins /\ job \in Job
      BY <1>5, <3>1 DEF TransferInv, ReviewIsOfJob, TransferTypeOK
    <3>3. ins.ins # INS_GET_PK
      BY <3>2, JobFacts DEF Chunked, INS_GET_PK, INS_SIGN_TX,
                            INS_SIGN_SOROBAN_AUTH, INS_SIGN_MESSAGE
    <3>4. ASSUME ToSign.path \in PermittedPaths,
                 Finish(ins, "Ok", Signature(ToSign), ctx)
          PROVE  AnswerIsEarned' /\ ReviewIsOfJob'
      <4>1. ToSign = Whole
        BY <1>5, <3>1, <3>4, JobSigned
      <4>2. reply'.rdata = Signature(Whole) /\ ~InReview'
        BY <3>4, <4>1 DEF Finish, Reply, InReview
      <4>3. ~(next' < Len(job'.chunks)) /\ Whole' = Whole
        BY <1>2, <3>2, JobFacts DEF Whole
      <4> QED
        BY <4>2, <4>3 DEF AnswerIsEarned, ReviewIsOfJob, Signature
    <3> QED
      BY <2>5, <2>9, <3>3, <3>4 DEF Complete
  <2>10. CASE Restart
    BY <2>4, <2>10 DEF Restart, NoReply, InReview
  <2> QED
    BY <2>6, <2>7, <2>8, <2>9, <2>10 DEF Device, User
<1> QED
  BY <1>4, <1>5

LEMMA TransferStepInv == TransferInv /\ [TransferNext]_allVars => TransferInv'
<1> SUFFICES ASSUME TransferInv, [TransferNext]_allVars PROVE TransferInv'
  OBVIOUS
<1>1. CASE UNCHANGED allVars
  <2>1. UNCHANGED vars /\ UNCHANGED clientVars
    BY <1>1 DEF allVars
  <2>2. IInv' /\ TypeOK'
    BY <2>1, SessionKept DEF TransferInv, IInv
  <2> QED
    BY <2>1, <2>2 DEF vars, clientVars, TransferInv, TransferTypeOK,
       BufferIsAcknowledgedPrefix, AnswerIsEarned, ReviewIsOfJob, DeliveredWhole,
       Holds, Prefix, Whole, InReview
<1> QED
  BY <1>1, SendInv, ClientInv, OtherProgramInv, DeviceInv DEF TransferNext

LEMMA TransferInvariance == TransferSpec => []TransferInv
  BY TransferInitInv, TransferStepInv, PTL DEF TransferSpec

-----------------------------------------------------------------------------
(* The theorems. *)

\* The application stays well typed whatever programs share it, and the client
\* never runs past the last piece of its job.
THEOREM TransferTypeCorrect == TransferSpec => []TransferTypeOK
<1>1. TransferInv => TransferTypeOK
  BY DEF TransferInv
<1> QED
  BY <1>1, TransferInvariance, PTL

\* As long as the application keeps the client's path, its buffer holds exactly
\* the pieces the client was told were received, in their order.
THEOREM AcknowledgedSafety == TransferSpec => []BufferIsAcknowledgedPrefix
<1>1. TransferInv => BufferIsAcknowledgedPrefix
  BY DEF TransferInv
<1> QED
  BY <1>1, TransferInvariance, PTL

\* A client that follows the protocol and is told its job succeeded holds the
\* signature of its whole message by the key it named, for messages of any
\* number of pieces, through refusals, other programs' commands and restarts.
THEOREM DeliverySafety == TransferSpec => []DeliveredWhole
<1>1. TransferInv => DeliveredWhole
  BY DEF TransferInv
<1> QED
  BY <1>1, TransferInvariance, PTL
=============================================================================
