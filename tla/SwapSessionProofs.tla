-------------------------- MODULE SwapSessionProofs --------------------------
(***************************************************************************)
(* Proofs about SwapSession, for every call of Exchange, every transaction *)
(* and every stream of APDUs.                                              *)
(***************************************************************************)
EXTENDS SwapSession, AppContextProofs, AmountProofs

ReplyWords == {"Ok", "KeyDeriveFail", "RequestDataTooLarge", "DataHashFail",
               "DataSignFail", "SwapCheckFail", "WrongApduLength",
               "WrongP1P2", "InsNotSupported"}

\* Until the session is over nothing was signed, and the buffer holds what was
\* streamed.
OpenSession ==
  phase \in {"called", "next_command"} =>
    /\ ~SignatureSent
    /\ result # 1
    /\ ctx.raw_data = streamed

\* What was signed had been validated, against the parameters of this call.
SignedIsValid ==
  SignatureSent =>
    /\ reply.signature.payload \in DOMAIN TxOf
    /\ reply.signature.path \in PermittedPaths
    /\ ValidSwap(TxOf[reply.signature.payload], params,
                 AddressOf[reply.signature.path])

\* APDUs are taken, and signatures sent, only when Exchange asked for one.
SigningCalled ==
  phase = "next_command" \/ SignatureSent => params.command = "sign_transaction"

IInv ==
  /\ SwapTypeOK
  /\ OpenSession
  /\ SignedIsWholeStream
  /\ SignedIsValid
  /\ ResultIsTruthful
  /\ SigningCalled

-----------------------------------------------------------------------------
\* A signature is not the mark of an answer without one.
LEMMA SignedIsSignature ==
  ASSUME NEW p, NEW d
  PROVE  /\ Signed(p, d) # NoSignature
         /\ Signed(p, d).path = p /\ Signed(p, d).payload = d
<1>1. "none" \in DOMAIN NoSignature /\ "none" \notin DOMAIN Signed(p, d)
  BY DEF NoSignature, Signed
<1> QED
  BY <1>1 DEF Signed

LEMMA InitInv == Init => IInv
<1> SUFFICES ASSUME Init PROVE IInv
  OBVIOUS
<1>1. ctx \in Context /\ Len(ctx.raw_data) <= MAX
  BY EmptyContextType DEF Init
<1>2. << >> \in Seq(Symbol)
  OBVIOUS
<1>3. ~ctx.review_finished /\ ctx.raw_data = << >>
  BY DEF Init, EmptyContext
<1>4. SwapTypeOK
  BY <1>1, <1>2, <1>3 DEF Init, SwapTypeOK
<1>5. ~SignatureSent /\ result # 1 /\ phase = "called"
  BY DEF Init, SignatureSent, NoResult
<1> QED
  BY <1>3, <1>4, <1>5 DEF IInv, OpenSession, SignedIsWholeStream, SignedIsValid,
                          ResultIsTruthful, SigningCalled, Init

-----------------------------------------------------------------------------
(* The answers. *)

\* What the context and the history must be after any answer.
StoreOK ==
  /\ ctx' \in Context /\ Len(ctx'.raw_data) <= MAX /\ ~ctx'.review_finished
  /\ streamed' \in Seq(Symbol)

\* An answer that carries nothing leaves the session open if the buffer still
\* holds what was streamed.
LEMMA AnswerInv ==
  ASSUME IInv, phase = "next_command", StoreOK, NEW sw \in ReplyWords, Answer(sw),
         ctx'.raw_data = streamed'
  PROVE  IInv'
<1>1. /\ reply'.sw = sw /\ ~SignatureSent'
      /\ params' = params /\ phase' = phase /\ result' = result /\ printed' = printed
  BY DEF Answer, SignatureSent
<1>2. SwapTypeOK'
  BY <1>1 DEF IInv, SwapTypeOK, StoreOK, ReplyWords
<1> QED
  BY <1>1, <1>2 DEF IInv, OpenSession, SignedIsWholeStream, SignedIsValid,
                    ResultIsTruthful, SigningCalled

\* An error ends the session without a signature.
LEMMA ErrorInv ==
  ASSUME IInv, StoreOK, NEW sw \in ReplyWords, AnswerAndReturn(sw, NoSignature, 0)
  PROVE  IInv'
<1>1. /\ reply'.sw = sw /\ ~SignatureSent' /\ phase' = "returning"
      /\ params' = params /\ result' = 0 /\ printed' = printed
  BY DEF AnswerAndReturn, SignatureSent
<1>2. SwapTypeOK'
  BY <1>1 DEF IInv, SwapTypeOK, StoreOK, ReplyWords
<1> QED
  BY <1>1, <1>2 DEF IInv, OpenSession, SignedIsWholeStream, SignedIsValid,
                    ResultIsTruthful, SigningCalled

\* A signature of the whole stream ends the session with a success.
LEMMA SignatureInv ==
  ASSUME IInv, phase = "next_command", StoreOK, NEW p \in PermittedPaths, NEW d,
         AnswerAndReturn("Ok", Signed(p, d), 1), d = streamed',
         d \in DOMAIN TxOf, ValidSwap(TxOf[d], params, AddressOf[p])
  PROVE  IInv'
<1>1. /\ reply'.sw = "Ok" /\ reply'.signature = Signed(p, d)
      /\ phase' = "returning"
      /\ params' = params /\ result' = 1 /\ printed' = printed
  BY DEF AnswerAndReturn
<1>2. SwapTypeOK'
  BY <1>1 DEF IInv, SwapTypeOK, StoreOK
<1>3. /\ SignatureSent' /\ reply'.signature.payload = d
      /\ reply'.signature.path = p
  BY <1>1, SignedIsSignature DEF SignatureSent
<1>4. SignedIsValid'
  BY <1>1, <1>3 DEF SignedIsValid
<1> QED
  BY <1>1, <1>2, <1>3, <1>4 DEF IInv, OpenSession, SignedIsWholeStream,
                                ResultIsTruthful, SigningCalled

-----------------------------------------------------------------------------
(* The invariant. *)

LEMMA StepInv == IInv /\ [Next]_vars => IInv'
<1> SUFFICES ASSUME IInv, [Next]_vars PROVE IInv'
  OBVIOUS
<1> USE DEF ReplyWords
<1>1. CASE CheckAddress
  <2>1. /\ params.command = "check_address" /\ phase = "called"
        /\ phase' = "returning" /\ result' \in {0, 1}
        /\ UNCHANGED <<params, ctx, reply, printed, streamed>>
    BY <1>1 DEF CheckAddress
  <2> QED
    BY <2>1 DEF IInv, SwapTypeOK, OpenSession, SignatureSent, SignedIsWholeStream,
                SignedIsValid, ResultIsTruthful, SigningCalled
<1>2. CASE PrintableAmountCommand
  <2>1. /\ params.command = "get_printable_amount" /\ phase = "called"
        /\ phase' = "returning"
        /\ UNCHANGED <<params, ctx, reply, result, streamed>>
    BY <1>2 DEF PrintableAmountCommand
  <2> QED
    BY <2>1 DEF IInv, SwapTypeOK, OpenSession, SignatureSent, SignedIsWholeStream,
                SignedIsValid, ResultIsTruthful, SigningCalled
<1>3. CASE StartSigning
  BY <1>3 DEF StartSigning, IInv, SwapTypeOK, OpenSession, SignatureSent,
              SignedIsWholeStream, SignedIsValid, ResultIsTruthful, SigningCalled
<1>4. ASSUME NEW h \in Header, SwapRefuse(h)
      PROVE  IInv'
  <2>1. phase = "next_command" /\ ctx' = ctx /\ streamed' = streamed
    BY <1>4 DEF SwapRefuse
  <2>2. StoreOK /\ ctx'.raw_data = streamed'
    BY <2>1 DEF StoreOK, IInv, SwapTypeOK, OpenSession
  <2>3. HeaderError(h) \in ReplyWords
    BY DEF HeaderError
  <2> QED
    BY <1>4, <2>1, <2>2, <2>3, AnswerInv DEF SwapRefuse
<1>5. ASSUME NEW h \in Header, NEW d \in Data, SwapGetPubkey(h, d)
      PROVE  IInv'
  <2>1. phase = "next_command" /\ ctx' = ctx /\ streamed' = streamed
    BY <1>5 DEF SwapGetPubkey
  <2>2. StoreOK /\ ctx'.raw_data = streamed'
    BY <2>1 DEF StoreOK, IInv, SwapTypeOK, OpenSession
  <2> QED
    BY <1>5, <2>1, <2>2, AnswerInv DEF SwapGetPubkey
<1>6. ASSUME NEW h \in Header, NEW d \in Data, SwapSignTx(h, d)
      PROVE  IInv'
  <2> DEFINE first == First(h)
             r == HandleChunk(ctx, first, d)
  <2>1. /\ phase = "next_command" /\ ctx' = r.ctx
        /\ streamed' = IF d = Malformed THEN streamed
                       ELSE IF ~first THEN streamed \o d
                       ELSE IF HasPath(d) THEN Tail(d) ELSE << >>
    BY <1>6 DEF SwapSignTx
  <2>2. /\ ctx \in Context /\ Len(ctx.raw_data) <= MAX /\ ~ctx.review_finished
        /\ streamed \in Seq(Symbol) /\ ctx.raw_data = streamed
    BY <2>1 DEF IInv, SwapTypeOK, OpenSession
  <2>3. first \in BOOLEAN /\ d \in Seq(Symbol) \cup {Malformed}
    BY SwapAssumption DEF First
  <2>4. /\ r.ctx \in Context /\ Len(r.ctx.raw_data) <= MAX
        /\ r.sw \in {"Ok", "WrongApduLength", "RequestDataTooLarge"}
    BY <2>2, <2>3, HandleChunkType
  <2>5. ~r.ctx.review_finished
    BY <2>2, <2>3, NothingFinishes
  <2>6. streamed' \in Seq(Symbol)
    <3>1. CASE d = Malformed
      BY <2>1, <2>2, <3>1
    <3>2. CASE d # Malformed /\ ~first
      BY <2>1, <2>2, <2>3, <3>2
    <3>3. CASE d # Malformed /\ first /\ HasPath(d)
      BY <2>1, <2>3, <3>3 DEF HasPath
    <3>4. CASE d # Malformed /\ first /\ ~HasPath(d)
      BY <2>1, <3>4
    <3> QED
      BY <3>1, <3>2, <3>3, <3>4
  <2>7. StoreOK
    BY <2>1, <2>4, <2>5, <2>6 DEF StoreOK
  <2>8. ASSUME r.sw = "Ok"
        PROVE  ctx'.raw_data = streamed'
    <3>1. /\ d # Malformed /\ d \in Seq(Symbol) /\ (first => HasPath(d))
          /\ r.ctx.raw_data = KeptBy(first, ctx) \o PayloadOf(first, d)
      BY <2>2, <2>3, <2>8, AcceptedChunk, SMTT(40)
    <3>2. CASE first
      <4>1. Tail(d) \in Seq(Symbol)
        BY <3>1, <3>2 DEF HasPath
      <4>2. << >> \o Tail(d) = Tail(d)
        BY <4>1
      <4> QED
        BY <2>1, <3>1, <3>2, <4>2 DEF KeptBy, PayloadOf
    <3>3. CASE ~first
      BY <2>1, <2>2, <3>1, <3>3 DEF KeptBy, PayloadOf
    <3> QED
      BY <3>2, <3>3
  <2>9. CASE r.sw # "Ok" /\ AnswerAndReturn(r.sw, NoSignature, 0)
    BY <2>4, <2>7, <2>9, ErrorInv
  <2>10. CASE r.sw = "Ok" /\ Answer("Ok")
    BY <2>1, <2>7, <2>8, <2>10, AnswerInv
  <2>11. CASE r.sw = "Ok" /\ ValidateAndSign(r.ctx)
    <3>1. ASSUME NEW sw \in {"KeyDeriveFail", "SwapCheckFail", "DataHashFail",
                             "DataSignFail"},
                 AnswerAndReturn(sw, NoSignature, 0)
          PROVE  IInv'
      BY <2>7, <3>1, ErrorInv
    <3>2. ASSUME r.ctx.path \in PermittedPaths, r.ctx.raw_data \in DOMAIN TxOf,
                 ValidSwap(TxOf[r.ctx.raw_data], params, AddressOf[r.ctx.path]),
                 AnswerAndReturn("Ok", Signed(r.ctx.path, r.ctx.raw_data), 1)
          PROVE  IInv'
      <4>1. r.ctx.raw_data = streamed'
        BY <2>1, <2>8, <2>11
      <4> QED
        BY <2>1, <2>7, <3>2, <4>1, SignatureInv
    <3> QED
      BY <2>11, <3>1, <3>2 DEF ValidateAndSign
  <2> QED
    BY <1>6, <2>9, <2>10, <2>11 DEF SwapSignTx
<1>7. CASE SwapReturn
  BY <1>7 DEF SwapReturn, IInv, SwapTypeOK, OpenSession, SignatureSent,
              SignedIsWholeStream, SignedIsValid, ResultIsTruthful, SigningCalled
<1>8. CASE Crash
  BY <1>8 DEF Crash, IInv, SwapTypeOK, OpenSession, SignatureSent,
              SignedIsWholeStream, SignedIsValid, ResultIsTruthful, SigningCalled
<1>9. CASE UNCHANGED vars
  BY <1>9 DEF vars, IInv, SwapTypeOK, OpenSession, SignatureSent,
              SignedIsWholeStream, SignedIsValid, ResultIsTruthful, SigningCalled
<1> QED
  BY <1>1, <1>2, <1>3, <1>4, <1>5, <1>6, <1>7, <1>8, <1>9 DEF Next

LEMMA Invariance == Spec => []IInv
  BY InitInv, StepInv, PTL DEF Spec

-----------------------------------------------------------------------------
(* The numbers. *)

\* The value of the digits up to each place, as u64::from_be_bytes gets it.
LEMMA BigEndianSteps ==
  ASSUME NEW m \in Nat, NEW d \in [1..m -> 0..(BASE - 1)], Len(d) = m
  PROVE  \E h \in [0..m -> Nat] :
           /\ h[0] = 0
           /\ \A i \in 1..m : h[i] = h[i - 1] * BASE + d[i]
           /\ FromBigEndian(d) = h[m]
<1> DEFINE step == [p \in (1..m) \X Nat |-> p[2] * BASE + d[p[1]]]
           h == CHOOSE f : f = [i \in 0..m |->
                  IF i = 0 THEN 0 ELSE f[i - 1] * BASE + d[i]]
<1>1. step \in [(1..m) \X Nat -> Nat]
  BY NumberAssumption
<1>2. PICK f \in [0..m -> Nat] : Iterates(f, m, 0, step)
  BY <1>1, IterationExists
<1>3. f = [i \in 0..m |-> IF i = 0 THEN 0 ELSE f[i - 1] * BASE + d[i]]
  <2>1. ASSUME NEW i \in 1..m
        PROVE  step[<<i, f[i - 1]>>] = f[i - 1] * BASE + d[i]
    <3>1. <<i, f[i - 1]>> \in (1..m) \X Nat
      OBVIOUS
    <3> QED
      BY <3>1
  <2> HIDE DEF step
  <2> HIDE DEF h
  <2>2. f[0] = 0
    BY <1>2, FirstValue
  <2>3. ASSUME NEW i \in 1..m PROVE f[i] = step[<<i, f[i - 1]>>]
    BY <1>2 DEF Iterates
  <2>4. \A i \in 1..m : f[i] = f[i - 1] * BASE + d[i]
    BY <2>1, <2>3
  <2> QED
    BY <2>2, <2>4
<1>4. h = [i \in 0..m |-> IF i = 0 THEN 0 ELSE h[i - 1] * BASE + d[i]]
  BY <1>3
<1>5. FromBigEndian(d) = h[m]
  BY DEF FromBigEndian
<1> HIDE DEF h
<1>6. h[0] = 0 /\ \A i \in 1..m : h[i] = h[i - 1] * BASE + d[i]
  BY <1>4
<1>7. \A i \in 0..m : h[i] \in Nat
  <2> DEFINE S == {i \in 0..m : h[i] \in Nat}
  <2>1. 0 \in S
    BY <1>6
  <2>2. ASSUME NEW i \in 0..(m - 1), i \in S
        PROVE  i + 1 \in S
    <3>1. i + 1 \in 1..m /\ (i + 1) - 1 = i
      OBVIOUS
    <3>2. h[i + 1] = h[i] * BASE + d[i + 1]
      BY <1>6, <3>1
    <3>3. h[i] \in Nat /\ d[i + 1] \in Nat /\ BASE \in Nat
      BY <2>2, <3>1, NumberAssumption
    <3>4. h[i] * BASE \in Nat
      BY <3>3
    <3> QED
      BY <3>1, <3>2, <3>3, <3>4, SMTT(40)
  <2> HIDE DEF S
  <2>3. \A i \in 0..m : i \in S
    BY <2>1, <2>2, IntervalInduction
  <2> QED
    BY <2>3 DEF S
<1>8. h \in [0..m -> Nat]
  BY <1>4, <1>7
<1> QED
  BY <1>5, <1>6, <1>8

\* The values of the places and of the digits below each place.
LEMMA DenotesSteps ==
  ASSUME NEW bytes \in Seq(0..(BASE - 1)), NEW len \in 0..Len(bytes)
  PROVE  \E place, low \in [0..len -> Nat] :
           /\ place[0] = 1 /\ low[0] = 0
           /\ \A k \in 1..len : place[k] = place[k - 1] * BASE
           /\ \A k \in 1..len :
                low[k] = low[k - 1] + bytes[Len(bytes) - k + 1] * place[k - 1]
           /\ Denotes(bytes, len) = low[len]
<1> DEFINE place == CHOOSE f : f = [k \in 0..len |->
                      IF k = 0 THEN 1 ELSE f[k - 1] * BASE]
           low == CHOOSE f : f = [k \in 0..len |->
                    IF k = 0 THEN 0
                    ELSE f[k - 1] + bytes[Len(bytes) - k + 1] * place[k - 1]]
<1>0. Denotes(bytes, len) = low[len]
  BY DEF Denotes
<1>1. len \in Nat /\ \A k \in 1..len : bytes[Len(bytes) - k + 1] \in Nat
  <2>1. \A i \in 1..Len(bytes) : bytes[i] \in Nat
    BY NumberAssumption
  <2> QED
    BY <2>1
<1>2. place = [k \in 0..len |-> IF k = 0 THEN 1 ELSE place[k - 1] * BASE]
  <2> DEFINE step == [p \in (1..len) \X Nat |-> p[2] * BASE]
  <2>1. step \in [(1..len) \X Nat -> Nat]
    BY NumberAssumption
  <2>2. PICK f \in [0..len -> Nat] : Iterates(f, len, 1, step)
    BY <1>1, <2>1, IterationExists
  <2>3. ASSUME NEW k \in 1..len
        PROVE  step[<<k, f[k - 1]>>] = f[k - 1] * BASE
    <3>1. <<k, f[k - 1]>> \in (1..len) \X Nat
      BY <1>1
    <3> QED
      BY <3>1
  <2> HIDE DEF step
  <2> HIDE DEF place, low
  <2>4. f[0] = 1
    BY <1>1, <2>2, FirstValue
  <2>5. \A k \in 1..len : f[k] = step[<<k, f[k - 1]>>]
    BY <1>1, <2>2, NextValue
  <2>6. f = [k \in 0..len |-> IF k = 0 THEN 1 ELSE f[k - 1] * BASE]
    <3>1. \A k \in 1..len : f[k] = f[k - 1] * BASE
      BY <2>3, <2>5
    <3> QED
      BY <1>1, <2>4, <3>1
  <2> QED
    BY <2>6 DEF place
<1> HIDE DEF place
<1>3. place[0] = 1 /\ \A k \in 1..len : place[k] = place[k - 1] * BASE
  BY <1>1, <1>2
<1>4. place \in [0..len -> Nat]
  <2> DEFINE S == {k \in 0..len : place[k] \in Nat}
  <2>1. 0 \in S
    BY <1>3
  <2>2. ASSUME NEW k \in 0..(len - 1), k \in S
        PROVE  k + 1 \in S
    <3>1. k + 1 \in 1..len /\ (k + 1) - 1 = k
      BY <1>1
    <3>2. place[k + 1] = place[k] * BASE
      BY <1>3, <3>1
    <3>3. place[k] \in Nat /\ BASE \in Nat
      BY <2>2, NumberAssumption
    <3>4. place[k] * BASE \in Nat
      BY <3>3
    <3> QED
      BY <1>1, <3>2, <3>4
  <2> HIDE DEF S
  <2>3. \A k \in 0..len : k \in S
    BY <1>1, <2>1, <2>2, IntervalInduction
  <2> QED
    BY <1>2, <2>3 DEF S
<1>5. low = [k \in 0..len |-> IF k = 0 THEN 0
             ELSE low[k - 1] + bytes[Len(bytes) - k + 1] * place[k - 1]]
  <2> DEFINE step == [p \in (1..len) \X Nat |->
                       p[2] + bytes[Len(bytes) - p[1] + 1] * place[p[1] - 1]]
  <2>1. step \in [(1..len) \X Nat -> Nat]
    <3>1. ASSUME NEW k \in 1..len, NEW v \in Nat
          PROVE  v + bytes[Len(bytes) - k + 1] * place[k - 1] \in Nat
      <4>1. bytes[Len(bytes) - k + 1] \in Nat /\ place[k - 1] \in Nat
        BY <1>1, <1>4
      <4>2. bytes[Len(bytes) - k + 1] * place[k - 1] \in Nat
        BY <4>1
      <4> QED
        BY <4>2
    <3> QED
      BY <3>1
  <2>2. PICK f \in [0..len -> Nat] : Iterates(f, len, 0, step)
    BY <1>1, <2>1, IterationExists
  <2>3. ASSUME NEW k \in 1..len
        PROVE  step[<<k, f[k - 1]>>] =
                 f[k - 1] + bytes[Len(bytes) - k + 1] * place[k - 1]
    <3>1. <<k, f[k - 1]>> \in (1..len) \X Nat
      BY <1>1
    <3> QED
      BY <3>1
  <2> HIDE DEF step
  <2> HIDE DEF low
  <2>4. f[0] = 0
    BY <1>1, <2>2, FirstValue
  <2>5. \A k \in 1..len : f[k] = step[<<k, f[k - 1]>>]
    BY <1>1, <2>2, NextValue
  <2>6. f = [k \in 0..len |-> IF k = 0 THEN 0
             ELSE f[k - 1] + bytes[Len(bytes) - k + 1] * place[k - 1]]
    <3>1. \A k \in 1..len :
            f[k] = f[k - 1] + bytes[Len(bytes) - k + 1] * place[k - 1]
      BY <2>3, <2>5
    <3> QED
      BY <1>1, <2>4, <3>1
  <2> QED
    BY <2>6 DEF low
<1> HIDE DEF low
<1>6. low[0] = 0 /\ \A k \in 1..len :
        low[k] = low[k - 1] + bytes[Len(bytes) - k + 1] * place[k - 1]
  BY <1>1, <1>5
<1>7. low \in [0..len -> Nat]
  <2> DEFINE S == {k \in 0..len : low[k] \in Nat}
  <2>1. 0 \in S
    BY <1>6
  <2>2. ASSUME NEW k \in 0..(len - 1), k \in S
        PROVE  k + 1 \in S
    <3>1. k + 1 \in 1..len /\ (k + 1) - 1 = k
      BY <1>1
    <3>2. /\ low[k] \in Nat /\ place[k] \in Nat
          /\ bytes[Len(bytes) - (k + 1) + 1] \in Nat
      BY <1>1, <1>4, <2>2, <3>1
    <3>3. low[k + 1] = low[k] + bytes[Len(bytes) - (k + 1) + 1] * place[k]
      BY <1>6, <3>1
    <3>4. bytes[Len(bytes) - (k + 1) + 1] * place[k] \in Nat
      BY <3>2
    <3> QED
      BY <3>1, <3>2, <3>3, <3>4
  <2> HIDE DEF S
  <2>3. \A k \in 0..len : k \in S
    BY <1>1, <2>1, <2>2, IntervalInduction
  <2> QED
    BY <1>5, <2>3 DEF S
<1> QED
  BY <1>0, <1>3, <1>4, <1>6, <1>7

\* One digit moves from the value above a place to the value below it.
LEMMA MoveDigit ==
  ASSUME NEW above \in Nat, NEW digit \in Nat, NEW place \in Nat, NEW low \in Nat
  PROVE  (above * BASE + digit) * place + low
           = above * (place * BASE) + (low + digit * place)
BY NumberAssumption

\* The last of the m digits of a word are the last len bytes of an array; the
\* others are zero.
Aligned(d, m, bytes, len) ==
  /\ \A i \in 1..(m - len) : d[i] = 0
  /\ \A k \in 0..(len - 1) : d[m - k] = bytes[Len(bytes) - k]

\* Such a word is the number those bytes denote.
LEMMA AlignedDenotes ==
  ASSUME NEW m \in Nat, NEW d \in [1..m -> 0..(BASE - 1)], Len(d) = m,
         NEW bytes \in Seq(0..(BASE - 1)), NEW len \in 0..m, len <= Len(bytes),
         Aligned(d, m, bytes, len)
  PROVE  FromBigEndian(d) = Denotes(bytes, len)
<1>1. /\ len \in 0..m /\ len \in 0..Len(bytes)
      /\ len \in Nat /\ Len(bytes) \in Nat /\ m \in Nat
  OBVIOUS
<1>4. /\ \A i \in 1..(m - len) : d[i] = 0
      /\ \A k \in 0..(len - 1) : d[m - k] = bytes[Len(bytes) - k]
  BY DEF Aligned
<1>5. PICK h \in [0..m -> Nat] :
        /\ h[0] = 0
        /\ \A i \in 1..m : h[i] = h[i - 1] * BASE + d[i]
        /\ FromBigEndian(d) = h[m]
  BY BigEndianSteps
<1>6. PICK place \in [0..len -> Nat], low \in [0..len -> Nat] :
        /\ place[0] = 1 /\ low[0] = 0
        /\ \A k \in 1..len : place[k] = place[k - 1] * BASE
        /\ \A k \in 1..len :
             low[k] = low[k - 1] + bytes[Len(bytes) - k + 1] * place[k - 1]
        /\ Denotes(bytes, len) = low[len]
  BY <1>1, DenotesSteps
<1>7. h[m - len] = 0
  <2> DEFINE S == {i \in 0..(m - len) : h[i] = 0}
  <2>1. 0 \in S
    BY <1>1, <1>5
  <2>2. ASSUME NEW i \in 0..(m - len - 1), i \in S
        PROVE  i + 1 \in S
    <3>1. i + 1 \in 1..m /\ i + 1 \in 1..(m - len) /\ (i + 1) - 1 = i
      BY <1>1
    <3>2. h[i + 1] = h[i] * BASE + d[i + 1]
      BY <1>5, <3>1
    <3>3. h[i] = 0 /\ d[i + 1] = 0
      BY <1>4, <2>2, <3>1
    <3> QED
      BY <3>1, <3>2, <3>3, NumberAssumption
  <2> HIDE DEF S
  <2>3. m - len \in Nat
    BY <1>1
  <2>4. \A i \in 0..(m - len) : i \in S
    BY <2>1, <2>2, <2>3, IntervalInduction
  <2> QED
    BY <2>3, <2>4 DEF S
<1>8. \A k \in 0..len : h[m] = h[m - k] * place[k] + low[k]
  <2> DEFINE S == {k \in 0..len : h[m] = h[m - k] * place[k] + low[k]}
  <2>1. 0 \in S
    BY <1>1, <1>5, <1>6
  <2>2. ASSUME NEW k \in 0..(len - 1), k \in S
        PROVE  k + 1 \in S
    <3>1. /\ k + 1 \in 1..len /\ (k + 1) - 1 = k /\ m - k \in 1..m
          /\ (m - k) - 1 = m - (k + 1) /\ Len(bytes) - (k + 1) + 1 = Len(bytes) - k
      BY <1>1
    <3> DEFINE above == h[m - (k + 1)]
               digit == bytes[Len(bytes) - k]
    <3>2. h[m - k] = above * BASE + digit
      BY <1>4, <1>5, <3>1
    <3>3. place[k + 1] = place[k] * BASE /\ low[k + 1] = low[k] + digit * place[k]
      BY <1>6, <3>1
    <3>4. /\ above \in Nat /\ digit \in Nat /\ place[k] \in Nat /\ low[k] \in Nat
      <4>1. Len(bytes) - k \in 1..Len(bytes) /\ m - (k + 1) \in 0..m /\ k \in 0..len
        BY <1>1
      <4>2. bytes[Len(bytes) - k] \in 0..(BASE - 1)
        BY <4>1, ElementOfSeq, Zenon
      <4>3. 0..(BASE - 1) \subseteq Nat
        BY NumberAssumption
      <4> QED
        BY <4>1, <4>2, <4>3
    <3>5. h[m] = (above * BASE + digit) * place[k] + low[k]
      BY <2>2, <3>2
    <3> HIDE DEF above, digit
    <3>6. PICK a \in Nat, b \in Nat, p \in Nat, l \in Nat :
            a = above /\ b = digit /\ p = place[k] /\ l = low[k]
      BY <3>4
    <3>m. (a * BASE + b) * p + l = a * (p * BASE) + (l + b * p)
      BY MoveDigit
    <3>7. h[m] = above * (place[k] * BASE) + (low[k] + digit * place[k])
      BY <3>5, <3>6, <3>m
    <3> USE DEF above
    <3> QED
      BY <1>1, <3>1, <3>3, <3>7
  <2> HIDE DEF S
  <2>3. \A k \in 0..len : k \in S
    BY <1>1, <2>1, <2>2, IntervalInduction
  <2> QED
    BY <2>3 DEF S
<1>9. h[m] = low[len]
  <2>1. h[m] = h[m - len] * place[len] + low[len]
    BY <1>1, <1>8
  <2>2. place[len] \in Nat /\ low[len] \in Nat
    BY <1>1
  <2> QED
    BY <1>7, <2>1, <2>2
<1> QED
  BY <1>5, <1>6, <1>9

\* bytes_to_u64_be returns the number the last len bytes denote, whatever the
\* other bytes of the array and of the word.
LEMMA WordDenotes ==
  ASSUME NEW bytes \in Seq(0..(BASE - 1)), NEW len \in Nat,
         BytesToU64(bytes, len) # Invalid
  PROVE  BytesToU64(bytes, len) = Denotes(bytes, len)
<1> DEFINE m == U64_BYTES
           d == [i \in 1..m |-> IF i <= m - len THEN 0
                                ELSE bytes[Len(bytes) - m + i]]
<1>1. len \in 0..m /\ len <= Len(bytes) /\ Len(bytes) \in Nat /\ m \in Nat
  BY NumberAssumption DEF BytesToU64
<1>2. BytesToU64(bytes, len) = FromBigEndian(d)
  BY DEF BytesToU64
<1>3. d \in [1..m -> 0..(BASE - 1)] /\ Len(d) = m
  <2>1. ASSUME NEW i \in 1..m, ~(i <= m - len)
        PROVE  bytes[Len(bytes) - m + i] \in 0..(BASE - 1)
    <3> HIDE DEF m, d
    <3>1. Len(bytes) - m + i \in 1..Len(bytes)
      BY <1>1, <2>1
    <3> QED
      BY <3>1, ElementOfSeq, Zenon
  <2>2. 0 \in 0..(BASE - 1)
    BY NumberAssumption
  <2>3. d \in [1..m -> 0..(BASE - 1)]
    BY <2>1, <2>2
  <2> HIDE DEF d
  <2> QED
    BY <1>1, <2>3
<1>4. /\ \A i \in 1..(m - len) : d[i] = 0
      /\ \A k \in 0..(len - 1) : d[m - k] = bytes[Len(bytes) - k]
  BY <1>1
<1> HIDE DEF d
<1> HIDE DEF m
<1>a. Aligned(d, m, bytes, len)
  BY <1>4 DEF Aligned
<1>5. FromBigEndian(d) = Denotes(bytes, len)
  BY <1>1, <1>3, <1>a, AlignedDenotes
<1> QED
  BY <1>2, <1>5

\* The whole array, read as one word.
LEMMA ArrayDenotes ==
  ASSUME NEW bytes \in Seq(0..(BASE - 1))
  PROVE  /\ FromBigEndian(bytes) = Denotes(bytes, Len(bytes))
         /\ FromBigEndian(bytes) \in Nat
<1> DEFINE m == Len(bytes)
<1>1. m \in Nat /\ m \in 0..m /\ m <= m
  OBVIOUS
<1>b. bytes \in [1..m -> 0..(BASE - 1)]
  BY LenProperties
<1>2. Aligned(bytes, m, bytes, m)
  BY <1>1 DEF Aligned
<1>3. FromBigEndian(bytes) = Denotes(bytes, m)
  BY <1>1, <1>b, <1>2, AlignedDenotes
<1>4. PICK h \in [0..m -> Nat] : FromBigEndian(bytes) = h[m]
  BY <1>1, <1>b, BigEndianSteps
<1>5. FromBigEndian(bytes) \in Nat
  BY <1>1, <1>4
<1> QED
  BY <1>3, <1>5

-----------------------------------------------------------------------------
(* The theorems. *)

\* Whatever Exchange and the host send, the receive context stays within its
\* capacity and every field holds what its readers expect.
THEOREM TypeCorrect == Spec => []SwapTypeOK
<1>1. IInv => SwapTypeOK
  BY DEF IInv
<1> QED
  BY <1>1, Invariance, PTL

\* A signature covers everything received since the first chunk, however the
\* stream was cut, restarted or refused.
THEOREM WholeStreamSafety == Spec => []SignedIsWholeStream
<1>1. IInv => SignedIsWholeStream
  BY DEF IInv
<1> QED
  BY <1>1, Invariance, PTL

\* Exchange is told of a success exactly when a signature went out.
THEOREM ResultSafety == Spec => []ResultIsTruthful
<1>1. IInv => ResultIsTruthful
  BY DEF IInv
<1> QED
  BY <1>1, Invariance, PTL

\* One call of Exchange releases at most one signature.
THEOREM OneSignature == Spec => AtMostOneSignature
<1>1. IInv /\ [Next]_vars => [SignatureSent => UNCHANGED reply]_vars
  <2> SUFFICES ASSUME IInv, Next, SignatureSent PROVE UNCHANGED reply
    BY DEF vars
  <2>1. phase \notin {"called", "next_command"}
    BY DEF IInv, OpenSession
  <2> QED
    BY <2>1 DEF Next, CheckAddress, PrintableAmountCommand, StartSigning,
                SwapRefuse, SwapSignTx, SwapGetPubkey, SwapReturn, Crash
<1> QED
  BY <1>1, Invariance, PTL DEF Spec, AtMostOneSignature

\* What a validated transaction does is what Exchange asked for.
LEMMA ValidIsAgreed ==
  ASSUME NEW tx, NEW signer, NEW p \in Params, p.command = "sign_transaction",
         ValidSwap(tx, p, signer)
  PROVE  Agreed(tx, p, signer)
<1>1. /\ p.amount \in Seq(0..(BASE - 1)) /\ p.amount_len \in Nat
      /\ p.fee_amount \in Seq(0..(BASE - 1)) /\ p.fee_amount_len \in Nat
  BY SwapAssumption
<1>2. tx.fee = Denotes(p.fee_amount, p.fee_amount_len)
  <2>1. /\ BytesToU64(p.fee_amount, p.fee_amount_len) # Invalid
        /\ tx.fee = BytesToU64(p.fee_amount, p.fee_amount_len)
    BY DEF ValidSwap, ValidFee
  <2> QED
    BY <1>1, <2>1, WordDenotes
<1>3. Head(tx.ops).amount = Denotes(p.amount, p.amount_len)
  <2>1. /\ BytesToU64(p.amount, p.amount_len) # Invalid
        /\ Head(tx.ops).amount = BytesToU64(p.amount, p.amount_len)
    BY DEF ValidSwap, ValidPayment, ValidAmount
  <2> QED
    BY <1>1, <2>1, WordDenotes
<1>4. Head(tx.ops) = tx.ops[1]
  OBVIOUS
<1>5. /\ tx.network = "public" /\ tx.envelope = "tx" /\ tx.source = signer
      /\ tx.op_count = 1 /\ ValidPayment(Head(tx.ops), p, signer)
  BY DEF ValidSwap
<1> QED
  BY <1>2, <1>3, <1>4, <1>5 DEF Agreed, ValidPayment, ActsFor

\* A signature is released without a review only for one native payment of the
\* amount and the fee that Exchange's bytes denote, to its address, from the
\* account whose key signs, on the public network.
THEOREM AgreedSafety == Spec => []SignedIsAgreed
<1>1. IInv => SignedIsAgreed
  <2> SUFFICES ASSUME IInv, SignatureSent
               PROVE  Agreed(TxOf[reply.signature.payload], params,
                             AddressOf[reply.signature.path])
    BY DEF SignedIsAgreed
  <2>1. params \in Params /\ params.command = "sign_transaction"
    BY DEF IInv, SwapTypeOK, SigningCalled
  <2>2. ValidSwap(TxOf[reply.signature.payload], params,
                  AddressOf[reply.signature.path])
    BY DEF IInv, SignedIsValid
  <2> QED
    BY <2>1, <2>2, ValidIsAgreed
<1> QED
  BY <1>1, Invariance, PTL

-----------------------------------------------------------------------------
(* The text of an amount. *)

Unit == <<" ", "X", "L", "M">>

\* What Exchange gets for an amount: the number, then the unit, for every amount
\* an account can hold.
PrintedIsAmount ==
  printed # NoText =>
    LET amount == Denotes(params.amount, Len(params.amount))
    IN  /\ amount \in Nat
        /\ printed = IF amount > I64_MAX THEN <<"0">>
                     ELSE AmountNumber(amount) \o Unit

LEMMA PrintedInv == Spec => []PrintedIsAmount
<1>1. Init => PrintedIsAmount
  BY DEF Init, PrintedIsAmount
<1>2. SwapTypeOK /\ PrintedIsAmount /\ [Next]_vars => PrintedIsAmount'
  <2> SUFFICES ASSUME SwapTypeOK, PrintedIsAmount, [Next]_vars
               PROVE  PrintedIsAmount'
    OBVIOUS
  <2>1. params' = params
    BY DEF Next, vars, CheckAddress, PrintableAmountCommand, StartSigning,
           SwapRefuse, SwapSignTx, SwapGetPubkey, SwapReturn, Crash, Answer,
           ValidateAndSign, AnswerAndReturn
  <2>2. CASE PrintableAmountCommand
    <3> DEFINE bytes == params.amount
               v == FromBigEndian(bytes)
               w == FormatPrintableAmount(v)
    <3>1. bytes \in Seq(0..(BASE - 1))
      BY <2>2, SwapAssumption DEF PrintableAmountCommand, SwapTypeOK
    <3>2. printed' = IF w.ok THEN w.written ELSE <<"0">>
      BY <2>2 DEF PrintableAmountCommand
    <3>3. v = Denotes(bytes, Len(bytes)) /\ v \in Nat
      BY <3>1, ArrayDenotes
    <3> HIDE DEF bytes, v
    <3>4. printed' = IF v > I64_MAX THEN <<"0">>
                     ELSE AmountNumber(v) \o Unit
      <4>1. CASE v > I64_MAX
        <5>1. ~w.ok
          BY <4>1 DEF FormatPrintableAmount, NewWriter
        <5> QED
          BY <3>2, <4>1, <5>1
      <4>2. CASE ~(v > I64_MAX)
        <5>1. v <= I64_MAX
          BY <3>3, <4>2, AmountAssumption
        <5>2. w.ok /\ w.written = AmountNumber(v) \o Unit
          BY <3>3, <5>1, AmountText DEF Unit
        <5> HIDE DEF w
        <5> QED
          BY <3>2, <4>2, <5>2
      <4> QED
        BY <4>1, <4>2
    <3> QED
      BY <2>1, <3>3, <3>4 DEF PrintedIsAmount, bytes
  <2>3. CASE ~PrintableAmountCommand
    <3>1. printed' = printed
      BY <2>3 DEF Next, vars, CheckAddress, StartSigning, SwapRefuse, SwapSignTx,
             SwapGetPubkey, SwapReturn, Crash, Answer, ValidateAndSign, AnswerAndReturn
    <3> QED
      BY <2>1, <3>1 DEF PrintedIsAmount
  <2> QED
    BY <2>2, <2>3
<1> QED
  BY <1>1, <1>2, TypeCorrect, PTL DEF Spec

LEMMA UnitText == Unit \in Seq(Letters) /\ Len(Unit) = 4
BY DEF Letters, Unit

\* The unit takes the last four characters.
LEMMA NumberOfText ==
  ASSUME NEW v \in Nat, v <= I64_MAX,
         NEW text, text = AmountNumber(v) \o Unit
  PROVE  SubSeq(text, 1, Len(text) - 4) = AmountNumber(v)
<1> DEFINE n == AmountNumber(v)
<1>1. n \in Seq(Figures \union {"."})
  BY AmountText
<1> HIDE DEF n
<1>2. Unit \in Seq(Letters) /\ Len(Unit) = 4
  BY UnitText
<1>3. n \in Seq(Letters) /\ Len(n) \in Nat
  <2>1. Figures \union {"."} \subseteq Letters
    BY DEF Letters
  <2> QED
    BY <1>1, <2>1, SeqMonotonic
<1>4. Len(n \o Unit) = Len(n) + 4
  <2>1. Len(n \o Unit) = Len(n) + Len(Unit)
    BY <1>2, <1>3, ConcatProperties
  <2> QED
    BY <1>2, <2>1
<1>5. text = n \o Unit
  BY DEF n
<1>6. Len(text) - 4 = Len(n)
  BY <1>3, <1>4, <1>5
<1>7. SubSeq(n \o Unit, 1, Len(n)) = n
  BY <1>2, <1>3
<1>8. SubSeq(text, 1, Len(text) - 4) = n
  BY <1>5, <1>6, <1>7
<1> QED
  BY <1>8 DEF n

\* The text Exchange shows for the amount of a swap is that amount in XLM,
\* written without zeros that say nothing, for every amount an account can
\* hold; an amount beyond that becomes a bare "0".
THEOREM PrintedSafety == Spec => []PrintedDenotes
<1>1. PrintedIsAmount => PrintedDenotes
  <2> DEFINE amount == Denotes(params.amount, Len(params.amount))
             number == SubSeq(printed, 1, Len(printed) - 4)
  <2> SUFFICES ASSUME PrintedIsAmount, printed # NoText, ~(amount > I64_MAX)
               PROVE  /\ printed = number \o Unit
                      /\ Reads(number, DECIMAL_PLACES) = amount
                      /\ IsShort(number)
    BY DEF PrintedDenotes, PrintedIsAmount, Unit
  <2>1. amount \in Nat /\ printed = AmountNumber(amount) \o Unit
    BY DEF PrintedIsAmount
  <2> HIDE DEF amount
  <2>2. amount <= I64_MAX
    BY <2>1, AmountAssumption
  <2>3. number = AmountNumber(amount)
    BY <2>1, <2>2, NumberOfText
  <2>4. Reads(AmountNumber(amount), DECIMAL_PLACES) = amount /\ IsShort(AmountNumber(amount))
    BY <2>1, <2>2, AmountText
  <2> HIDE DEF number
  <2> QED
    BY <2>1, <2>3, <2>4
<1> QED
  BY <1>1, PrintedInv, PTL

\* Exchange shows for the amount of a swap what a review on the device shows
\* for that amount, but for the separators: the two implementations agree on
\* every amount, number of places and buffer.
THEOREM ReviewedSafety == Spec => []PrintedAsReviewed
<1>1. PrintedIsAmount => PrintedAsReviewed
  <2> DEFINE amount == Denotes(params.amount, Len(params.amount))
             number == SubSeq(printed, 1, Len(printed) - 4)
  <2> SUFFICES ASSUME PrintedIsAmount, printed # NoText, Len(printed) > 4
               PROVE  WithoutCommas(FormatNativeAmount(amount)) = number
    BY DEF PrintedAsReviewed
  <2>1. ~(amount > I64_MAX)
    <3>1. amount > I64_MAX => printed = <<"0">>
      BY DEF PrintedIsAmount
    <3>2. Len(<<"0">>) = 1
      OBVIOUS
    <3> HIDE DEF amount
    <3> QED
      BY <3>1, <3>2
  <2>2. amount \in Nat /\ printed = AmountNumber(amount) \o Unit
    BY <2>1 DEF PrintedIsAmount
  <2> HIDE DEF amount
  <2>3. amount <= I64_MAX
    BY <2>1, <2>2, AmountAssumption
  <2>4. number = AmountNumber(amount)
    BY <2>2, <2>3, NumberOfText
  <2>5. FormatNativeAmount(amount) = FormatTokenAmount(amount, DECIMAL_PLACES)
    BY PlacesAgree DEF FormatNativeAmount
  <2>6. WithoutCommas(FormatTokenAmount(amount, DECIMAL_PLACES)) = AmountNumber(amount)
    BY <2>2, <2>3, ReviewedText
  <2> QED
    BY <2>4, <2>5, <2>6
<1> QED
  BY <1>1, PrintedInv, PTL
=============================================================================
