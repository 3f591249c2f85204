---------------------------- MODULE ReviewProofs ----------------------------
(***************************************************************************)
(* The review of a request, for every formatter, every set of requests and *)
(* every signer: what is on the screen is the whole of the request, its    *)
(* mark is right, and the loop over the operations decides as if it took   *)
(* one step.                                                               *)
(***************************************************************************)
EXTENDS TxReview, RecursiveFunctions, TLAPS

-----------------------------------------------------------------------------
(* The inductive invariant. *)

\* Nothing is kept at the home screen.
IdleIsEmpty == phase = "home" => request = Nothing

\* What the loop over the operations has made of the first ones.
FormattedSoFar ==
  phase = "formatting" =>
    /\ request \in Transactions /\ at \in 0..Len(request.ops)
    /\ \A i \in 1..at : ~Unpresentable(request.ops[i])
    /\ blind <=> \E i \in 1..at : request.ops[i].type = "InvokeHostFunction"
    /\ config = ToFormatConfig
    /\ entries = EntriesUpTo(request, config, signer)[at]
    /\ intent = IF at = 0 THEN NoWords ELSE WholeIntent(request)

\* Only what can be presented comes to the screen.
ReviewedIsPresentable ==
  phase = "reviewing" => request \in Formatted \union ParsedAuthorizations

ReviewInv ==
  /\ ReviewTypeOK
  /\ IdleIsEmpty
  /\ FormattedSoFar
  /\ ReviewedIsPresentable
  /\ BlindReviewMarked
  /\ ReviewIsWhole

-----------------------------------------------------------------------------
(* The requests and the settings. *)

\* The operations of a transaction are a sequence.
LEMMA OperationsOfTransaction ==
  ASSUME NEW r \in Transactions
  PROVE  Len(r.ops) \in Nat /\ DOMAIN r.ops = 1..Len(r.ops)
<1>1. r.ops \in Seq({r.ops[i] : i \in DOMAIN r.ops})
  BY RequestAssumption DEF Transactions
<1> QED
  BY <1>1

\* A request is a transaction or none, by its kind.
LEMMA KindsDiffer ==
  /\ \A r \in Transactions : r \in Candidates /\ r.kind = "tx"
  /\ \A r \in ParsedAuthorizations : r \in Candidates /\ r.kind = "auth"
  /\ Nothing \notin Candidates
BY RequestAssumption DEF Transactions, ParsedAuthorizations, Nothing

\* The switch the menu shows beside its label is the first byte of the record,
\* which is the setting the review reads.
LEMMA RowOfBlindSigning ==
  /\ DOMAIN EXPOSED_SETTINGS = 1..5
  /\ \A row \in 1..5 : EXPOSED_SETTINGS[row] = "BlindSigning" <=> row = 1
<1>1. DOMAIN EXPOSED_SETTINGS = 1..5
  BY DEF EXPOSED_SETTINGS
<1>2. \A row \in 1..5 : EXPOSED_SETTINGS[row] = "BlindSigning" <=> row = 1
  BY DEF EXPOSED_SETTINGS
<1> QED
  BY <1>1, <1>2

LEMMA EnabledIsByte == SwitchIsOn("BlindSigning") <=> storage[0] = 1
BY RowOfBlindSigning DEF SwitchIsOn

LEMMA EnabledIsByteNext == SwitchIsOn("BlindSigning")' <=> storage'[0] = 1
BY RowOfBlindSigning DEF SwitchIsOn

LEMMA SwitchIsSetting ==
  SettingsTypeOK => (SwitchIsOn("BlindSigning") <=> GetSetting("BlindSigning"))
<1> SUFFICES ASSUME SettingsTypeOK
             PROVE  SwitchIsOn("BlindSigning") <=> GetSetting("BlindSigning")
  OBVIOUS
<1>1. storage[0] \in {0, 1}
  BY SettingsSizeAssumption DEF SettingsTypeOK
<1>2. GetSetting("BlindSigning") <=> storage[0] # 0
  BY DEF GetSetting, AsIndex
<1> QED
  BY <1>1, <1>2, EnabledIsByte

\* A configuration is one switch per field.
LEMMA ConfigType == ToFormatConfig \in Configs
BY SMTT(40) DEF ToFormatConfig, Configs, GetSetting

\* Whatever the formatter, there are the entries up to each operation: those of
\* the header, and after an operation those before it and its own.
LEMMA EntriesExist ==
  ASSUME NEW r \in Transactions, NEW conf, NEW key
  PROVE  EntriesUpTo(r, conf, key) =
           [i \in 0..Len(r.ops) |->
              IF i = 0 THEN HeaderOf(r, conf, key)
              ELSE EntriesUpTo(r, conf, key)[i - 1] \o OperationOf(r, i, conf)]
<1> DEFINE Makes(f, n) ==
             f = [i \in 0..n |-> IF i = 0 THEN HeaderOf(r, conf, key)
                                 ELSE f[i - 1] \o OperationOf(r, i, conf)]
           S == {n \in Nat : \E f : Makes(f, n)}
<1>1. 0 \in S
  <2>1. Makes([i \in 0..0 |-> HeaderOf(r, conf, key)], 0)
    OBVIOUS
  <2> QED
    BY <2>1
<1>2. ASSUME NEW n \in Nat, n \in S
      PROVE  n + 1 \in S
  <2>1. PICK f : Makes(f, n)
    BY <1>2
  <2> DEFINE g == [i \in 0..(n + 1) |->
                     IF i = n + 1 THEN f[n] \o OperationOf(r, n + 1, conf) ELSE f[i]]
  <2>2. ASSUME NEW i \in 0..(n + 1)
        PROVE  g[i] = IF i = 0 THEN HeaderOf(r, conf, key)
                      ELSE g[i - 1] \o OperationOf(r, i, conf)
    <3>1. CASE i = n + 1
      <4>1. i # 0 /\ n \in 0..(n + 1) /\ n # n + 1 /\ i - 1 = n
        BY <3>1
      <4>2. g[i] = f[n] \o OperationOf(r, i, conf) /\ g[i - 1] = f[n]
        BY <3>1, <4>1
      <4> QED
        BY <4>1, <4>2
    <3>2. CASE i # n + 1
      <4>1. i \in 0..n
        BY <3>2
      <4>2. f[i] = IF i = 0 THEN HeaderOf(r, conf, key)
                   ELSE f[i - 1] \o OperationOf(r, i, conf)
        BY <2>1, <4>1
      <4>3. g[i] = f[i]
        BY <3>2
      <4>4. i # 0 => g[i - 1] = f[i - 1]
        BY <4>1
      <4> QED
        BY <4>2, <4>3, <4>4
    <3> QED
      BY <3>1, <3>2
  <2>3. g = [i \in 0..(n + 1) |-> g[i]]
    OBVIOUS
  <2> HIDE DEF g
  <2>4. Makes(g, n + 1)
    BY <2>2, <2>3
  <2> HIDE DEF Makes
  <2>5. n + 1 \in Nat /\ \E h : Makes(h, n + 1)
    BY <2>4
  <2> QED
    BY <2>5
<1>3. Len(r.ops) \in S
  <2> HIDE DEF S
  <2>1. Len(r.ops) \in Nat
    BY OperationsOfTransaction
  <2> QED
    BY <1>1, <1>2, <2>1, SetInduction
<1>4. PICK f : Makes(f, Len(r.ops))
  BY <1>3
<1> QED
  BY <1>4 DEF EntriesUpTo

\* The entries of the header, and what an operation adds.
LEMMA EntriesOfHeader ==
  ASSUME NEW r \in Transactions, NEW conf, NEW key
  PROVE  EntriesUpTo(r, conf, key)[0] = HeaderOf(r, conf, key)
<1>1. 0 \in 0..Len(r.ops)
  BY OperationsOfTransaction
<1> QED
  BY <1>1, EntriesExist

LEMMA EntriesOfNext ==
  ASSUME NEW r \in Transactions, NEW conf, NEW key, NEW i \in 1..Len(r.ops)
  PROVE  EntriesUpTo(r, conf, key)[i] =
           EntriesUpTo(r, conf, key)[i - 1] \o OperationOf(r, i, conf)
<1>1. i \in 0..Len(r.ops) /\ i # 0
  BY OperationsOfTransaction
<1> QED
  BY <1>1, EntriesExist

-----------------------------------------------------------------------------
(* The invariant is inductive. *)

LEMMA ReviewStart == Init => ReviewInv
<1> SUFFICES ASSUME Init PROVE ReviewInv
  OBVIOUS
<1> USE DEF Init
<1>1. ReviewTypeOK
  <2>1. SettingsTypeOK
    BY SettingsSizeAssumption DEF SettingsInit, DEFAULT_SETTINGS, SettingsTypeOK
  <2> QED
    BY <2>1 DEF ReviewTypeOK
<1> QED
  BY <1>1 DEF ReviewInv, IdleIsEmpty, FormattedSoFar, ReviewedIsPresentable,
              BlindReviewMarked, ReviewIsWhole

\* At the home screen only the types and the settings matter.
LEMMA ForgetKeeps ==
  ASSUME ReviewInv, Forget,
         outcome' \in {"none", "approved", "denied", "DataParsingFail",
                       "DataFormattingFail", "BlindSigningModeNotEnabled"}
  PROVE  ReviewInv'
<1>1. ReviewTypeOK'
  BY DEF ReviewInv, ReviewTypeOK, SettingsTypeOK, Forget
<1> QED
  BY <1>1 DEF Forget, ReviewInv, IdleIsEmpty, FormattedSoFar, ReviewedIsPresentable,
              BlindReviewMarked, ReviewIsWhole

LEMMA TouchKeeps ==
  ASSUME ReviewInv, NEW row \in TouchedRows, Touch(row)
  PROVE  ReviewInv'
<1>1. SettingsTypeOK'
  <2>1. row \in 1..5
    BY RowOfBlindSigning, RequestAssumption
  <2>2. row - 1 \in 0..(SETTINGS_SIZE - 1)
    BY <2>1, SettingsSizeAssumption
  <2>3. storage \in [0..(SETTINGS_SIZE - 1) -> {0, 1}]
    BY DEF ReviewInv, ReviewTypeOK, SettingsTypeOK
  <2>4. 1 - storage[row - 1] \in {0, 1}
    BY <2>2, <2>3
  <2> QED
    BY <2>3, <2>4 DEF Touch, ToggleRow, SettingsTypeOK
<1>2. phase' = "home" /\ UNCHANGED <<phase, review, outcome>>
  BY DEF Touch
<1>3. ReviewTypeOK'
  BY <1>1, <1>2 DEF ReviewInv, ReviewTypeOK, review
<1> QED
  BY <1>2, <1>3 DEF ReviewInv, IdleIsEmpty, FormattedSoFar, ReviewedIsPresentable,
                    BlindReviewMarked, ReviewIsWhole, review

LEMMA StartTxKeeps ==
  ASSUME ReviewInv, NEW r \in Candidates, NEW key \in Signers, StartTx(r, key)
  PROVE  ReviewInv'
<1>1. CASE r.kind = "unparsable tx"
  BY <1>1, ForgetKeeps DEF StartTx, Refuse
<1>2. CASE r.kind # "unparsable tx"
  <2>1. /\ phase' = "formatting" /\ request' = r /\ signer' = key
        /\ config' = ToFormatConfig /\ entries' = HeaderOf(r, ToFormatConfig, key)
        /\ at' = 0 /\ intent' = NoWords /\ blind' = FALSE
        /\ UNCHANGED <<storage, outcome>>
    BY <1>2 DEF StartTx
  <2>2. r \in Transactions
    BY <1>2 DEF StartTx, Transactions
  <2>3. ReviewTypeOK'
    BY <2>1, ConfigType DEF ReviewInv, ReviewTypeOK, SettingsTypeOK
  <2>4. FormattedSoFar'
    <3>1. 0 \in 0..Len(r.ops)
      BY <2>2, OperationsOfTransaction
    <3>2. ToFormatConfig' = ToFormatConfig
      BY <2>1 DEF ToFormatConfig, GetSetting
    <3>3. entries' = EntriesUpTo(r, ToFormatConfig, key)[0]
      BY <2>1, <2>2, EntriesOfHeader
    <3> QED
      BY <2>1, <2>2, <3>1, <3>2, <3>3 DEF FormattedSoFar
  <2> QED
    BY <2>1, <2>3, <2>4 DEF ReviewInv, IdleIsEmpty, ReviewedIsPresentable,
                            BlindReviewMarked, ReviewIsWhole
<1> QED
  BY <1>1, <1>2

LEMMA StartAuthKeeps ==
  ASSUME ReviewInv, NEW r \in Candidates, NEW key \in Signers, StartAuth(r, key)
  PROVE  ReviewInv'
<1>1. CASE ~GetSetting("BlindSigning") \/ r.kind = "unparsable auth"
  BY <1>1, ForgetKeeps DEF StartAuth, Refuse
<1>2. CASE GetSetting("BlindSigning") /\ r.kind # "unparsable auth"
  <2>1. /\ phase' = "reviewing" /\ request' = r /\ signer' = key
        /\ config' = ToFormatConfig /\ entries' = AuthorizationOf(r, ToFormatConfig)
        /\ at' = 0 /\ intent' = NoWords /\ blind' = TRUE
        /\ UNCHANGED <<storage, outcome>>
    BY <1>2 DEF StartAuth
  <2>2. r.kind = "auth"
    BY <1>2 DEF StartAuth
  <2>3. ReviewTypeOK'
    BY <2>1, ConfigType DEF ReviewInv, ReviewTypeOK, SettingsTypeOK
  <2>4. BlindReviewMarked'
    <3>1. SwitchIsOn("BlindSigning")
      BY <1>2, SwitchIsSetting DEF ReviewInv, ReviewTypeOK
    <3>2. SwitchIsOn("BlindSigning")'
      BY <2>1, <3>1 DEF SwitchIsOn
    <3> QED
      BY <2>1, <2>2, <3>2 DEF BlindReviewMarked, Contractual
  <2>5. ReviewIsWhole'
    <3>1. ToFormatConfig' = ToFormatConfig
      BY <2>1 DEF ToFormatConfig, GetSetting
    <3> QED
      BY <2>1, <2>2, <3>1 DEF ReviewIsWhole, AllEntries, WholeIntent
  <2>6. ReviewedIsPresentable'
    BY <2>1, <2>2 DEF ReviewedIsPresentable, ParsedAuthorizations
  <2> QED
    BY <2>1, <2>3, <2>4, <2>5, <2>6 DEF ReviewInv, IdleIsEmpty, FormattedSoFar
<1> QED
  BY <1>1, <1>2

LEMMA NextOperationKeeps ==
  ASSUME ReviewInv, NextOperation
  PROVE  ReviewInv'
<1> DEFINE op == request.ops[at + 1]
<1>1. CASE Unpresentable(op)
  <2>1. Refuse("DataParsingFail") \/ Refuse("DataFormattingFail")
    BY <1>1 DEF NextOperation, Unpresentable
  <2> QED
    BY <2>1, ForgetKeeps DEF Refuse
<1>2. CASE ~Unpresentable(op)
  <2> DEFINE next == at + 1
  <2>1. /\ phase = "formatting" /\ phase' = "formatting" /\ at < Len(request.ops)
        /\ entries' = entries \o OperationOf(request, next, config)
        /\ intent' = IF Len(request.ops) = 1 THEN IntentOf(request, next) ELSE intent
        /\ at' = next
        /\ UNCHANGED <<storage, phase, request, signer, config, outcome>>
    BY <1>2 DEF NextOperation, Unpresentable, Refuse, Forget
  <2>2. blind' = MarkAfter(blind, op)
    BY <1>2 DEF NextOperation, Unpresentable, Refuse, Forget
  <2>3. request \in Transactions /\ at \in 0..Len(request.ops)
    BY <2>1 DEF ReviewInv, FormattedSoFar
  <2>4. /\ Len(request.ops) \in Nat /\ next \in 1..Len(request.ops)
        /\ next - 1 = at /\ 1..next = (1..at) \union {next}
    BY <2>1, <2>3, OperationsOfTransaction
  <2>5. ReviewTypeOK'
    <3>1. blind' \in BOOLEAN
      BY <2>2 DEF MarkAfter
    <3> QED
      BY <2>1, <2>4, <3>1 DEF ReviewInv, ReviewTypeOK, SettingsTypeOK
  <2>6. \A i \in 1..next : ~Unpresentable(request.ops[i])
    BY <1>2, <2>1, <2>4 DEF ReviewInv, FormattedSoFar
  <2>7. blind' <=> \E i \in 1..next : request.ops[i].type = "InvokeHostFunction"
    <3>1. blind <=> \E i \in 1..at : request.ops[i].type = "InvokeHostFunction"
      BY <2>1 DEF ReviewInv, FormattedSoFar
    <3>2. blind' <=> blind \/ op.type = "InvokeHostFunction"
      BY <2>2 DEF MarkAfter
    <3> HIDE DEF next
    <3>3. op = request.ops[next]
      BY DEF next
    <3> QED
      BY <2>4, <3>1, <3>2, <3>3
  <2>8. entries' = EntriesUpTo(request, config, signer)[next]
    <3>1. entries = EntriesUpTo(request, config, signer)[next - 1]
      BY <2>1, <2>4 DEF ReviewInv, FormattedSoFar
    <3> HIDE DEF next
    <3> QED
      BY <2>1, <2>3, <2>4, <3>1, EntriesOfNext
  <2>9. intent' = WholeIntent(request)
    <3>1. request.kind = "tx"
      BY <2>3, KindsDiffer
    <3>2. CASE Len(request.ops) = 1
      BY <2>1, <2>4, <3>1, <3>2 DEF WholeIntent
    <3>3. CASE Len(request.ops) # 1
      <4>1. intent = IF at = 0 THEN NoWords ELSE WholeIntent(request)
        BY <2>1 DEF ReviewInv, FormattedSoFar
      <4>2. WholeIntent(request) = NoWords
        BY <3>3 DEF WholeIntent
      <4> QED
        BY <2>1, <3>3, <4>1, <4>2
    <3> QED
      BY <3>2, <3>3
  <2>10. config' = ToFormatConfig'
    BY <2>1 DEF ToFormatConfig, GetSetting, ReviewInv, FormattedSoFar
  <2>11. FormattedSoFar'
    <3>1. next \in 0..Len(request.ops) /\ next # 0
      BY <2>4
    <3> HIDE DEF next
    <3> QED
      BY <2>1, <2>3, <2>6, <2>7, <2>8, <2>9, <2>10, <3>1
      DEF FormattedSoFar
  <2> QED
    BY <2>1, <2>5, <2>11 DEF ReviewInv, IdleIsEmpty, ReviewedIsPresentable,
                             BlindReviewMarked, ReviewIsWhole
<1> QED
  BY <1>1, <1>2

\* What is known of a transaction when its last operation has been formatted.
LEMMA LoopEnds ==
  ASSUME ReviewInv, phase = "formatting", at = Len(request.ops)
  PROVE  /\ request \in Formatted
         /\ blind <=> Contractual(request)
         /\ entries = AllEntries(request, ToFormatConfig, signer)
         /\ intent = WholeIntent(request)
<1>1. request \in Transactions /\ request.kind = "tx"
  BY KindsDiffer DEF ReviewInv, FormattedSoFar
<1>2. Len(request.ops) \in Nat /\ DOMAIN request.ops = 1..at
  BY <1>1, OperationsOfTransaction
<1>3. request \in Formatted
  BY <1>1, <1>2 DEF Formatted, ReviewInv, FormattedSoFar
<1>4. blind <=> Contractual(request)
  BY <1>1, <1>2 DEF Contractual, ReviewInv, FormattedSoFar
<1>5. entries = AllEntries(request, ToFormatConfig, signer)
  BY <1>1 DEF AllEntries, ReviewInv, FormattedSoFar
<1>6. intent = WholeIntent(request)
  <2>1. intent = IF at = 0 THEN NoWords ELSE WholeIntent(request)
    BY DEF ReviewInv, FormattedSoFar
  <2>2. at = 0 => WholeIntent(request) = NoWords
    BY DEF WholeIntent
  <2> QED
    BY <2>1, <2>2
<1> QED
  BY <1>3, <1>4, <1>5, <1>6

LEMMA ShowKeeps ==
  ASSUME ReviewInv, Show
  PROVE  ReviewInv'
<1>1. CASE blind /\ ~GetSetting("BlindSigning")
  BY <1>1, ForgetKeeps DEF Show, Refuse
<1>2. CASE ~(blind /\ ~GetSetting("BlindSigning"))
  <2>1. /\ phase = "formatting" /\ at = Len(request.ops)
        /\ phase' = "reviewing" /\ UNCHANGED <<storage, review, outcome>>
    BY <1>2 DEF Show
  <2>2. /\ request \in Formatted
        /\ blind <=> Contractual(request)
        /\ entries = AllEntries(request, ToFormatConfig, signer)
        /\ intent = WholeIntent(request)
    BY <2>1, LoopEnds
  <2>3. ReviewTypeOK'
    BY <2>1 DEF ReviewInv, ReviewTypeOK, SettingsTypeOK, review
  <2>4. BlindReviewMarked'
    <3>1. blind => SwitchIsOn("BlindSigning")
      BY <1>2, SwitchIsSetting DEF ReviewInv, ReviewTypeOK
    <3>2. SwitchIsOn("BlindSigning")' <=> SwitchIsOn("BlindSigning")
      BY <2>1 DEF SwitchIsOn
    <3> QED
      BY <2>1, <2>2, <3>1, <3>2 DEF BlindReviewMarked, review
  <2>5. ReviewIsWhole'
    <3>1. ToFormatConfig' = ToFormatConfig
      BY <2>1 DEF ToFormatConfig, GetSetting
    <3> QED
      BY <2>1, <2>2, <3>1 DEF ReviewIsWhole, review
  <2> QED
    BY <2>1, <2>2, <2>3, <2>4, <2>5
    DEF ReviewInv, IdleIsEmpty, FormattedSoFar, ReviewedIsPresentable, review
<1> QED
  BY <1>1, <1>2

LEMMA ReviewNext == ReviewInv /\ [Next]_vars => ReviewInv'
<1> SUFFICES ASSUME ReviewInv, [Next]_vars
             PROVE  ReviewInv'
  OBVIOUS
<1>1. ASSUME NEW row \in TouchedRows, Touch(row)
      PROVE  ReviewInv'
  BY <1>1, TouchKeeps
<1>2. ASSUME NEW r \in Candidates, NEW key \in Signers, StartTx(r, key)
      PROVE  ReviewInv'
  BY <1>2, StartTxKeeps
<1>3. ASSUME NEW r \in Candidates, NEW key \in Signers, StartAuth(r, key)
      PROVE  ReviewInv'
  BY <1>3, StartAuthKeeps
<1>4. CASE NextOperation
  BY <1>4, NextOperationKeeps
<1>5. CASE Show
  BY <1>5, ShowKeeps
<1>6. ASSUME NEW approved \in BOOLEAN, Answer(approved)
      PROVE  ReviewInv'
  BY <1>6, ForgetKeeps DEF Answer
<1>7. CASE Restart
  BY <1>7, ForgetKeeps DEF Restart
<1>8. CASE UNCHANGED vars
  <2>1. ReviewTypeOK'
    BY <1>8 DEF vars, review, ReviewInv, ReviewTypeOK, SettingsTypeOK
  <2>2. ToFormatConfig' = ToFormatConfig
    BY <1>8 DEF vars, ToFormatConfig, GetSetting
  <2>3. BlindReviewMarked'
    BY <1>8 DEF vars, review, ReviewInv, BlindReviewMarked, SwitchIsOn
  <2>4. ReviewIsWhole'
    BY <1>8, <2>2 DEF vars, review, ReviewInv, ReviewIsWhole
  <2>5. FormattedSoFar'
    BY <1>8, <2>2 DEF vars, review, ReviewInv, FormattedSoFar
  <2> QED
    BY <1>8, <2>1, <2>3, <2>4, <2>5
    DEF vars, review, ReviewInv, IdleIsEmpty, ReviewedIsPresentable
<1> QED
  BY <1>1, <1>2, <1>3, <1>4, <1>5, <1>6, <1>7, <1>8 DEF Next

LEMMA ReviewInvariant == Spec => []ReviewInv
<1> QED
  BY ReviewStart, ReviewNext, PTL DEF Spec

-----------------------------------------------------------------------------
(* What follows for every review. *)

\* The variables of the review stay within their types.
THEOREM ReviewTypeCorrect == Spec => []ReviewTypeOK
<1>1. ReviewInv => ReviewTypeOK
  BY DEF ReviewInv
<1> QED
  BY ReviewInvariant, <1>1, PTL

\* Wherever a contract call stands among the operations, the review is marked,
\* and a marked review is shown only while the menu's switch is on.
THEOREM MarkSafety == Spec => []BlindReviewMarked
<1>1. ReviewInv => BlindReviewMarked
  BY DEF ReviewInv
<1> QED
  BY ReviewInvariant, <1>1, PTL

\* Whatever the formatter, a review shows the whole of its request, every
\* operation in its place, under the settings as they are.
THEOREM WholeReviewSafety == Spec => []ReviewIsWhole
<1>1. ReviewInv => ReviewIsWhole
  BY DEF ReviewInv
<1> QED
  BY ReviewInvariant, <1>1, PTL

-----------------------------------------------------------------------------
(* The loop over the operations takes the one decision of ReviewVerdict. *)

Enabled == SwitchIsOn("BlindSigning")

\* Of a request that waits for its decision, what the decision is.
LEMMA VerdictOfUnparsable ==
  ASSUME NEW r \in TxRequests, r \notin Parsed
  PROVE  Verdict!Verdict(r) = "DataParsingFail"
BY DEF Verdict!Verdict

LEMMA VerdictOfUnformattable ==
  ASSUME NEW r \in Transactions, r \in Parsed, r \notin Formatted
  PROVE  Verdict!Verdict(r) = "DataFormattingFail"
<1>1. r \in TxRequests
  BY DEF TxRequests
<1> QED
  BY <1>1 DEF Verdict!Verdict

LEMMA VerdictOfPresentable ==
  ASSUME NEW r \in Transactions, r \in Parsed, r \in Formatted
  PROVE  Verdict!Verdict(r) = IF r \in Soroban /\ ~Enabled
                              THEN "BlindSigningModeNotEnabled" ELSE "Ok"
<1>1. r \in TxRequests
  BY DEF TxRequests
<1> QED
  BY <1>1 DEF Verdict!Verdict, Enabled

LEMMA VerdictOfAuthorization ==
  ASSUME NEW r \in Candidates \ TxRequests
  PROVE  Verdict!Verdict(r) = IF ~Enabled THEN "BlindSigningModeNotEnabled"
                              ELSE IF r \in ParsedAuthorizations THEN "Ok"
                              ELSE "DataParsingFail"
<1>1. r \notin Parsed /\ r \notin Formatted
  BY DEF Parsed, Formatted, TxRequests
<1> QED
  BY <1>1 DEF Verdict!Verdict, Enabled

\* A request that can be presented parses.
LEMMA FormattedIsParsed ==
  ASSUME NEW r \in Formatted
  PROVE  r \in Transactions /\ r \in Parsed
BY DEF Formatted, Parsed, ParsesSoFar, Unpresentable

\* A step that leaves the storage as it is leaves the switch as it is.
LEMMA EnabledSame ==
  ASSUME UNCHANGED storage
  PROVE  Enabled' = Enabled
BY DEF Enabled, SwitchIsOn

VerdictVars == <<request, phase = "reviewing", Enabled, outcome>>

\* A refusal with the verdict's word declines the request.
LEMMA RefuseDeclines ==
  ASSUME NEW p, NEW word, Refuse(word), Verdict!Verdict(p) = word, word # "Ok",
         phase # "reviewing"
  PROVE  Verdict!Decline(p)
<1>1. /\ request' = Nothing /\ outcome' = word
      /\ (phase' = "reviewing") = (phase = "reviewing")
      /\ UNCHANGED storage
  BY DEF Refuse, Forget
<1>2. Enabled' = Enabled
  BY <1>1, EnabledSame
<1> QED
  BY <1>1, <1>2 DEF Verdict!Decline, Enabled

LEMMA TouchVerdict ==
  ASSUME ReviewInv, NEW row \in TouchedRows, Touch(row)
  PROVE  Verdict!Configure \/ UNCHANGED VerdictVars
<1>1. /\ phase = "home" /\ request = Nothing
      /\ UNCHANGED <<phase, request, outcome>>
  BY DEF Touch, review, ReviewInv, IdleIsEmpty
<1>2. row \in 1..5
  BY RowOfBlindSigning, RequestAssumption
<1>3. Enabled <=> storage[0] = 1
  BY EnabledIsByte DEF Enabled
<1>4. Enabled' <=> storage'[0] = 1
  BY EnabledIsByteNext DEF Enabled
<1>5. storage \in [0..(SETTINGS_SIZE - 1) -> {0, 1}] /\ 0 \in 0..(SETTINGS_SIZE - 1)
  BY SettingsSizeAssumption DEF ReviewInv, ReviewTypeOK, SettingsTypeOK
<1>6. storage' = [storage EXCEPT ![row - 1] = 1 - @]
  BY DEF Touch, ToggleRow
<1>7. CASE row = 1
  <2>1. storage'[0] = 1 - storage[0] /\ storage[0] \in {0, 1}
    BY <1>5, <1>6, <1>7
  <2>2. Enabled' <=> ~Enabled
    BY <1>3, <1>4, <2>1
  <2>3. Enabled' = ~Enabled
    BY <2>2 DEF Enabled, SwitchIsOn
  <2> QED
    BY <1>1, <2>3 DEF Verdict!Configure, Enabled
<1>8. CASE row # 1
  <2>1. row - 1 # 0
    BY <1>2, <1>8
  <2>2. storage'[0] = storage[0]
    BY <1>5, <1>6, <2>1
  <2>3. Enabled' <=> Enabled
    BY <1>3, <1>4, <2>2
  <2>4. Enabled' = Enabled
    BY <2>3 DEF Enabled, SwitchIsOn
  <2> QED
    BY <1>1, <2>4 DEF VerdictVars
<1> QED
  BY <1>7, <1>8

LEMMA StartTxVerdict ==
  ASSUME ReviewInv, NEW r \in Candidates, NEW key \in Signers, StartTx(r, key)
  PROVE  Verdict!Receive \/ \E p \in Verdict!Decidable : Verdict!Decline(p)
<1>1. /\ phase = "home" /\ request = Nothing /\ r \in TxRequests
  BY DEF StartTx, ReviewInv, IdleIsEmpty, Transactions, TxRequests
<1>2. CASE r.kind = "unparsable tx"
  <2>1. Refuse("DataParsingFail")
    BY <1>2 DEF StartTx
  <2>2. r \notin Parsed
    BY <1>2 DEF Parsed, Transactions
  <2>3. Verdict!Verdict(r) = "DataParsingFail"
    BY <1>1, <2>2, VerdictOfUnparsable
  <2>4. r \in Verdict!Decidable
    BY <1>1, <2>2 DEF Verdict!Decidable
  <2> QED
    BY <1>1, <2>1, <2>3, <2>4, RefuseDeclines
<1>3. CASE r.kind # "unparsable tx"
  <2>1. /\ request' = r
        /\ (phase' = "reviewing") = (phase = "reviewing")
        /\ UNCHANGED <<storage, outcome>>
    BY <1>1, <1>3 DEF StartTx
  <2>2. Enabled' = Enabled
    BY <2>1, EnabledSame
  <2> QED
    BY <1>1, <2>1, <2>2 DEF Verdict!Receive, Enabled
<1> QED
  BY <1>2, <1>3

LEMMA StartAuthVerdict ==
  ASSUME ReviewInv, NEW r \in Candidates, NEW key \in Signers, StartAuth(r, key)
  PROVE  \E p \in Verdict!Decidable : Verdict!Present(p) \/ Verdict!Decline(p)
<1>1. phase = "home" /\ request = Nothing /\ r \in Candidates \ TxRequests
  BY DEF StartAuth, ReviewInv, IdleIsEmpty, Transactions, TxRequests
<1>2. r \in Verdict!Decidable
  BY <1>1 DEF Verdict!Decidable
<1>3. Enabled <=> GetSetting("BlindSigning")
  BY SwitchIsSetting DEF ReviewInv, ReviewTypeOK, Enabled
<1>4. CASE ~Enabled
  <2>1. Refuse("BlindSigningModeNotEnabled")
    BY <1>3, <1>4 DEF StartAuth
  <2>2. Verdict!Verdict(r) = "BlindSigningModeNotEnabled"
    BY <1>1, <1>4, VerdictOfAuthorization
  <2> QED
    BY <1>1, <1>2, <2>1, <2>2, RefuseDeclines
<1>5. CASE Enabled /\ r.kind = "unparsable auth"
  <2>1. Refuse("DataParsingFail")
    BY <1>3, <1>5 DEF StartAuth
  <2>2. Verdict!Verdict(r) = "DataParsingFail"
    BY <1>1, <1>5, VerdictOfAuthorization DEF ParsedAuthorizations
  <2> QED
    BY <1>1, <1>2, <2>1, <2>2, RefuseDeclines
<1>6. CASE Enabled /\ r.kind # "unparsable auth"
  <2>1. /\ phase' = "reviewing" /\ request' = r
        /\ UNCHANGED <<storage, outcome>>
    BY <1>3, <1>6 DEF StartAuth
  <2>2. r \in ParsedAuthorizations
    BY <1>6 DEF StartAuth, ParsedAuthorizations
  <2>3. Verdict!Verdict(r) = "Ok"
    BY <1>1, <1>6, <2>2, VerdictOfAuthorization
  <2>4. Enabled' = Enabled
    BY <2>1, EnabledSame
  <2>5. Verdict!Present(r)
    BY <2>1, <2>3, <2>4 DEF Verdict!Present, Enabled
  <2> QED
    BY <1>2, <2>5
<1> QED
  BY <1>4, <1>5, <1>6

\* The loop ends at the first operation that cannot be presented, with the word
\* for the whole transaction.
LEMMA NextOperationVerdict ==
  ASSUME ReviewInv, NextOperation
  PROVE  \/ \E p \in Verdict!Decidable : Verdict!Present(p) \/ Verdict!Decline(p)
         \/ UNCHANGED VerdictVars
<1> DEFINE next == at + 1
           op == request.ops[next]
<1>1. /\ phase = "formatting" /\ request \in Transactions
      /\ at \in 0..Len(request.ops) /\ at < Len(request.ops)
      /\ \A i \in 1..at : ~Unpresentable(request.ops[i])
  BY DEF NextOperation, ReviewInv, FormattedSoFar
<1>2. /\ DOMAIN request.ops = 1..Len(request.ops) /\ Len(request.ops) \in Nat
      /\ next \in DOMAIN request.ops /\ 1..(next - 1) = 1..at
  BY <1>1, OperationsOfTransaction
<1>3. request \in Verdict!Decidable
  <2>1. request # Nothing
    BY <1>1, KindsDiffer
  <2> QED
    BY <1>1, <2>1 DEF Verdict!Decidable
<1>4. CASE op.type = "unparsable"
  <2>1. Refuse("DataParsingFail")
    BY <1>4 DEF NextOperation
  <2>2. request \notin Parsed
    <3>1. ~\E j \in 1..(next - 1) : request.ops[j].type # "unparsable"
              /\ ~Formats(request.ops[j])
      BY <1>1, <1>2 DEF Unpresentable
    <3> HIDE DEF next
    <3> QED
      BY <1>2, <1>4, <3>1 DEF Parsed, ParsesSoFar
  <2>3. Verdict!Verdict(request) = "DataParsingFail"
    BY <1>1, <2>2, VerdictOfUnparsable DEF TxRequests
  <2>4. Verdict!Decline(request)
    BY <1>1, <2>1, <2>3, RefuseDeclines
  <2> QED
    BY <1>3, <2>4
<1>5. CASE op.type # "unparsable" /\ ~Formats(op)
  <2>1. Refuse("DataFormattingFail")
    BY <1>5 DEF NextOperation
  <2>2. request \notin Formatted
    BY <1>2, <1>5 DEF Formatted, Unpresentable
  <2>3. request \in Parsed
    <3>1. ASSUME NEW i \in DOMAIN request.ops, request.ops[i].type = "unparsable"
          PROVE  \E j \in 1..(i - 1) :
                   /\ request.ops[j].type # "unparsable" /\ ~Formats(request.ops[j])
                   /\ \A k \in 1..(j - 1) : request.ops[k].type # "unparsable"
      <4>1. i \notin 1..at /\ i # next
        BY <1>1, <1>5, <3>1 DEF Unpresentable
      <4>2. next \in 1..(i - 1)
        BY <1>1, <1>2, <4>1
      <4>3. \A k \in 1..(next - 1) : request.ops[k].type # "unparsable"
        BY <1>1, <1>2 DEF Unpresentable
      <4> HIDE DEF next
      <4> QED
        BY <1>5, <4>2, <4>3
    <3> QED
      BY <1>1, <3>1 DEF Parsed, ParsesSoFar
  <2>4. Verdict!Verdict(request) = "DataFormattingFail"
    BY <1>1, <2>2, <2>3, VerdictOfUnformattable
  <2>5. Verdict!Decline(request)
    BY <1>1, <2>1, <2>4, RefuseDeclines
  <2> QED
    BY <1>3, <2>5
<1>6. CASE op.type # "unparsable" /\ Formats(op)
  <2>1. UNCHANGED <<storage, phase, request, outcome>>
    BY <1>6 DEF NextOperation
  <2>2. Enabled' = Enabled
    BY <2>1, EnabledSame
  <2> QED
    BY <2>1, <2>2 DEF VerdictVars
<1> QED
  BY <1>4, <1>5, <1>6

LEMMA ShowVerdict ==
  ASSUME ReviewInv, Show
  PROVE  \E p \in Verdict!Decidable : Verdict!Present(p) \/ Verdict!Decline(p)
<1>1. /\ phase = "formatting" /\ at = Len(request.ops)
      /\ request \in Formatted /\ (blind <=> Contractual(request))
  BY LoopEnds DEF Show
<1>2. request \in Transactions /\ request \in Parsed
  BY <1>1, FormattedIsParsed
<1>3. request \in Verdict!Decidable
  <2>1. request # Nothing
    BY <1>2, KindsDiffer
  <2> QED
    BY <1>1, <2>1 DEF Verdict!Decidable
<1>4. Enabled <=> GetSetting("BlindSigning")
  BY SwitchIsSetting DEF ReviewInv, ReviewTypeOK, Enabled
<1>5. request \in Soroban <=> blind
  BY <1>1, <1>2 DEF Soroban
<1>6. CASE blind /\ ~Enabled
  <2>1. Refuse("BlindSigningModeNotEnabled")
    BY <1>4, <1>6 DEF Show
  <2>2. Verdict!Verdict(request) = "BlindSigningModeNotEnabled"
    BY <1>1, <1>2, <1>5, <1>6, VerdictOfPresentable
  <2> QED
    BY <1>1, <1>3, <2>1, <2>2, RefuseDeclines
<1>7. CASE ~(blind /\ ~Enabled)
  <2>1. phase' = "reviewing" /\ UNCHANGED <<storage, request, outcome>>
    BY <1>4, <1>7 DEF Show, review
  <2>2. Verdict!Verdict(request) = "Ok"
    BY <1>1, <1>2, <1>5, <1>7, VerdictOfPresentable
  <2>3. Enabled' = Enabled
    BY <2>1, EnabledSame
  <2>4. Verdict!Present(request)
    BY <2>1, <2>2, <2>3 DEF Verdict!Present, Enabled
  <2> QED
    BY <1>3, <2>4
<1> QED
  BY <1>6, <1>7

LEMMA VerdictStep ==
  ASSUME ReviewInv, [Next]_vars
  PROVE  Verdict!Next \/ UNCHANGED VerdictVars
<1> USE DEF Verdict!Next
<1>1. ASSUME NEW row \in TouchedRows, Touch(row)
      PROVE  Verdict!Next \/ UNCHANGED VerdictVars
  BY <1>1, TouchVerdict
<1>2. ASSUME NEW r \in Candidates, NEW key \in Signers, StartTx(r, key)
      PROVE  Verdict!Next
  BY <1>2, StartTxVerdict
<1>3. ASSUME NEW r \in Candidates, NEW key \in Signers, StartAuth(r, key)
      PROVE  Verdict!Next
  BY <1>3, StartAuthVerdict
<1>4. CASE NextOperation
  BY <1>4, NextOperationVerdict
<1>5. CASE Show
  BY <1>5, ShowVerdict
<1>6. ASSUME NEW approved \in BOOLEAN, Answer(approved)
      PROVE  Verdict!Next
  <2>1. /\ phase = "reviewing" /\ phase' = "home" /\ request' = Nothing
        /\ outcome' \in {"approved", "denied"} /\ UNCHANGED storage
    BY <1>6 DEF Answer, Forget
  <2>2. Enabled' = Enabled
    BY <2>1, EnabledSame
  <2> QED
    BY <2>1, <2>2 DEF Verdict!Answer, Enabled
<1>7. CASE Restart
  <2>1. /\ phase' = "home" /\ request' = Nothing /\ outcome' = "none"
        /\ UNCHANGED storage
    BY <1>7 DEF Restart, Forget
  <2>2. Enabled' = Enabled
    BY <2>1, EnabledSame
  <2> QED
    BY <2>1, <2>2 DEF Verdict!Restart, Enabled
<1>8. CASE UNCHANGED vars
  <2>1. UNCHANGED <<storage, phase, request, outcome>>
    BY <1>8 DEF vars, review
  <2>2. Enabled' = Enabled
    BY <2>1, EnabledSame
  <2> QED
    BY <2>1, <2>2 DEF VerdictVars
<1> QED
  BY <1>1, <1>2, <1>3, <1>4, <1>5, <1>6, <1>7, <1>8 DEF Next

\* The device starts with the switch off and no request.
LEMMA VerdictStart == Init => Verdict!Init
<1> SUFFICES ASSUME Init PROVE Verdict!Init
  OBVIOUS
<1>1. storage[0] # 1
  BY SettingsSizeAssumption DEF Init, SettingsInit, DEFAULT_SETTINGS
<1>2. Enabled = FALSE
  BY <1>1, EnabledIsByte DEF Enabled
<1> QED
  BY <1>2 DEF Init, Verdict!Init, Enabled

\* The loop over the operations, which parses and formats each in its turn,
\* implements the one decision the model of the command loop takes.
THEOREM LoopDecidesAsOne == Spec => DecidesAsOne
<1>1. ReviewInv /\ [Next]_vars => [Verdict!Next]_VerdictVars
  BY VerdictStep
<1>2. [Verdict!Next]_VerdictVars
        => [Verdict!Next]_<<request, phase = "reviewing", SwitchIsOn("BlindSigning"), outcome>>
  BY DEF VerdictVars, Enabled
<1> QED
  BY VerdictStart, ReviewInvariant, <1>1, <1>2, PTL DEF Spec, DecidesAsOne, Verdict!Spec
=============================================================================
