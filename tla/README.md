# TLA+ models of the Ledger Stellar application

The application runs on a Ledger device. A host sends it APDUs; it derives keys,
shows requests on its screen, and signs what its owner approves. Called by the
Exchange application it signs one swap without a review, after checking the
transaction against parameters its owner has already approved.

The specifications in this directory model that program: its command loop, the
protocol by which a request arrives in pieces, the parser, what a review shows of a
request, what happens between a review and a signature, and the swap mode. TLC checks
them on small instances; TLAPS proves most of the safety properties for every value of
the constants.

## 1. Inventory

| Part | Code | State | Operations | What makes it correct |
| --- | --- | --- | --- | --- |
| Instruction table | `src/main.rs` 50-143 | none | header to instruction, or a refusal | every header has one meaning |
| Receive context | `src/context.rs`, `src/bip32.rs` | path, raw data, `review_finished` | `reset`, `handle_chunk`, `extend_from_slice` | bounded; a request is never a mix of two, never has a hole |
| Main loop | `src/main.rs` 146-244 | the command under way, the screen | take a command, reply, show a status | the reply belongs to the command; the loop always comes back |
| Handlers | `src/handlers/` | values on the stack across a review | six commands | only what was reviewed and approved is signed |
| Review screens | `src/app_ui/` | what is on the screen | prepare, show, answer | the review shows the whole request |
| Settings | `src/settings.rs`, `src/app_ui/menu.rs` | five switches in non-volatile memory | read, toggle | blind signing only when enabled; a row of the menu switches what it says |
| Cryptography | `src/crypto.rs` | none (operating system) | derive, hash, sign, each may fail | a failure is never taken for a success |
| Swap session | `src/swap/mod.rs`, `apdu.rs` | parameters, context, result | check address, sign, amount text | at most one signature, for what was agreed; truthful result |
| Swap validation | `src/swap/validation.rs` | none | a dozen checks | the network will do what the parameters say |
| XDR parser | `stellarlib/src/parser.rs`, the loops of `app_ui/sign_tx.rs` | offset, depth, the calls under way | read, recurse, pad, reserve | reads stay inside the data, recursion is bounded, loops end |
| Formatter | `stellarlib/src/formatter.rs`, `token_formatter.rs`, `tokens.rs`, `serialize.rs` | list of entries | one function per operation | nothing that matters is left out, under any settings |
| Numbers and text | `stellarlib/src/display.rs`, `swap-utils/src/` | none | decimal, separators, base32, CRC | what is shown denotes the value; an address determines its key |
| Client | `tests/application_client/` | the job under way | split and send | (environment: the reference use of the protocol) |

How they interact. `sample_main` owns the context and calls one handler at a time;
a handler calls the context (`handle_chunk`), the screens (`review.show`, which
returns when the user has answered) and the cryptography. There are no threads.
What is concurrent is outside: the host, other programs on the host, the user, and
power. The host is trusted with nothing. The client and the device share the
context only through the APDUs it accumulates, and neither can tell the other that
it lost its state.

What is hard. The order of APDUs is the host's choice, so every handler meets every
state of the context. The context is read twice, before the review and after it. A
refused chunk may or may not change the context, and the session goes on. A restart
loses the context and keeps the settings. After a failure the loop goes on without
a screen. In swap mode there is no user to catch a mistake, and the result handed
to Exchange must agree with what went out. PROJECT.json lists these hazards at
their lines.

## 2. Modules

| Module | Models | Used by |
| --- | --- | --- |
| `AppContext` | the receive context | `AppSession`, `SwapSession` |
| `Instructions` | APDU headers | `AppSession`, `SwapSession` |
| `AppSession` | main loop, handlers, screens, the blind signing switch | `ChunkedTransfer` |
| `SigningPromise` | the promise to the owner, without the protocol (abstract) | `AppSession` |
| `ChunkedTransfer` | a client of the chunk protocol, other programs, restarts, with `AppSession` | |
| `SwapValidation` | the checks before a swap is signed | `SwapSession` |
| `SwapSession` | the application called by Exchange | |
| `PrintableAmount` | the amount Exchange shows, in its fixed buffer | `SwapSession` |
| `Decimals` | numbers and durations as a review shows them | `ScValText`, `SwapSession` |
| `ScValText` | a contract's value as one line: JSON, map keys, addresses | `OperationText` |
| `OperationText` | the entries of every operation, and the words of its title | `ReviewText` |
| `ReviewText` | the entries around those of the operations, and the title | `ReviewPromise` |
| `Settings` | the record of switches and the menu over it | `TxReview` |
| `TxReview` | the review of a transaction or an authorization, operation by operation, for any formatter | `ReviewPromise` |
| `ReviewVerdict` | a review as the command loop sees it: one decision (abstract) | `TxReview` |
| `ReviewPromise` | `TxReview` with the real formatter, what a review leaves out, and the properties that rest on it | |
| `AccountAddress` | from the operating system's key to an address | |
| `XdrParser` | the cursor, the recursion budget and the calls of the parser, for any grammar | `XdrGrammar` |
| `XdrGrammar` | what each type reads: the grammar of `parser.rs` | |
| `SessionProofs` | theorems about `AppSession` and `ChunkedTransfer` | |
| `AppContextProofs` | lemmas about `AppContext` | `SessionProofs`, `SwapSessionProofs` |
| `SwapSessionProofs` | theorems about `SwapSession` | |
| `AmountProofs` | lemmas about `PrintableAmount` and `Decimals`: the two texts of an amount | `SwapSessionProofs` |
| `XdrParserProofs` | theorems about `XdrParser` | |
| `ReviewProofs` | theorems about `TxReview` | |
| `AddressProofs` | theorems about `AccountAddress` | |
| `RecursiveFunctions` | lemmas about induction, about functions defined by recursion and about sequences joined together | the proofs |
| `MCAppSession`, `MCChunkedTransfer`, `MCSwapSession`, `MCXdrParser`, `MCTxReview`, `MCAccountAddress` | values of the constants for TLC | |

A definition whose comment begins "A faulty ..." is no part of the model: it is what
a plausible mistake would make of the definition after it, kept to show that a
property can tell the difference.

### AppContext

Data is a sequence of symbols: a member of `Path` is the 13 bytes of a well-formed
derivation path, a member of `Block` a run of any other bytes. The code reads a path
only at the head of a first chunk; anywhere else a path symbol is payload.
`HandleChunk` is the whole of `handle_chunk`: the transport's error before anything
else, the reset of a first chunk *before* its path is read, and the append that is
refused as a whole when it does not fit.

### AppSession

`phase` is the place the loop has reached: waiting for a command, in a review, past
an approved review, on a status screen, on the "Go to settings" question. A handler
stops only at its review, so the code before a review is one action and the code
after it another (`Complete`). `ctx` is the context, `local` what the handler keeps
on its stack across the review, `shown` what the review was built from, `reply` the
last answer, `screen` what was drawn last.

What parses, what can be formatted and what holds an `InvokeHostFunction` operation
are parameters (`TxParses`, `TxFormats`, `TxSoroban`, `AuthParses`): the session is
correct whatever they are. (`XdrParser` says how a parse runs; `TxReview` what a
review shows, when it is refused and when it is marked. `DecidesAsOne` says which sets
these four are for the real formatter, and that its loop over the operations comes to the
one decision `TxVerdict` and `AuthVerdict` make of it.) A
signature is the instruction, the key and the payload; the three ways a payload is
digested are told apart by the instruction. `ToSign` takes each component from where
the handler takes it: `handler_sign_tx` and `handler_sign_soroban_auth` read the
context again after the review, `handler_sign_message` uses the digest it computed
before the review with the context's path, `handler_sign_hash` uses its stack.

`Restart` stands for an exit, a loss of power and a panic: all lose the memory and
keep the settings.

Three things the code does that a reader might not expect, and that the properties
allow for by name:

- `review_finished` is cleared by the next first chunk, not when the request is
  decided. A chunk with `P1 = 0x80` and `P2 = 0x80` that continues a decided request
  is stored and followed by a success status. Nothing is signed (`SuccessIsEarned`
  names the exception).
- After an approved review, a failure of the cryptographic calls is replied without
  a status, so the screen is not drawn again (`HomeRestored` names the exception).
- `SignHash` resets the context even when it is then refused; `GetPubkey` and
  `GetConfiguration` do not touch it.

### ChunkedTransfer

The client is the one in `tests/application_client`: the path in a first APDU of its
own, the data in pieces, the last piece marked, each exchange answered before the
next, an error ending the job. Other programs may send the commands that are not
chunked at any time between two exchanges (`Bystander`), and the device may restart.
Two clients that both stream chunks are *not* modelled as correct: the protocol names
no stream, so the code cannot keep them apart, and only the review protects the owner.

### SwapValidation and SwapSession

The checks are one predicate, as the reason of a refusal is only logged. Numbers are
big-endian digits in a smaller base with shorter words (`BASE`, `U64_BYTES`,
`U32_BYTES`), which keeps the cases that matter: a length of zero, a length longer
than a word, non-zero digits before the stated length, a fee too large for its field.
`SignedIsAgreed` does not use the checks: `Denotes` and `ActsFor` say what the
network will make of the transaction. `streamed` is a history variable, everything
received since the last first chunk.

`get_printable_amount` writes its text with `PrintableAmount`, a second implementation
of the conversion of `Decimals`: without allocation, into a buffer of fixed size.
The code divides by ten into an array; `Quotients` is what each division leaves,
`Slots` the array. Whether everything fits depends on the constants alone, and
`BufferAssumption` says it the way a comment of `handle_printable_amount_command` does
(`src/swap/mod.rs` 68): twelve figures, the point, seven places and the unit are 24 of
its 32 bytes. `PrintedDenotes` reads the text back with a reader of its own (`Reads`),
and `PrintedAsReviewed` compares the two implementations. Their numbers of decimal places
are two constants in two packages (`swap-utils/src/format.rs` 149 and
`stellarlib/src/display.rs` 21), both 7: `PlacesAgree`.

The session ends by `swap_return`, which does not come back: deadlock is not checked
in its runs.

### TxReview and what it shows

`TxReview` is `ui_sign_tx` and `ui_sign_soroban_auth`: the header is formatted, then one
operation after another, with the configuration read from the settings at the start;
then the review is refused or shown, and the user answers. A refusal comes from the
bytes of the header (`unparsable tx`, `unparsable auth`) or of an operation
(`unparsable`), from the formatter (`Formattable`; a header that parses is formatted
without an error) or from the switch; all of them leave nothing behind. The settings change at the home screen, `Touch`, and survive
`Restart`.

The formatter is a parameter of `TxReview` (`Formats`, `HeaderOf`, `AuthorizationOf`,
`OperationOf`, `IntentOf`): what is proved of the loop holds whatever it writes.
`ReviewText` and `OperationText` are the real one, and `ReviewPromise` puts the two
together. `ReviewIsWhole` says that what is on the screen is the header and the entries
of every operation, each in its place, under the settings of that moment (`AllEntries`
says it without the loop); `BlindReviewMarked` says when a review carries the warning.

An entry is a title and a content. A content is the tuple of its parts: an amount, an
asset, an address are parts, and the punctuation between them is left out. Characters
are modelled where the code counts or cuts them: the digits of a number, the bytes of an
asset code, the two ends of an abbreviated issuer (a key is three runs of characters:
those an abbreviation keeps at the start, those it leaves out, those it keeps at the
end). Two contents of different structure count as different. Where free text shares its
place on the screen with what the code writes itself, in the values of contracts and in
the home domain, the candidates hold texts that spell what the code writes; a memo, a
data value and a name of a function have an entry of their own that nothing else uses.

A line of a contract value is bare text or JSON text (`ScValText`). The distinction
between `"text"` and `"json"` lets a map whose key is the JSON text of another map be
modelled: its line is the same.

`ReviewPromise` says what the screen promises. `Meaning(r, config)` is the request
without what a review leaves out; it is defined on the request, so it can disagree with
the formatter, and `ReviewTells` says that whatever else differs is seen. It asks the
formatter one thing: which values a free text spells, among `Spellable`, the values (no
texts themselves) that an instance has a text for. What `Meaning` forgets is a list
worth reading:

- always: which of two unknown networks; the path of a path payment; of an issuer,
  everything but three characters at the start and four at the end (`ChangeTrust` alone
  shows the whole); of a price, what lies beyond the seventh decimal place; unknown flags
  beside known ones; the difference between creating an account and paying it lumens,
  and between a passive offer and one that is not; everything of a removed offer but its
  number; a least sequence number of zero; the age to which a footprint is extended; whether
  a home domain is emptied or spells `[set home domain to empty]` (`formatter.rs:881`);
- of contracts: the code that is uploaded; what the address of a created contract derives
  from; the types of numbers and of texts; whether an absent value is a list, a map or
  nothing; an error of the host from a map of its type and its value; what the two
  values hold that are never used (`ContractInstance`, `LedgerKeyNonce`); the
  authorizations that are not by the source account, and the root call of those that are;
- of contracts, whether a value is a text or what the text spells. An argument and the
  key of a map are shown bare (`scval_to_key_string`, `serialize.rs:94`), so that the text
  `5` reads as the number, `true` as the truth value, `[void]` as nothing, an address, a
  date or a duration as themselves, and `["5"]` as a list of one number. Within a list,
  and as the value of a map's entry, a text is quoted, so it is taken only for what is
  quoted as well: numbers, addresses, dates, durations;
- of a map's entries whose keys are shown alike, all but the last: the number 5 and the
  text `5`, `true` and its text, nothing and `[void]`, a list and its JSON text become one
  key, and the values of the earlier ones are not on the screen at all;
- by the settings: the sequence number and the nonce, the preconditions, the nested
  authorizations; and the source of a transaction only where it is the signer's account.

`MenuGovernsReview` says that the settings leave out nothing beyond their labels;
`TitleAgrees` that the two passes over an operation, one for its title and one for its
entries, decide alike.

`ReviewVerdict` is the abstract specification that joins this module to `AppSession`: a
request is received and decided as a whole. `TxReview` implements it under the mapping
`Verdict` (`DecidesAsOne`). The mapping gives `AppSession`'s parameters their
values, one of which might surprise: an operation that cannot be formatted hides a later
one that cannot be parsed, so `TxParses` holds transactions that do not parse to their
end.

### AccountAddress

The conversion of the operating system's uncompressed key, the checksum with its real
table, and the base32 loop with its overflowing buffer, byte by byte. The properties use
a bit-by-bit division (`Remainder`) and the bits as a sequence (`AllBits`), not the
table or the shifts of the code. A shift multiplies or divides by a power of two (`TwoTo`),
and the exclusive or is a recursive function on pairs of numbers (`Exclusive`), so that both can be
reasoned about. Two assumptions are about data, and TLC evaluates both:
`TableAssumption`, that each of the 256 entries of the table is the remainder of its
index, and `KeyAssumption`, that y is below the prime of the field, so that its highest bit is
free to carry the sign, and that `ADDRESS_LEN` (56) is the number of characters that the bytes
of an address make. The machine stops when the address is written: deadlock is not
checked in its run.

### XdrParser and XdrGrammar

`XdrParser` is the part of `parser.rs` that its types share, as a machine; `XdrGrammar`
is the table of what each type reads, in the source's order and under its names. The
Rust call stack is `stack`: a frame is a call of `T::parse`, with the fields it has
yet to parse and, for a loop, the passes to come. A call costs a level of the budget
(`depth`) where the code calls `enter_recursion`: `VecM` and `ClaimPredicate`, and no
other type. `parse_with_depth`, which would add levels, has no caller.

- The parser reads each byte once, from left to right, so tags, lengths and
  `op_count` are chosen when they are read, and the data are only their length.
- Every error ends the parse, and every caller maps it to one status word (the swap
  to one refusal), so `Refuse` is one action with the reasons in `Refusable`. It
  leaves `depth` as it is; the parser is dropped with the levels it had spent.
- `VecM::parse` reserves room for the length it has read before it reads an item.
  `Abort` is the reservation that fails: the allocator's error ends the application
  (`Restart` of `AppSession`). `HEAP` is the largest reservation that may succeed.
- The path of a path payment is a loop over the data that is not a `VecM`: it is
  neither counted nor kept.
- Runs of fields whose content the parser never looks at are one run of bytes.

`reach`, `fresh` and the `at` of a frame are history. `Reading` names types that cannot
be parsed without reading a byte; every loop has one among what a pass parses
(`PassAssumption`, which TLC evaluates on the real grammar), and `EveryPassReads` says that
no pass ends before the cursor has moved. The three roots are what the handlers
call: the header and operations of a transaction with one parser (`SignTx`), the
preimage of an authorization, and one `Operation`, as the loops meet it when the header
leaves no level spent (`DepthIsNesting` for `SignTx` is what justifies starting there).

## 3. Runs

| Run | Shows | Instance |
| --- | --- | --- |
| `session` | `TypeOK`, `ReviewedIsSigned`, `BlindOnlyWhenEnabled`, `SuccessIsEarned`, `HomeRestored`, and that `AppSession` implements `SigningPromise` | 2 keys, 1 block, a buffer of 2 symbols, all data up to 2 symbols, all accepted headers and refused ones of each kind |
| `config_length` | violation: the documented length of `GET_APP_CONFIGURATION`'s response is 4, the handler appends 6 bytes | as `session` |
| `transfer` | `DeliveredWhole`, `BufferIsAcknowledgedPrefix` | 2 keys, 2 blocks, jobs of one piece, two pieces, and three pieces that overflow the buffer before the last, three bystander commands |
| `transfer_live` | `EveryJobEnds` | two jobs, no bystanders (they do not interfere with progress), restarts |
| `swap` | `SignedIsAgreed`, `SignedIsWholeStream`, `ResultIsTruthful`, `AtMostOneSignature` | one good transaction and one for every way of disagreeing, parameters good and malformed in each field, a buffer of 2 |
| `printable` | `PrintedDenotes`, `PrintedAsReviewed` | amounts at every edge: zero, one unit, a full fraction, trailing zeros, the largest amount and the next; a buffer that the longest text just fills; two decimal places |
| `review_headers` | `ReviewTypeOK`, `ReviewIsWhole`, `ReviewTells`, `MenuGovernsReview`, and that `TxReview` implements `ReviewVerdict` (`DecidesAsOne`) | four networks, plain and fee bump, sources equal, muxed and different; every memo and precondition; up to three operations, each a payment, a call, one that cannot be parsed or one that cannot be formatted, in every order of two; a header that cannot be parsed; authorizations with two nonces; two signers; four switches touched in any order |
| `review_classic` | `ReviewTells`, `TitleAgrees` | every classic operation with values at its edges: zero and negative amounts, codes with zeros inside, prices that round alike, offers of each kind, each ledger key, a home domain that spells the emptied one, a credit asset with the code of the native one; the default settings |
| `review_contracts` | `ReviewTells`, `MenuGovernsReview`, `BlindReviewMarked` | calls with every one of 138 values: every type, lists and maps nested twice, for each way of being shown a text that spells it (as an argument, in a list, as a map's key and as its value), and maps of two entries with every pair of eight keys, four pairs of which are shown alike; known and unknown tokens, trees of authorizations that flatten alike but for their numbers; two switches |
| `account_address` | `ChecksumDivides`, `NothingLost`, `AddressNamesKey` | keys of two bytes, the last byte of y taking all its values; a buffer of 13 bits, one more than the loop needs |
| `xdr` | `TypeOK`, `ReadsInside`, `DepthIsNesting`, `StackBounded`, `EveryPassReads` | the whole grammar; data of 20 and of 112 bytes, a budget of 3 levels, a 16-bit `usize`, lengths and counts 0, 2, 65532 and 65534 |
| `swap_memo` | violation: "Memo matches the extra ID" (`validation.rs:70`), but the escaped memo is compared | as `swap` |

Why the bounds are enough. The code treats the data of a request as a whole: it is
appended, measured and handed on, never looked into by the session. Two symbols of
capacity let a request be empty, partial, full and refused; two paths let a key be
the wrong one; a path symbol inside the payload lets a misplaced path be mistaken for
a key. The host has no memory and needs none, since every action is possible whenever
the loop waits. The proofs remove the bounds for the results of section 4.

For `xdr`: 112 bytes hold the header of a transaction with its first operations, 20 the
deepest nesting of an operation or an end of the data in the middle of any of its fields.
Three levels are enough to nest a list in a predicate in a list and to be refused a
fourth. With the narrow `usize`, the padding of 65534 bytes overflows and the sum of 65532
with the offset saturates, as for 2^32 - 2 and 2^32 - 4 on the device. `CHAIN` is 12, the longest
chain of calls between two levels in the real grammar; TLC evaluates `ChainAssumption`
and refuses 11. With the code's `MAX_PARSE_DEPTH` of 32, `StackSafety` then bounds the
nesting of calls by 33 * 12.

For the reviews: the formatter treats operations one by one, and a transaction of two
or three operations shows that the numbering keeps them apart; the settings are read
once, so each family of candidates is checked under the switches that concern it.
`ReviewTells` compares the request on the screen with *every* candidate, so the families
are built of neighbours: pairs that differ in one field, and pairs that the rendering
could confuse. Two decimal places, asset codes of two and more bytes and pieces of a wide
integer that count to 100 stand for 7, 4 and 2^64: each value lies on both sides of the
edge in question. `KEY_BYTES` of 2 is, like 32, a length after which the base32 loop has
no bits left over, so the code after that loop is reached with `bits_in_buffer` at zero
only, as on the device. The sweep of the last byte of y makes the checksum index every
entry of its table.

Fairness. `AppSession` has none: its properties are safety properties.
`ChunkedTransfer` assumes that the client runs, that the user answers a review and
leaves a status screen (the status screen also times out, and every `review.show` and
`NbglChoice.show` returns on a button), and that the code after a review runs to its
end; the loop of `sample_main` has no other place to stop. Restarts are never fair: the
device need not restart, and may restart for ever. `SwapSession` assumes only that
`swap_return` is reached once it is called for.

## 4. Proofs

Every property that a passing run checks is proved for all values of the
constants, but for the four listed at the end of this section. Each component has its
theorems in a module of its own; the inductive invariant is named there and its parts
are explained where they are defined.

`SessionProofs`, about `AppSession`, for every set of paths, blocks, headers and data, every buffer
capacity and every classification of payloads, from `ContextAssumption`,
`SessionAssumption` and `NoRequestAssumption`:

- `TypeCorrect`, with the buffer's bound; `ReviewSafety` (`ReviewedIsSigned`);
  `BlindSafety` (`BlindOnlyWhenEnabled`). The inductive invariant is `IInv == TypeOK /\
  StackOK /\ ReviewedIsSigned /\ BlindOnlyWhenEnabled`. `ReviewedIsSigned` alone is not
  inductive: `Complete` takes the payload of a message or a hash from the handler's stack,
  so the invariant must say that the stack holds a request in those handlers (`StackOK`).
  There are two lemmas, one for each way a handler's step ends: `FinishedInv` (a
  reply, after which no review is up) and `ShownInv` (a review, for which the step must
  show that what is shown is what will be signed).
- `SuccessSafety` (`SuccessIsEarned`) and `HomeSafety` (`HomeRestored`). They need
  `EndIsShown`: a handler that waits for the user took a command whose end is always
  shown, an address only if it was to be displayed, a chunk only if it was the last. With
  it every reply after a review draws a status, or carries one of the failures that
  `HomeRestored` names (`FinishRestores`).
- `PromiseKept`: `Spec => KeepsPromise`. Each step maps to `Ask`, `Agree`, `Release`,
  `Withdraw` or `Configure`, or changes nothing the promise speaks of. `Release` needs
  `ReviewedIsSigned`, `Ask` needs `BlindOnlyWhenEnabled`.

`AppContextProofs` holds what both the command loop and the swap need of the receive
context: its type and its bound after any chunk.

`SessionProofs`, about `ChunkedTransfer`, for jobs of any number of pieces of any length, any bystanders
and restarts at any moment, from `TransferAssumption`: `TransferTypeCorrect`,
`AcknowledgedSafety` (`BufferIsAcknowledgedPrefix`), `DeliverySafety` (`DeliveredWhole`).
The invariant `TransferInv` joins the client's state to the application's: an answer
without an error means that the piece was stored or the whole was signed (`AnswerIsEarned`),
and a review that starts while the client waits is of exactly what it sent
(`ReviewIsOfJob`). It includes the application's `IInv`, because what makes the answer to the
last piece a signature of the whole is `ReviewedIsSigned`. A restart is covered by letting the
buffer's content be arbitrary once its path is lost: the next chunk is then refused.

`SwapSessionProofs`, for every call of Exchange, every transaction and every stream of
APDUs, from `SwapAssumption`, `NumberAssumption`, `ContextAssumption`, `AmountAssumption`,
`BufferAssumption` and `PlacesAgree`:

- `TypeCorrect`, `WholeStreamSafety` (`SignedIsWholeStream`), `ResultSafety`
  (`ResultIsTruthful`), `OneSignature` (`AtMostOneSignature`). The parts that make `IInv`
  inductive are `OpenSession` (until the session is over nothing was signed and the buffer
  holds what was streamed), `SignedIsValid` and `SigningCalled`.
- `AgreedSafety` (`SignedIsAgreed`). `SignedIsValid` says that what was signed passed the
  checks of the code; `ValidIsAgreed` that what passes them does what Exchange asked,
  which the property states without the checks. The arithmetic between the two is
  `WordDenotes`: the big-endian word of `bytes_to_u64_be` is the number that the last `len`
  bytes denote, whatever the base, the length and the other bytes.
- `PrintedSafety` (`PrintedDenotes`): read back, the text shown for an amount is that
  amount, for every amount, number of places and size of buffer that `BufferAssumption`
  admits. `AmountProofs` has the conversion itself (`AmountText`). Its argument goes
  by quotients: the digits written are what the divisions leave over, so reading them in their order
  restores the quotients one by one (`ReadRestores`), from the zero that ends the divisions to the
  number itself. The zeros cut from a fraction are those whose quotients multiply back
  (`NothingLeftOver`), and the divisions end in time for the buffer because they do for the
  largest amount (`QuotientsMonotone`).
- `ReviewedSafety` (`PrintedAsReviewed`): for every amount, the text Exchange shows is the text
  of a review without its separators. `Decimals` writes all figures of the number first, puts
  zeros in front if there are too few, and cuts the text at the point; `PrintableAmount` divides by the
  power of ten and writes the two parts apart. Both texts are figures of the same quotients
  (`DigitsText`, `PaddedText`, `CutText`), so the figures of the whole and of the fraction
  are the two halves of one text. The zeros that are trimmed are the same on both sides
  (`TrimText`), and what the separators add is what `WithoutCommas` removes (`CommasVanish`);
  `ReviewedText` puts these together.

`XdrParserProofs`, for every grammar, data length, budget and width of `usize`,
from `SizeAssumption`, `GrammarAssumption`, `ChainAssumption` and `PassAssumption`:

- `TypeCorrect`, with `depth <= MAX_PARSE_DEPTH`;
- `ReadSafety` (`ReadsInside`). `SizeAssumption` says that a slice is shorter
  than half of the address space, as Rust guarantees: a saturated sum is then
  never within the data (`CanReadInside`);
- `NestingSafety` (`DepthIsNesting`) and `StackSafety` (`StackBounded`). `Shape` speaks
  of the whole stack where the properties speak of its ends: each frame was called at the
  depth its caller had reached, its remaining fields are types its own type may call
  (`LegalCall`), and its position plus its rank is at most `CHAIN` for every level
  spent when it was called and one more. A call that costs nothing leads to a smaller
  rank, by `ChainAssumption`, and one that costs a level has `CHAIN` more to spend.
- `PassSafety` (`EveryPassReads`). `PassShape` says that while the innermost loop has read
  nothing in its pass, some call of that pass still has a type of `Reading` to parse; a pass
  that is over has none, so the cursor has moved.

`ReviewProofs`, for every formatter, every set of requests and signers and every touch of
the menu, from `RequestAssumption` and `SettingsSizeAssumption`: `ReviewTypeCorrect`,
`MarkSafety` (`BlindReviewMarked`), `WholeReviewSafety` (`ReviewIsWhole`) and
`LoopDecidesAsOne` (`DecidesAsOne`). `FormattedSoFar` is the invariant of the loop: what
has been gathered is the entries of the operations so far, and the configuration is still
what the settings say, because the menu cannot be touched while a request is formatted.
For the refinement, `StartTx` maps to the request's arrival, the step that ends the loop
to the one decision about it, and `StartAuth` to an arrival decided at once; the sets that
the mapping gives `ReviewVerdict` say which operation is the first to end the loop.

`AddressProofs`, for keys of every length and a buffer of any width that has 12 bits, from
`KeyAssumption` and `TableAssumption`: `ChecksumSafety` (`ChecksumDivides`), `EncodingSafety`
(`NothingLost`) and `AddressSafety` (`AddressNamesKey`). The inductive invariant is
`AddressInv` (`AddressInvHolds`): in each phase it says what `data` is, and the sum or the
characters are those of the bytes read so far. It has three arguments.

- The checksum. The laws of the exclusive or (`XorLaws`) go by induction on halves. A step of the
  bit-by-bit division is linear in it (`TakeLinear`), and so are eight of them on zeros
  (`ZerosLinear`). The code's step therefore gives the same remainder as eight steps of the
  division (`RemainderStep`): the high byte of the sum and the new byte
  together choose an entry of the table, which is their remainder by `TableAssumption`, and the low
  byte is only shifted.
- The encoding. `FillBits` says that the bits waiting, with those of the next byte behind
  them, are the low bits of the buffer after it: at most 4 wait, so 12 are enough and what is
  shifted out has been written. `SymbolsWritten` cuts them into characters and a
  rest of fewer than 5.
- The address. When all bytes are read, nothing waits, because `ADDRESS_LEN` * 5 is the
  number of bits; the characters' bits are those of the data, where `EncodedBits` finds y, last
  byte first, with the sign of x in the bit that `KeyAssumption` leaves free.

How the proofs go by induction over data. The library's induction theorems take an
operator, which none of the provers can instantiate. `RecursiveFunctions` states them with a set
(`SetInduction`, `IntervalInduction`) and with a function that makes each value from
the one before (`Iterates`, `IterationExists`) or from smaller ones (`Recurs`,
`RecursionExists`), all derived from the library's theorem that `<` is
well-founded on `Nat`. The definitions they are applied to are recursive functions or
folds, never RECURSIVE operators.

Only model-checked:

- `EveryJobEnds`: liveness under fairness.
- `ReviewTells`, `MenuGovernsReview`, `TitleAgrees`: the formatter is built from RECURSIVE
  operators over trees of values (`Json`, `PredicateJson`, `Nested`), which put a module out
  of the prover's reach. They compare every pair of candidates, so they are statements
  about the candidates of a run.

## 5. What is left

Every safety property that the prover can reach is proved. The three that are left are about
`Json`, `PredicateJson` and `Nested`, which would have to become recursive functions over a set of
trees; each of the three then needs an induction over the trees of two requests at a time.

Not modelled:

- The device kit (screens, pagination, transport) and its `AtomicStorage`. The settings
  record is written by it, from the menu; `set_setting` has no caller. What a power loss
  does in the middle of a write is decided outside this repository, so a toggle is one
  step here and no property says more.
- The operating system's derivation, hashing and signatures: calls that may fail.
- The table of known tokens (a constant; the search through it is linear), the calendar,
  base64 and hexadecimal, and the layout of JSON text: different values, different text.
- Two clients that stream chunks at the same time: the protocol does not tell them apart.
- Wording, the functional tests' snapshots and their data.
