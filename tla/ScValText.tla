----------------------------- MODULE ScValText -----------------------------
(***************************************************************************)
(* The value of a contract argument as one line of a review                *)
(* (stellarlib/src/serialize.rs with the Display of display.rs).  A value  *)
(* becomes JSON, and its JSON becomes a line: the JSON of a string is      *)
(* shown bare, that of a list or a map as JSON text.                       *)
(*                                                                         *)
(* A value is <<variant, content>>, the content of an optional list or map *)
(* being << >> for None.  JSON is <<"string", line>>, <<"bool", b>>,       *)
(* <<"null", 0>>, <<"array", s>> or <<"object", f>>.  A line is            *)
(* <<"text", characters>> or <<"json", j>>: how JSON text is laid out is   *)
(* not modelled, but a string may hold a line that is JSON text.           *)
(***************************************************************************)
EXTENDS Decimals

CONSTANTS
  WORD,     \* what a 64-bit piece of a wide integer counts to
  DATE_MAX  \* the last timestamp that is shown as a date

ASSUME WordAssumption == WORD \in Nat \ {0} /\ DATE_MAX \in Nat

Line(characters) == <<"text", characters>>

\* The wide integers, from their pieces, the highest first (the one that may be
\* negative).
FromPieces(pieces) == FoldLeft(LAMBDA n, p : n * WORD + p, 0, pieces)

\* The strkey of a key: a letter for its kind, then the characters of the key,
\* in three runs: those an abbreviation keeps at the start, those it leaves out,
\* those it keeps at the end.
Letter ==
  [ed25519 |-> "G", muxed |-> "M", contract |-> "C", claimable_balance |-> "B",
   liquidity_pool |-> "L", pre_auth_tx |-> "T", hash_x |-> "X",
   signed_payload |-> "P"]
StrKey(address) == <<Letter[address[1]]>> \o address[2]

\* format_unix_timestamp: beyond the calendar the number itself, no separators.
FormatUnixTimestamp(seconds) ==
  IF seconds > DATE_MAX THEN Digits[seconds] ELSE Digits[seconds] \o <<" UTC">>

Number32And64 == {"U32", "I32", "U64", "I64"}
WideNumbers   == {"U128", "I128", "U256", "I256"}
FreeText      == {"Bytes", "String", "Symbol"}
Fixed         == {"ContractInstance", "LedgerKeyContractInstance", "LedgerKeyNonce"}

\* The JSON values that are strings, but for the errors.
StringOf(variant, content) ==
  CASE variant \in Number32And64 -> Line(WithCommas(content))
    [] variant \in WideNumbers   -> Line(WithCommas(FromPieces(content)))
    [] variant = "Timepoint"     -> Line(FormatUnixTimestamp(content))
    [] variant = "Duration"      -> Line(FormatDuration(content))
    [] variant \in FreeText      -> content
    [] variant = "Address"       -> Line(StrKey(content))
    [] variant \in Fixed         -> Line(<<variant>>)

\* The rest of scval_to_key_string: a JSON value as a line.
LineOf(json) ==
  CASE json[1] = "string" -> json[2]
    [] json[1] = "bool"   -> Line(IF json[2] THEN <<"true">> ELSE <<"false">>)
    [] json[1] = "null"   -> Line(<<"[void]">>)
    [] OTHER              -> <<"json", json>>

\* A faulty object that keeps the first of two values of one key.
ObjectKeepingFirst(entries) ==
  <<"object",
    [k \in {e[1] : e \in ToSet(entries)} |->
       entries[SelectInSeq(entries, LAMBDA e : e[1] = k)][2]]>>

\* A JSON object built by serialize_entry: a later value of a key replaces an
\* earlier one.
Object(entries) ==
  <<"object",
    [k \in {e[1] : e \in ToSet(entries)} |->
       entries[SelectLastInSeq(entries, LAMBDA e : e[1] = k)][2]]>>

\* The Serialize implementation of ScVal; a key of a map is the line of its own
\* JSON (scval_to_key_string).
RECURSIVE Json(_)
Json(val) ==
  LET variant == val[1] content == val[2] IN
  CASE variant = "Bool"    -> <<"bool", content>>
    [] variant = "Void"    -> <<"null", 0>>
    [] variant = "Error"   ->
         Object(<<<<Line(<<"error_type">>), <<"string", Line(<<content[1]>>)>>>>,
                  <<Line(<<"error_value">>),
                    IF content[1] = "Contract" THEN <<"number", content[2]>>
                    ELSE <<"string", Line(<<content[2]>>)>>>>>>)
    [] variant = "Vec"     ->
         IF content = << >> THEN <<"null", 0>>
         ELSE <<"array", [i \in DOMAIN content[1] |-> Json(content[1][i])]>>
    [] variant = "Map"     ->
         IF content = << >> THEN <<"null", 0>>
         ELSE Object([i \in DOMAIN content[1] |->
                <<LineOf(Json(content[1][i][1])), Json(content[1][i][2])>>])
    [] OTHER               -> <<"string", StringOf(variant, content)>>

\* The Serialize implementations of ClaimPredicate and of Claimant.
PredicateKey ==
  [And |-> "and", Or |-> "or", Not |-> "not",
   BeforeAbsoluteTime |-> "before_absolute_time",
   BeforeRelativeTime |-> "before_relative_time"]
RECURSIVE PredicateJson(_)
PredicateJson(predicate) ==
  LET variant == predicate[1] content == predicate[2]
      object(json) == Object(<<<<Line(<<PredicateKey[variant]>>), json>>>>)
  IN  CASE variant = "Unconditional" -> <<"string", Line(<<"unconditional">>)>>
        [] variant \in {"And", "Or"} ->
             object(<<"array", [i \in DOMAIN content |-> PredicateJson(content[i])]>>)
        [] variant = "Not"           -> object(PredicateJson(content))
        [] OTHER                     -> object(<<"string", Line(ToText(content))>>)

ClaimantLine(claimant) ==
  <<"json", Object(
     <<<<Line(<<"destination">>), <<"string", Line(StrKey(claimant.destination))>>>>,
       <<Line(<<"predicate">>), PredicateJson(claimant.predicate)>>>>)>>

\* scval_to_key_string.
ScValToKeyString(val) == LineOf(Json(val))
=============================================================================
