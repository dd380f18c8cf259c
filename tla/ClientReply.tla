---------------------------- MODULE ClientReply ----------------------------
(***************************************************************************)
(* How the Rust client reads what the module sends: the envelope of a      *)
(* reply, the kinds of error, the decoding of values and of stream events. *)
(*                                                                         *)
(* A JSON value is a sequence of tags.  <<"ApiBlock">> is JSON that decodes *)
(* as an ApiBlock and as nothing else; <<"string", "ApiBlock">> is a string *)
(* whose text is such JSON; <<"string", "hash">> and <<"string", "word">>  *)
(* are strings whose text is not JSON.  An error text is the set of the    *)
(* phrases it contains.                                                    *)
(***************************************************************************)
EXTENDS Sequences

\* The texts of strings that are not JSON themselves.
Texts == {"hash", "word"}

\* A reply of the host: none, JSON without an envelope, or the envelope of a
\* LogosResult.  "value" is <<>> where the envelope has no such field.
Transport == [kind |-> "transport"]
Success(v) == [kind |-> "success", value |-> v]
Failure(phrases) == [kind |-> "failure", error |-> phrases]

Ok(v) == [ok |-> TRUE, value |-> v]
Err(variant) == [ok |-> FALSE, value |-> <<variant>>]

----------------------------------------------------------------------------

classify(phrases) ==
  IF "node is not running" \in phrases THEN Err("NodeNotRunning")
  ELSE IF phrases \cap {"no block found", "no channel found", "not found"} # {}
       THEN Err("NotFound")
  ELSE Err("Module")

\* A string value is parsed where its text is JSON, once.
unwrapString(v) == IF v[1] = "string" /\ v[2] \notin Texts THEN Tail(v) ELSE v

unwrap_value(reply) ==
  CASE reply.kind = "plain" -> Ok(reply.value)
    [] reply.kind = "failure" -> classify(reply.error)
    [] reply.kind = "success" ->
         Ok(IF reply.value = <<>> THEN <<"null">> ELSE unwrapString(reply.value))

unwrap(reply) ==
  IF reply.kind = "transport" THEN Err("Transport") ELSE unwrap_value(reply)

\* serde's from_value: does JSON v decode as type T ?
DecodesAs(T, v) ==
  CASE T = "Value" -> TRUE
    [] T = "String" -> v[1] = "string"
    [] T = "TxHash" -> v = <<"string", "hash">>
    [] OTHER -> v = <<T>>

decode(T, reply) ==
  LET r == unwrap(reply)
  IN IF r.ok /\ ~DecodesAs(T, r.value) THEN Err("Decode") ELSE r

None == <<"None">>

\* Mutant: a stopped node is an absent value too.
DownIsNone(T, reply) ==
  LET r == decode(T, reply)
  IN IF r \in {Err("NotFound"), Err("NodeNotRunning")} THEN Ok(None) ELSE r

decode_opt(T, reply) ==
  LET r == decode(T, reply)
  IN IF r = Err("NotFound") THEN Ok(None) ELSE r

unit(reply) ==
  LET r == unwrap(reply) IN IF r.ok THEN Ok(<<"()">>) ELSE r

\* An amount: a number, or a string that holds one.
parse_amount(v) ==
  IF v \in {<<"u64">>, <<"string", "u64">>} THEN Ok(<<"u64">>) ELSE Err("Decode")

amount(reply) ==
  LET r == unwrap(reply) IN IF r.ok THEN parse_amount(r.value) ELSE r

----------------------------------------------------------------------------
(* Events of a stream.  The payload of an event is a list that holds one   *)
(* string: "null" stands for the text null, "block" for JSON of the        *)
(* stream's type, and "other" for any other text or another payload.       *)

\* What a stream makes of an event: an item, the end of the stream, or an
\* event that cannot be decoded.
block_item(payload) ==
  CASE payload = "null"  -> "end"
    [] payload = "block" -> "item"
    [] OTHER             -> "bad"

\* Mutant: every error is the server's.
OneErrorSide(variant) == "Server"

\* The kind of error that a user of the zone SDK sees.
to_sdk_error(variant) == IF variant = "Transport" THEN "Client" ELSE "Server"
=============================================================================
