---------------------------- MODULE MCPowConfig ----------------------------
(***************************************************************************)
(* Documents and requests for model checking PowConfig.                    *)
(***************************************************************************)
EXTENDS PowConfig

Leaves(pairs) == [p \in {x[1] : x \in pairs} |-> (CHOOSE x \in pairs : x[1] = p)[2]]

Other == {<<<<"kms">>, Scalar("keys")>>}
Known(keys) == {<<KnownKey(k), Scalar(k)>> : k \in keys}

\* As a node before 0.3.3 generates it: everything is in the file.
FullDocument == Leaves(Other \cup Known(Keys) \cup
  {<<FundingPk, Scalar(LeaderKey)>>, <<MaxThreads, Scalar("null")>>,
   <<MaxTickets, Scalar("4")>>, <<Targets, List(<<LeaderKey>>)>>,
   <<TickUnit, Scalar("seconds")>>, <<TickValue, Scalar("300")>>})

\* What differs from the defaults; the keys are in the keystore.
SparseDocument == Leaves(Other)

\* Sections that are null, a tick in slots.
NullDocument == Leaves(Known({LeaderKey}) \cup
  {<<<<"pow", "mining">>, Scalar("null")>>, <<TickUnit, Scalar("slots")>>,
   <<TickValue, Scalar("5")>>, <<Targets, List(<<>>)>>})

\* An include in place of the known keys, and no pow section.
IncludeDocument == Leaves({<<<<"pow">>, Scalar("null")>>, <<KnownKeys, Scalar("include")>>})

MCDocuments == {FullDocument, SparseDocument, NullDocument, IncludeDocument}

Inputs(f) ==
  CASE f = "max_threads"           -> {Scalar(t) : t \in {"null", "0", "1"}}
    [] f = "max_tickets_per_block" -> {Scalar(t) : t \in {"null", "2"}}
    [] f = "tick_seconds"          -> {Scalar(t) : t \in {"word", "5"}}
    [] f = "auto_claim_targets"    ->
         {Scalar("null"), Scalar("1")} \cup
         {List(s) : s \in {<<>>, <<<<>>>>, <<<<"k2">>>>, <<<<"junk">>>>,
                           <<<<"k1">>, <<"0x", "k1">>>>, <<<<>>, <<"k2">>>>}}

\* No field, each field alone, every field at once, a misspelt field.
MCRequests ==
  {NoRequest, [f \in {"max_thread"} |-> Scalar("1")]}
  \cup UNION {{[g \in {f} |-> v] : v \in Inputs(f)} : f \in Fields}
  \cup {[f \in Fields |-> CASE f = "max_threads"           -> Scalar("1")
                            [] f = "max_tickets_per_block" -> Scalar("2")
                            [] f = "tick_seconds"          -> Scalar("5")
                            [] f = "auto_claim_targets"    -> targets] :
          targets \in Inputs("auto_claim_targets")}

=============================================================================
