--------------------------- MODULE ChatConverter ---------------------------
(***************************************************************************)
(* make_anthropic_to_openai_stream_converter: /v1/chat/completions against *)
(* a custom provider of the Anthropic format.  The provider numbers its    *)
(* content blocks; an OpenAI client numbers the tool calls alone, and puts *)
(* argument deltas together by that number.  Nothing in the relay makes a  *)
(* provider close one block before it starts the next, so deltas may come  *)
(* for any block started.                                                  *)
(***************************************************************************)
EXTENDS Integers, FiniteSets, Sequences

VARIABLES
    blocks,     \* kinds of the provider's blocks, by index + 1
    given,      \* argument deltas of each block
    toolIndex,  \* tool_index_by_block
    calls       \* tool calls of the client, by their index + 1

converterVars == <<blocks, given, toolIndex, calls>>

ConverterInit ==
    /\ blocks = <<>> /\ given = <<>>
    /\ toolIndex = <<>> /\ calls = <<>>

\* A call the client hears of for the first time.
Announce(b) ==
    /\ toolIndex' = [x \in DOMAIN toolIndex \cup {b} |->
                        IF x = b THEN Cardinality(DOMAIN toolIndex) ELSE toolIndex[x]]
    /\ calls' = Append(calls, [block |-> b, args |-> 0])

\* content_block_start; only that of a tool_use block concerns the mapping.
BlockStart(kind) ==
    /\ blocks' = Append(blocks, kind)
    /\ given' = Append(given, 0)
    /\ IF kind = "tool" THEN Announce(Len(blocks) + 1) ELSE UNCHANGED <<toolIndex, calls>>

\* Mutant: arguments go to the call announced last.
ConverterIndexNewest(b) == Cardinality(DOMAIN toolIndex) - 1

ConverterIndex(b) == toolIndex[b]

\* input_json_delta.
BlockArguments(b) ==
    /\ b \in DOMAIN blocks /\ blocks[b] = "tool"
    /\ given' = [given EXCEPT ![b] = @ + 1]
    /\ calls' = [calls EXCEPT ![ConverterIndex(b) + 1].args = @ + 1]
    /\ UNCHANGED <<blocks, toolIndex>>

ProviderEvent ==
    \/ \E kind \in {"text", "tool"} : BlockStart(kind)
    \/ \E b \in DOMAIN blocks : BlockArguments(b)
=============================================================================
