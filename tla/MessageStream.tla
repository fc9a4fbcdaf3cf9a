---------------------------- MODULE MessageStream ----------------------------
(***************************************************************************)
(* One streamed request from its first upstream attempt to the last byte   *)
(* the client gets.  "messages" is POST /v1/messages against a built-in    *)
(* provider: generate() goes over the compaction levels and, at each, over *)
(* the keys.  "custom" is the same endpoint against a custom provider of   *)
(* the OpenAI format: no compaction, and a relay around the translator.    *)
(* "chat" is /v1/chat/completions against a custom provider of the         *)
(* Anthropic format, whose events the converter turns into chat chunks.    *)
(* Which key an attempt uses is KeyPool's and CustomPool's matter.         *)
(***************************************************************************)
EXTENDS StreamTranslator, ChatConverter, Compaction

CONSTANTS
    Conversations,  \* conversations a client may send
    Keep,           \* keep_last per compaction level: <<20, 6>> in the code
    Attempts        \* keys in the pool

ASSUME MessageAssumption ==
    /\ NoCall \notin ToolCalls
    /\ Conversations \subseteq Seq(Message)
    /\ Keep \in Seq(Nat)
    /\ Attempts \in Nat \ {0}

VARIABLES
    via,            \* the endpoint and kind of provider
    attempt,        \* the attempt of the loop over the keys
    level,          \* c_idx
    conversation,   \* original_messages, once a compaction looks at them
    sent            \* upstream_req["messages"] after a compaction

requestVars == <<via, attempt, level, conversation, sent>>
vars        == <<streamVars, converterVars, requestVars>>

Vias == {"messages", "custom", "chat"}

TypeOK ==
    /\ pc \in Where /\ stage \in Stages
    /\ chunks \in 0..MaxChunks
    /\ todo \in Seq(ToolDelta)
    /\ current \in Block
    /\ DOMAIN toolBlock \subseteq Tools /\ \A t \in DOMAIN toolBlock : toolBlock[t] \in Nat
    /\ nextBlock \in Nat
    /\ buffer \in Seq(Pieces) /\ inThink \in BOOLEAN
    /\ open \subseteq Nat /\ DOMAIN kinds \subseteq Nat
    /\ \A b \in DOMAIN kinds : kinds[b] \in Kinds
    /\ written \subseteq Nat \X Kinds
    /\ returned \in BOOLEAN
    /\ via \in Vias
    /\ attempt \in 1..Attempts
    /\ level \in 0..Len(Keep)

Init ==
    /\ StreamInit
    /\ ConverterInit
    /\ via \in Vias
    /\ attempt = 1 /\ level = 0
    /\ conversation = <<>> /\ sent = <<>>

(***************************************************************************)
(* Attempts                                                                *)
(***************************************************************************)
\* Mutant: the loop over the keys takes a step too many.
NextKeyOffByOne ==
    /\ pc = "attempt" /\ attempt <= Attempts
    /\ attempt' = attempt + 1
    /\ UNCHANGED <<streamVars, converterVars, via, level, conversation, sent>>

\* No byte of a message went out: another key is tried.
NextKey ==
    /\ pc = "attempt" /\ attempt < Attempts
    /\ attempt' = attempt + 1
    /\ UNCHANGED <<streamVars, converterVars, via, level, conversation, sent>>

\* A status nobody retries, or the last key failed: an error answer.
GiveUp ==
    /\ pc = "attempt"
    /\ stage' = "errored" /\ pc' = "over" /\ written' = {}
    /\ UNCHANGED <<chunks, todo, translator, open, kinds, history, returned,
                   converterVars, requestVars>>

\* The next compaction level starts over with the first key.  Each level
\* compacts the original conversation.
Compact ==
    /\ via = "messages" /\ level < Len(Keep)
    /\ level' = level + 1
    /\ attempt' = 1
    /\ conversation' \in IF conversation = <<>> THEN Conversations ELSE {conversation}
    /\ sent' = CompactMessages(conversation', Keep[level + 1])
    /\ UNCHANGED via

\* Upstream refuses the request as larger than its context window.
ContextWindow ==
    /\ pc = "attempt"
    /\ Compact
    /\ UNCHANGED <<streamVars, converterVars>>

\* The stream begins and its first event is no error: message_start.  A
\* client that already saw one gets a second.  The conversation is forgotten:
\* a compaction after this point may look at any.
OpenStream ==
    /\ pc = "attempt" /\ pc' = "body"
    /\ stage' = "body"
    /\ conversation' = <<>> /\ sent' = <<>>
    /\ attempt' = 1
    /\ UNCHANGED <<chunks, todo, translator, open, kinds, written, history, returned,
                   converterVars, via, level>>

(***************************************************************************)
(* A failure once the message has begun                                    *)
(***************************************************************************)
\* generate() logs and returns: the bytes end.  The relay of a custom
\* provider sends an error event.
StreamFails ==
    /\ pc = "body" /\ via # "chat"
    /\ stage' = IF via = "custom" THEN "errored" ELSE "cut"
    /\ pc' = "over" /\ written' = {}
    /\ UNCHANGED <<chunks, todo, translator, open, kinds, history, returned,
                   converterVars, requestVars>>

\* generate() compacts and goes upstream again after an error that speaks of
\* the context window, even if the client has seen part of a message.  The
\* generator is dropped with its locals, and a new message begins.
ContextWindowMidStream ==
    /\ pc = "body" /\ pc' = "attempt"
    /\ Compact
    /\ FreshNext
    /\ open' = {} /\ kinds' = <<>> /\ written' = {}
    /\ inbox' = <<>> /\ cuts' = {} /\ outbox' = <<>>
    /\ argsIn' = [t \in Tools |-> 0] /\ argsOut' = <<>>
    /\ stage' = "restart"
    /\ UNCHANGED <<chunks, todo, returned, converterVars>>

(***************************************************************************)
(* The relay of /v1/chat/completions                                       *)
(***************************************************************************)
ChatEvent ==
    /\ pc = "body" /\ via = "chat" /\ chunks < MaxChunks
    /\ chunks' = chunks + 1
    /\ ProviderEvent
    /\ UNCHANGED <<pc, todo, translator, wire, history, returned, requestVars>>

\* The provider's stream ends or breaks off.  The converter drops the error
\* event of a broken one, so the client gets [DONE] either way.
ChatEnds ==
    /\ pc = "body" /\ via = "chat"
    /\ stage' = "done" /\ pc' = "over"
    /\ UNCHANGED <<chunks, todo, translator, open, kinds, written, history, returned,
                   converterVars, requestVars>>

Request ==
    \/ NextKey \/ GiveUp \/ ContextWindow \/ OpenStream
    \/ StreamFails \/ ContextWindowMidStream
    \/ ChatEvent \/ ChatEnds

Next ==
    \/ Request
    \/ via # "chat" /\ Translate /\ UNCHANGED <<converterVars, requestVars>>
    \/ pc = "over" /\ UNCHANGED vars

Spec == Init /\ [][Next]_vars

(***************************************************************************)
(* Properties                                                              *)
(***************************************************************************)
Protocol == INSTANCE BlockProtocol

\* The client sees a well-framed message: one message_start, one block open
\* at a time, no index used twice, deltas of the kind of their block, nothing
\* left open at message_stop.  Excepted are a return to a tool call that
\* something else interrupted, which the comment in stream_as_anthropic calls
\* not representable, and the step from an abandoned message to a second one,
\* which must then be well framed itself.
WellFramed ==
    /\ Protocol!Init
    /\ [][returned' \/ "restart" \in {stage, stage'} \/ Protocol!Next]_(Protocol!protocolVars)

\* A reference reading of everything received, from each position on and for
\* each mode it may be reached in: a tag switches between text and thinking,
\* every other piece is content of the kind in force, and a tool call ends the
\* thinking in progress if any of it followed the tag that opened it.
Modes == {"text", "opened", "thinking"}

ReadAt(s, rest, i, mode) ==
    LET think == mode # "text"
    IN  IF i > Len(s) THEN <<>>
        ELSE IF s[i] = "tool" THEN rest[i + 1][IF mode = "thinking" THEN "text" ELSE mode]
        ELSE IF IsTag(s, i, think)
             THEN rest[TagEnd(s, i, think) + 1][IF think THEN "text" ELSE "opened"]
        ELSE <<<<KindOf(think), s[i]>>>> \o rest[i + 1][IF think THEN "thinking" ELSE "text"]

ReadingFrom(s) ==
    LET From[i \in 1..Len(s) + 1] == [mode \in Modes |-> ReadAt(s, From, i, mode)]
    IN  From

Reading(s) == ReadingFrom(s)[1]["text"]

\* Wherever a chunk of s ended inside a tag, no more than HoldBack pieces of
\* the tag had come.
CutsHeldBack(s, at) ==
    \A c \in at, think \in BOOLEAN : \A i \in 1..c, j \in c + 1..Len(s) :
        TagAt(s, i, j, think) => c - i < HoldBack

\* However upstream cuts its text into chunks, the client gets exactly what
\* the reference reading yields: no piece lost, doubled or out of order, no
\* reasoning shown as text, no tag that a chunk boundary split leaking out;
\* and all of it once the message is complete.  The exception is a tag with
\* attributes of which more came before the cut than the translator keeps back.
DeliversTheReading ==
    CutsHeldBack(inbox, cuts) =>
        /\ IsPrefix(outbox, Reading(inbox))
        /\ stage = "done" => outbox = Reading(inbox)

\* The arguments of a tool call stay together, also when upstream interleaves
\* calls: all of them, and no others, go to the one block of the call.
ToolArgumentsStayTogether ==
    pc \in {"body", "end"} =>
        /\ \A t \in Tools : argsIn[t] > 0 => t \in DOMAIN toolBlock
        /\ \A t \in DOMAIN toolBlock : argsOut[toolBlock[t]] = argsIn[t]
        /\ \A t, u \in DOMAIN toolBlock : toolBlock[t] = toolBlock[u] => t = u

\* A chat client assembles the calls the provider made, in the order they
\* began and each with its own arguments, however their deltas interleave
\* and whatever other blocks lie between them.
ChatClientAssemblesTheCalls ==
    /\ {calls[i].block : i \in DOMAIN calls} = {b \in DOMAIN blocks : blocks[b] = "tool"}
    /\ \A i \in DOMAIN calls : calls[i].args = given[calls[i].block]
    /\ \A i, j \in DOMAIN calls : i < j => calls[i].block < calls[j].block

\* The calls an assistant makes in a conversation.
Made(s) == UNION {s[i].calls : i \in {j \in DOMAIN s : s[j].role = "assistant"}}

\* What a compaction must keep of the messages: the calls that are answered,
\* and the last user message with all that follows it, answers to calls nobody
\* made apart.
Whole(messages, out) ==
    LET users == {i \in DOMAIN messages : messages[i].role = "user"}
    IN  /\ out # messages =>
            \A i \in DOMAIN out :
                out[i].role = "tool" => out[i].answers \in Made(out) \cup {NoCall}
        /\ \A i \in DOMAIN messages :
            /\ users # {} /\ \A u \in users : u <= i
            /\ messages[i].role = "tool" =>
                   messages[i].answers \in Made(messages) \cup {NoCall}
            => \E k \in DOMAIN out : out[k] = messages[i]

\* A compacted conversation answers no call it does not contain, and keeps the
\* end of the original one.
CompactedConversationIsWhole == sent # <<>> => Whole(conversation, sent)
=============================================================================
