-------------------------- MODULE StreamTranslator --------------------------
(***************************************************************************)
(* One response on its way to the client: stream_as_anthropic turns the    *)
(* chunks of an OpenAI-shaped upstream stream into the events of an        *)
(* Anthropic message.                                                      *)
(*                                                                         *)
(* Text comes in pieces: a word, half of "<think" or of "</think", or the  *)
(* ">" that ends a tag; what lies between is the tag's attributes.         *)
(* Upstream may cut a tag anywhere; HoldBack stands for the twenty         *)
(* characters the translator keeps back for that reason.  A step is one    *)
(* iteration of a loop of the generator, or one test of it; nothing else   *)
(* runs in between that could see its locals.                              *)
(***************************************************************************)
EXTENDS Integers, FiniteSets, SequencesExt

CONSTANTS
    Tools,      \* indexes of the upstream's tool calls
    NoTool,     \* no tool call
    Chunks,     \* chunks upstream may send
    HoldBack,   \* pieces kept back
    MaxChunks   \* bound: chunks of one request

Pieces    == {"word", "open1", "open2", "close1", "close2", "end"}
ToolDelta == [tool : Tools, args : BOOLEAN]
Chunk     == [reasoning : BOOLEAN, text : Seq(Pieces), tools : Seq(ToolDelta)]

ASSUME TranslatorAssumption ==
    /\ NoTool \notin Tools
    /\ IsFiniteSet(Tools)
    /\ Chunks \subseteq Chunk
    /\ HoldBack \in Nat \ {0}
    /\ MaxChunks \in Nat

VARIABLES
    pc,         \* where the generator is
    chunks,     \* chunks received
    todo,       \* tool deltas of the chunk in hand not handled yet
    current,    \* the block presently open, kind "none" for None
    toolBlock,  \* tool_calls: the block index of each tool call
    nextBlock,  \* next_block
    buffer,     \* text_buffer
    inThink,    \* in_text_thinking
    stage, open, kinds, written,    \* the wire: see BlockProtocol
    inbox,      \* history: the pieces received, "tool" where a tool delta came
    cuts,       \* history: where in it a chunk ended
    outbox,     \* history: the pieces delivered, with the kind of their block
    argsIn,     \* history: argument deltas received per tool call
    argsOut,    \* history: argument deltas sent per block
    returned    \* history: upstream went back to a tool call that something
                \* else had interrupted

translator == <<current, toolBlock, nextBlock, buffer, inThink>>
wire       == <<stage, open, kinds, written>>
history    == <<inbox, cuts, outbox, argsIn, argsOut>>
streamVars == <<pc, chunks, todo, translator, wire, history, returned>>

Kinds   == {"text", "thinking", "tool"}
Where   == {"attempt", "body", "scan", "tools", "end", "over"}
Stages  == {"idle", "body", "restart", "done", "errored", "cut"}
Block   == [kind : Kinds \cup {"none"}, index : Nat, tool : Tools \cup {NoTool}]
Nothing == [kind |-> "none", index |-> 0, tool |-> NoTool]

\* The locals of a new generator.
Fresh ==
    /\ current = Nothing /\ toolBlock = <<>> /\ nextBlock = 0
    /\ buffer = <<>> /\ inThink = FALSE

FreshNext ==
    /\ current' = Nothing /\ toolBlock' = <<>> /\ nextBlock' = 0
    /\ buffer' = <<>> /\ inThink' = FALSE

StreamInit ==
    /\ pc = "attempt" /\ chunks = 0 /\ todo = <<>>
    /\ Fresh
    /\ stage = "idle" /\ open = {} /\ kinds = <<>> /\ written = {}
    /\ inbox = <<>> /\ cuts = {} /\ outbox = <<>>
    /\ argsIn = [t \in Tools |-> 0] /\ argsOut = <<>>
    /\ returned = FALSE

(***************************************************************************)
(* Events                                                                  *)
(***************************************************************************)
CurrentIndex == IF current.kind = "none" THEN {} ELSE {current.index}

\* stop_current: content_block_stop of the current block, if there is one.
StopCurrent ==
    /\ current' = Nothing
    /\ open' = open \ CurrentIndex
    /\ UNCHANGED <<nextBlock, kinds>>

\* open_block after stop_current: content_block_start under a fresh index.
OpenBlock(kind, tool) ==
    /\ current' = [kind |-> kind, index |-> nextBlock, tool |-> tool]
    /\ nextBlock' = nextBlock + 1
    /\ open' = (open \ CurrentIndex) \cup {nextBlock}
    /\ kinds' = [b \in DOMAIN kinds \cup {nextBlock} |->
                    IF b = nextBlock THEN kind ELSE kinds[b]]

\* Mutant: content goes to whatever block is current.
EnsureAny(kind) ==
    IF current.kind # "none" THEN UNCHANGED <<current, nextBlock, open, kinds>>
    ELSE OpenBlock(kind, NoTool)

\* "if current is None or current[kind] != kind": the block content goes to.
Ensure(kind) ==
    IF current.kind = kind THEN UNCHANGED <<current, nextBlock, open, kinds>>
    ELSE OpenBlock(kind, NoTool)

\* Pieces of the buffer leave in a text_delta or a thinking_delta.
Deliver(kind, pieces) ==
    /\ Ensure(kind)
    /\ written' = {<<current'.index, kind>>}
    /\ outbox' = outbox \o [i \in DOMAIN pieces |-> <<kind, pieces[i]>>]

KindOf(think) == IF think THEN "thinking" ELSE "text"

(***************************************************************************)
(* Receiving a chunk                                                       *)
(***************************************************************************)
ArgumentsIn(c, t) == Cardinality({i \in DOMAIN c.tools : c.tools[i].tool = t /\ c.tools[i].args})

\* reasoning_content goes out at once; content joins the buffer.
Receive(c) ==
    /\ pc = "body" /\ chunks < MaxChunks
    /\ chunks' = chunks + 1
    /\ IF c.reasoning
       THEN Ensure("thinking") /\ written' = {<<current'.index, "thinking">>}
       ELSE UNCHANGED <<current, nextBlock, open, kinds>> /\ written' = {}
    /\ buffer' = buffer \o c.text
    /\ todo' = c.tools
    /\ pc' = IF c.text # <<>> THEN "scan" ELSE IF c.tools # <<>> THEN "tools" ELSE "body"
    /\ inbox' = inbox \o c.text \o (IF c.tools # <<>> THEN <<"tool">> ELSE <<>>)
    /\ cuts' = cuts \cup {Len(inbox')}
    /\ argsIn' = [t \in Tools |-> argsIn[t] + ArgumentsIn(c, t)]
    /\ UNCHANGED <<toolBlock, inThink, stage, outbox, argsOut, returned>>

(***************************************************************************)
(* Scanning the buffer for tags                                            *)
(***************************************************************************)
TagName(think) == IF think THEN <<"close1", "close2">> ELSE <<"open1", "open2">>

\* A tag stands from i to j of s: its attributes are whatever has no ">".
TagAt(s, i, j, think) ==
    /\ j \in i + 2..Len(s)
    /\ <<s[i], s[i + 1]>> = TagName(think) /\ s[j] = "end"
    /\ \A k \in i + 2..j - 1 : s[k] \in Pieces \ {"end"}

IsTag(s, i, think)  == \E j \in 1..Len(s) : TagAt(s, i, j, think)
TagEnd(s, i, think) == CHOOSE j \in 1..Len(s) : TagAt(s, i, j, think)
TagStarts(s, think) == {i \in 1..Len(s) : IsTag(s, i, think)}

\* Mutant: nothing is kept back.
SafeLengthHoldingNothing(s, think) ==
    IF TagStarts(s, think) # {} THEN Min(TagStarts(s, think)) - 1 ELSE Len(s)

\* The pieces that may leave: those before the tag, or all but HoldBack.
SafeLength(s, think) ==
    IF TagStarts(s, think) # {} THEN Min(TagStarts(s, think)) - 1
    ELSE IF Len(s) > HoldBack THEN Len(s) - HoldBack
    ELSE 0

\* Where the generator goes once the text of the chunk is dealt with.
AfterScan == IF todo = <<>> THEN "body" ELSE "tools"

Scanned == UNCHANGED <<chunks, todo, toolBlock, stage, inbox, cuts, argsIn, argsOut, returned>>

ScanText ==
    LET n == SafeLength(buffer, inThink)
    IN  /\ pc = "scan" /\ n > 0
        /\ Deliver(KindOf(inThink), SubSeq(buffer, 1, n))
        /\ buffer' = SubSeq(buffer, n + 1, Len(buffer))
        /\ pc' = IF TagStarts(buffer, inThink) = {} THEN AfterScan ELSE "scan"
        /\ UNCHANGED inThink /\ Scanned

\* An opening tag starts a thinking block at once, a closing tag ends it.
ScanTag ==
    /\ pc = "scan" /\ 1 \in TagStarts(buffer, inThink)
    /\ IF inThink THEN StopCurrent ELSE OpenBlock("thinking", NoTool)
    /\ inThink' = ~inThink
    /\ buffer' = SubSeq(buffer, TagEnd(buffer, 1, inThink) + 1, Len(buffer))
    /\ written' = {}
    /\ UNCHANGED <<pc, outbox>> /\ Scanned

ScanHold ==
    /\ pc = "scan" /\ TagStarts(buffer, inThink) = {} /\ SafeLength(buffer, inThink) = 0
    /\ pc' = AfterScan
    /\ written' = {}
    /\ UNCHANGED <<current, nextBlock, open, kinds, buffer, inThink, outbox>> /\ Scanned

(***************************************************************************)
(* Tool calls                                                              *)
(***************************************************************************)
\* A tool call ends the text in progress, what is held back included.
FlushForTools ==
    /\ pc = "tools" /\ buffer # <<>>
    /\ Deliver(KindOf(inThink), buffer)
    /\ buffer' = <<>> /\ inThink' = FALSE
    /\ UNCHANGED pc /\ Scanned

\* input_json_delta for block b.
Arguments(d, b) ==
    /\ written' = IF d.args THEN {<<b, "tool">>} ELSE {}
    /\ argsOut' = IF d.args THEN [argsOut EXCEPT ![b] = @ + 1] ELSE argsOut

InTools(d) ==
    /\ pc = "tools" /\ buffer = <<>>
    /\ todo # <<>> /\ d = Head(todo)
    /\ todo' = Tail(todo)
    /\ pc' = IF Tail(todo) = <<>> THEN "body" ELSE "tools"
    /\ UNCHANGED <<chunks, buffer, inThink, stage, inbox, cuts, outbox, argsIn>>

IsCurrent(t) == current.kind = "tool" /\ current.tool = t

\* The first delta of a call: a block of its own.
StartCall(d) ==
    /\ InTools(d) /\ d.tool \notin DOMAIN toolBlock
    /\ OpenBlock("tool", d.tool)
    /\ toolBlock' = [t \in DOMAIN toolBlock \cup {d.tool} |->
                        IF t = d.tool THEN nextBlock ELSE toolBlock[t]]
    /\ written' = IF d.args THEN {<<nextBlock, "tool">>} ELSE {}
    /\ argsOut' = [b \in DOMAIN argsOut \cup {nextBlock} |->
                        IF b # nextBlock THEN argsOut[b] ELSE IF d.args THEN 1 ELSE 0]
    /\ UNCHANGED returned

ContinueCall(d) ==
    /\ InTools(d) /\ d.tool \in DOMAIN toolBlock /\ IsCurrent(d.tool)
    /\ Arguments(d, toolBlock[d.tool])
    /\ UNCHANGED <<current, nextBlock, open, kinds, toolBlock, returned>>

\* Mutant: the call begins again in a second block.
ReturnToCallAnew(d) ==
    /\ InTools(d) /\ d.tool \in DOMAIN toolBlock /\ ~IsCurrent(d.tool)
    /\ OpenBlock("tool", d.tool)
    /\ toolBlock' = [toolBlock EXCEPT ![d.tool] = nextBlock]
    /\ written' = {}
    /\ argsOut' = [b \in DOMAIN argsOut \cup {nextBlock} |->
                        IF b # nextBlock THEN argsOut[b] ELSE IF d.args THEN 1 ELSE 0]
    /\ returned' = TRUE

\* Something else took over since: the arguments go to the block the call
\* had, though it was stopped.
ReturnToCall(d) ==
    /\ InTools(d) /\ d.tool \in DOMAIN toolBlock /\ ~IsCurrent(d.tool)
    /\ open' = open \ CurrentIndex
    /\ current' = [kind |-> "tool", index |-> toolBlock[d.tool], tool |-> d.tool]
    /\ Arguments(d, toolBlock[d.tool])
    /\ returned' = TRUE
    /\ UNCHANGED <<nextBlock, kinds, toolBlock>>

(***************************************************************************)
(* The end of the upstream stream                                          *)
(***************************************************************************)
UpstreamEnds ==
    /\ pc = "body" /\ pc' = "end"
    /\ written' = {}
    /\ UNCHANGED <<chunks, todo, translator, stage, open, kinds, history, returned>>

FlushRest ==
    /\ pc = "end" /\ buffer # <<>>
    /\ Deliver(KindOf(inThink), buffer)
    /\ buffer' = <<>>
    /\ UNCHANGED <<pc, inThink>> /\ Scanned

\* Close what is open, message_delta, message_stop.
EndMessage ==
    /\ pc = "end" /\ buffer = <<>>
    /\ StopCurrent
    /\ stage' = "done" /\ pc' = "over"
    /\ written' = {}
    /\ UNCHANGED <<chunks, todo, toolBlock, buffer, inThink, history, returned>>

Translate ==
    \/ \E c \in Chunks : Receive(c)
    \/ ScanText \/ ScanTag \/ ScanHold
    \/ FlushForTools
    \/ \E d \in ToolDelta : StartCall(d) \/ ContinueCall(d) \/ ReturnToCall(d)
    \/ UpstreamEnds \/ FlushRest \/ EndMessage
=============================================================================
