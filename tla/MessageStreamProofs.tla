-------------------------- MODULE MessageStreamProofs --------------------------
(***************************************************************************)
(* Proofs about MessageStream, for any tool calls, any chunks of any       *)
(* length, any number of keys and compaction levels, any conversations and *)
(* any length kept back.                                                   *)
(***************************************************************************)
EXTENDS MessageStream, SequenceLemmas, SequenceTheorems, FiniteSetTheorems, TLAPS

(***************************************************************************)
(* The wire                                                                *)
(***************************************************************************)
\* What the wire shows and what the translator believes agree: the block it
\* takes for the current one is the one open, its kind is the one announced,
\* and the next index is unused.
WireAgrees ==
    /\ open = CurrentIndex
    /\ current.kind # "none" => /\ current.index \in DOMAIN kinds
                                /\ kinds[current.index] = current.kind
    /\ DOMAIN kinds \subseteq Nat
    /\ \A b \in DOMAIN kinds : b < nextBlock
    /\ current.kind = "tool" => /\ current.tool \in DOMAIN toolBlock
                                /\ toolBlock[current.tool] = current.index

\* A message is under way exactly while the generator runs, and an endpoint
\* without a translator announces no block.
StageFollows ==
    /\ pc \in Where
    /\ pc \in {"body", "scan", "tools", "end"} => stage = "body"
    /\ pc = "attempt" => stage \in {"idle", "restart"} /\ open = {} /\ written = {}
    /\ via = "chat" => open = {} /\ written = {}

Typed ==
    /\ current \in Block /\ nextBlock \in Nat /\ returned \in BOOLEAN
    /\ \A t \in DOMAIN toolBlock : toolBlock[t] \in Nat

\* Once upstream has gone back to an interrupted call the wire is anyone's.
WireInv == Typed /\ StageFollows /\ (~returned => WireAgrees)

\* What the protocol asks of a step that changes blocks within a message.
Blocks ==
    \/ UNCHANGED <<open, kinds>>
    \/ open' = {} /\ UNCHANGED kinds
    \/ Protocol!Switch

\* open_block starts a block under an index no block had.
LEMMA OpenBlockFacts ==
    ASSUME Typed, WireAgrees, NEW kind \in Kinds, NEW tool \in Tools \cup {NoTool},
           OpenBlock(kind, tool)
    PROVE  /\ current' \in Block /\ nextBlock' \in Nat
           /\ current'.kind = kind /\ current'.index = nextBlock /\ current'.tool = tool
           /\ open' = {nextBlock} /\ Protocol!Switch
           /\ nextBlock \in DOMAIN kinds' /\ kinds'[nextBlock] = kind
           /\ DOMAIN kinds' \subseteq Nat /\ \A b \in DOMAIN kinds' : b < nextBlock'
<1>1. /\ current' = [kind |-> kind, index |-> nextBlock, tool |-> tool]
      /\ nextBlock' = nextBlock + 1
      /\ open' = (open \ CurrentIndex) \cup {nextBlock}
      /\ kinds' = [b \in DOMAIN kinds \cup {nextBlock} |->
                      IF b = nextBlock THEN kind ELSE kinds[b]]
  BY DEF OpenBlock
<1>2. open' = {nextBlock}
  BY <1>1 DEF WireAgrees
<1>3. nextBlock \in Nat /\ nextBlock \notin DOMAIN kinds
  BY DEF Typed, WireAgrees
<1>4. /\ DOMAIN kinds' = DOMAIN kinds \cup {nextBlock}
      /\ kinds'[nextBlock] = kind
      /\ \A x \in DOMAIN kinds : kinds'[x] = kinds[x]
  BY <1>1, <1>3
<1>5. Protocol!Switch
  BY <1>2, <1>3, <1>4 DEF Protocol!Switch
<1>6. DOMAIN kinds' \subseteq Nat /\ \A b \in DOMAIN kinds' : b < nextBlock'
  BY <1>1, <1>3, <1>4 DEF WireAgrees
<1>7. current' \in Block /\ nextBlock' \in Nat
  BY <1>1, <1>3 DEF Block
<1>8. current'.kind = kind /\ current'.index = nextBlock /\ current'.tool = tool
  BY <1>1
<1> QED BY <1>2, <1>4, <1>5, <1>6, <1>7, <1>8

\* Content goes to an open block of its kind.
LEMMA EnsureFacts ==
    ASSUME Typed, WireAgrees, NEW kind \in {"text", "thinking"}, Ensure(kind),
           toolBlock' = toolBlock
    PROVE  /\ current' \in Block /\ nextBlock' \in Nat /\ WireAgrees' /\ Blocks
           /\ {<<current'.index, kind>>} \subseteq {<<b, kinds'[b]>> : b \in open'}
<1>1. CASE current.kind = kind
  <2>1. UNCHANGED <<current, nextBlock, open, kinds>>
    BY <1>1 DEF Ensure
  <2>2. current.kind # "none"
    BY <1>1
  <2>3. open' = {current'.index} /\ kinds'[current'.index] = kind
    BY <1>1, <2>1, <2>2 DEF WireAgrees, CurrentIndex
  <2>4. WireAgrees'
    BY <2>1 DEF WireAgrees, CurrentIndex
  <2> QED BY <2>1, <2>3, <2>4 DEF Typed, Blocks
<1>2. CASE current.kind # kind
  <2>1. OpenBlock(kind, NoTool)
    BY <1>2 DEF Ensure
  <2>2. kind \in Kinds /\ NoTool \in Tools \cup {NoTool}
    BY DEF Kinds
  <2>3. /\ current' \in Block /\ nextBlock' \in Nat
        /\ current'.kind = kind /\ current'.index = nextBlock
        /\ open' = {nextBlock} /\ Protocol!Switch
        /\ nextBlock \in DOMAIN kinds' /\ kinds'[nextBlock] = kind
        /\ DOMAIN kinds' \subseteq Nat /\ \A b \in DOMAIN kinds' : b < nextBlock'
    BY <2>1, <2>2, OpenBlockFacts
  <2>4. WireAgrees'
    BY <2>3 DEF WireAgrees, CurrentIndex
  <2> QED BY <2>3, <2>4 DEF Blocks
<1> QED BY <1>1, <1>2

\* A step within a message, as the protocol sees it.
BodyStep ==
    /\ Typed' /\ StageFollows'
    /\ stage = "body" /\ stage' = "body"
    /\ ~returned' => WireAgrees' /\ Blocks /\ Protocol!DeltasFit

\* Pieces go to an open block of their kind.
LEMMA DeliverFacts ==
    ASSUME Typed, ~returned => WireAgrees, NEW think, NEW pieces,
           Deliver(KindOf(think), pieces), toolBlock' = toolBlock, returned' = returned
    PROVE  /\ Typed' /\ (~returned' => WireAgrees' /\ Blocks /\ Protocol!DeltasFit)
<1> DEFINE kind == KindOf(think)
<1>1. kind \in {"text", "thinking"} /\ kind \in Kinds
  BY DEF KindOf, Kinds
<1>2. Ensure(kind) /\ written' = {<<current'.index, kind>>}
  BY DEF Deliver
<1> HIDE DEF kind
<1>3. Typed'
  BY <1>1, <1>2 DEF Ensure, OpenBlock, Typed, Block
<1>4. ASSUME ~returned' PROVE WireAgrees' /\ Blocks /\ Protocol!DeltasFit
  <2>1. WireAgrees
    BY <1>4
  <2>2. /\ WireAgrees' /\ Blocks
        /\ {<<current'.index, kind>>} \subseteq {<<b, kinds'[b]>> : b \in open'}
    BY <1>1, <1>2, <2>1, EnsureFacts
  <2>3. Protocol!DeltasFit
    BY <1>2, <2>2 DEF Protocol!DeltasFit
  <2> QED BY <2>2, <2>3
<1> QED BY <1>3, <1>4

\* Receiving a chunk; reasoning goes out at once.
LEMMA ReceiveKeeps ==
    ASSUME WireInv, via # "chat", via' = via, NEW c \in Chunks, Receive(c)
    PROVE  BodyStep
<1>1. /\ pc = "body" /\ stage = "body" /\ stage' = stage /\ returned' = returned
      /\ toolBlock' = toolBlock /\ pc' \in {"scan", "tools", "body"} /\ Typed
      /\ (~returned => WireAgrees)
  BY DEF Receive, WireInv, StageFollows
<1>2. StageFollows'
  BY <1>1 DEF StageFollows, Where
<1>3. CASE c.reasoning
  <2>1. Ensure("thinking") /\ written' = {<<current'.index, "thinking">>}
    BY <1>3 DEF Receive
  <2>2. Typed'
    BY <1>1, <2>1 DEF Ensure, OpenBlock, Typed, Block, Kinds
  <2>3. ASSUME ~returned' PROVE WireAgrees' /\ Blocks /\ Protocol!DeltasFit
    <3>1. /\ WireAgrees' /\ Blocks
          /\ {<<current'.index, "thinking">>} \subseteq {<<b, kinds'[b]>> : b \in open'}
      BY <1>1, <2>1, <2>3, EnsureFacts
    <3> QED BY <2>1, <3>1 DEF Protocol!DeltasFit
  <2> QED BY <1>1, <1>2, <2>2, <2>3 DEF BodyStep
<1>4. CASE ~c.reasoning
  <2>1. UNCHANGED <<current, nextBlock, open, kinds>> /\ written' = {}
    BY <1>4 DEF Receive
  <2> QED BY <1>1, <1>2, <2>1
          DEF BodyStep, Typed, WireAgrees, CurrentIndex, Blocks, Protocol!DeltasFit
<1> QED BY <1>3, <1>4

\* The scanner and the flushes deliver what they take from the buffer.
LEMMA DeliveryKeeps ==
    ASSUME WireInv, via # "chat", via' = via, ScanText \/ FlushForTools \/ FlushRest
    PROVE  BodyStep
<1>1. /\ pc \in {"scan", "tools", "end"} /\ stage' = stage /\ returned' = returned
      /\ toolBlock' = toolBlock /\ pc' \in {"scan", "tools", "body", "end"}
  BY DEF ScanText, FlushForTools, FlushRest, Scanned, AfterScan
<1>2. \E pieces : Deliver(KindOf(inThink), pieces)
  BY Zenon DEF ScanText, FlushForTools, FlushRest
<1>3. Typed' /\ (~returned' => WireAgrees' /\ Blocks /\ Protocol!DeltasFit)
  BY <1>1, <1>2, DeliverFacts DEF WireInv
<1>4. stage = "body"
  BY <1>1 DEF WireInv, StageFollows
<1>5. StageFollows'
  BY <1>1, <1>4 DEF StageFollows, Where
<1> QED BY <1>1, <1>3, <1>4, <1>5 DEF BodyStep

\* Tags, and text that is held back.
LEMMA ScanKeeps ==
    ASSUME WireInv, via # "chat", via' = via, ScanTag \/ ScanHold
    PROVE  BodyStep
<1>1. /\ pc = "scan" /\ stage' = stage /\ returned' = returned /\ written' = {}
      /\ toolBlock' = toolBlock /\ pc' \in {"scan", "tools", "body"}
      /\ Typed /\ (~returned => WireAgrees) /\ stage = "body"
  BY DEF ScanTag, ScanHold, Scanned, AfterScan, WireInv, StageFollows
<1>2. StageFollows' /\ Protocol!DeltasFit
  BY <1>1 DEF StageFollows, Where, Protocol!DeltasFit
<1>3. CASE ScanHold \/ (ScanTag /\ inThink)
  <2>1. UNCHANGED <<current, nextBlock, open, kinds>> \/ StopCurrent
    BY <1>3 DEF ScanTag, ScanHold
  <2>2. Typed'
    BY <1>1, <2>1 DEF Typed, StopCurrent, Nothing, Block
  <2>3. ~returned' => WireAgrees' /\ Blocks
    BY <1>1, <2>1 DEF WireAgrees, CurrentIndex, Blocks, StopCurrent, Nothing
  <2> QED BY <1>1, <1>2, <2>2, <2>3 DEF BodyStep
<1>4. CASE ScanTag /\ ~inThink
  <2>1. OpenBlock("thinking", NoTool)
    BY <1>4 DEF ScanTag
  <2>2. Typed'
    BY <1>1, <2>1 DEF OpenBlock, Typed, Block, Kinds
  <2>3. ASSUME ~returned' PROVE WireAgrees' /\ Blocks
    <3>1. "thinking" \in Kinds /\ NoTool \in Tools \cup {NoTool} /\ WireAgrees
      BY <1>1, <2>3 DEF Kinds
    <3>2. /\ current'.kind = "thinking" /\ current'.index = nextBlock
          /\ open' = {nextBlock} /\ Protocol!Switch
          /\ nextBlock \in DOMAIN kinds' /\ kinds'[nextBlock] = "thinking"
          /\ DOMAIN kinds' \subseteq Nat /\ \A b \in DOMAIN kinds' : b < nextBlock'
      BY <1>1, <2>1, <3>1, OpenBlockFacts
    <3> QED BY <3>2 DEF WireAgrees, CurrentIndex, Blocks
  <2> QED BY <1>1, <1>2, <2>2, <2>3 DEF BodyStep
<1> QED BY <1>3, <1>4

\* A tool call opens a block, or goes on with the block it has.
LEMMA ToolKeeps ==
    ASSUME WireInv, via # "chat", via' = via, NEW d \in ToolDelta,
           StartCall(d) \/ ContinueCall(d) \/ ReturnToCall(d)
    PROVE  BodyStep \/ (Typed' /\ StageFollows' /\ returned')
<1>1. /\ pc = "tools" /\ stage' = stage /\ pc' \in {"tools", "body"}
      /\ Typed /\ (~returned => WireAgrees) /\ stage = "body" /\ d.tool \in Tools
  BY DEF StartCall, ContinueCall, ReturnToCall, InTools, WireInv, StageFollows, ToolDelta
<1>2. StageFollows'
  BY <1>1 DEF StageFollows, Where
<1>3. CASE StartCall(d)
  <2>1. /\ OpenBlock("tool", d.tool) /\ returned' = returned
        /\ toolBlock' = [t \in DOMAIN toolBlock \cup {d.tool} |->
                            IF t = d.tool THEN nextBlock ELSE toolBlock[t]]
        /\ written' = IF d.args THEN {<<nextBlock, "tool">>} ELSE {}
    BY <1>3 DEF StartCall
  <2>2. Typed'
    BY <1>1, <2>1 DEF OpenBlock, Typed, Block, Kinds
  <2>3. ASSUME ~returned' PROVE WireAgrees' /\ Blocks /\ Protocol!DeltasFit
    <3>1. "tool" \in Kinds /\ d.tool \in Tools \cup {NoTool} /\ WireAgrees
      BY <1>1, <2>1, <2>3 DEF Kinds
    <3>2. /\ current'.kind = "tool" /\ current'.index = nextBlock
          /\ current'.tool = d.tool
          /\ open' = {nextBlock} /\ Protocol!Switch
          /\ nextBlock \in DOMAIN kinds' /\ kinds'[nextBlock] = "tool"
          /\ DOMAIN kinds' \subseteq Nat /\ \A b \in DOMAIN kinds' : b < nextBlock'
      BY <1>1, <2>1, <3>1, OpenBlockFacts
    <3>3. d.tool \in DOMAIN toolBlock' /\ toolBlock'[d.tool] = nextBlock
      BY <2>1
    <3>4. Protocol!DeltasFit
      BY <2>1, <3>2 DEF Protocol!DeltasFit
    <3> QED BY <3>2, <3>3, <3>4 DEF WireAgrees, CurrentIndex, Blocks
  <2> QED BY <1>1, <1>2, <2>2, <2>3 DEF BodyStep
<1>4. CASE ContinueCall(d)
  <2>1. /\ UNCHANGED <<current, nextBlock, open, kinds, toolBlock, returned>>
        /\ current.kind = "tool" /\ current.tool = d.tool
        /\ written' = IF d.args THEN {<<toolBlock[d.tool], "tool">>} ELSE {}
    BY <1>4 DEF ContinueCall, IsCurrent, Arguments
  <2>2. ASSUME ~returned' PROVE WireAgrees' /\ Blocks /\ Protocol!DeltasFit
    <3>1. WireAgrees
      BY <1>1, <2>1, <2>2
    <3>2. open' = {toolBlock[d.tool]} /\ kinds'[toolBlock[d.tool]] = "tool"
      BY <2>1, <3>1 DEF WireAgrees, CurrentIndex
    <3>3. Protocol!DeltasFit
      BY <2>1, <3>2 DEF Protocol!DeltasFit
    <3> QED BY <2>1, <3>1, <3>3 DEF WireAgrees, CurrentIndex, Blocks
  <2> QED BY <1>1, <1>2, <2>1, <2>2 DEF BodyStep, Typed
<1>5. CASE ReturnToCall(d)
  <2>1. /\ returned' = TRUE /\ nextBlock' = nextBlock
        /\ current' = [kind |-> "tool", index |-> toolBlock[d.tool], tool |-> d.tool]
    BY <1>5 DEF ReturnToCall
  <2>2. toolBlock[d.tool] \in Nat /\ toolBlock' = toolBlock
    BY <1>1, <1>5 DEF ReturnToCall, Typed
  <2> QED BY <1>1, <1>2, <2>1, <2>2 DEF Typed, Block, Kinds
<1> QED BY <1>3, <1>4, <1>5

\* The end of upstream's stream, and of the message.
LEMMA EndKeeps ==
    ASSUME WireInv, via # "chat", via' = via
    PROVE  /\ UpstreamEnds => BodyStep
           /\ EndMessage => WireInv' /\ (returned' \/ Protocol!Finish)
<1>1. Typed /\ (~returned => WireAgrees)
  BY DEF WireInv
<1>2. ASSUME UpstreamEnds PROVE BodyStep
  <2>1. /\ pc = "body" /\ pc' = "end" /\ written' = {}
        /\ UNCHANGED <<stage, current, toolBlock, nextBlock, open, kinds, returned>>
    BY <1>2 DEF UpstreamEnds, translator
  <2>2. stage = "body" /\ stage' = "body" /\ StageFollows'
    BY <2>1 DEF WireInv, StageFollows, Where
  <2> QED BY <1>1, <2>1, <2>2
          DEF BodyStep, Typed, WireAgrees, CurrentIndex, Blocks, Protocol!DeltasFit
<1>3. ASSUME EndMessage PROVE WireInv' /\ (returned' \/ Protocol!Finish)
  <2>1. /\ pc = "end" /\ pc' = "over" /\ stage' = "done" /\ written' = {}
        /\ StopCurrent /\ UNCHANGED <<toolBlock, returned>>
    BY <1>3 DEF EndMessage
  <2>2. stage = "body" /\ StageFollows'
    BY <2>1 DEF WireInv, StageFollows, Where
  <2>3. Typed'
    BY <1>1, <2>1 DEF StopCurrent, Nothing, Typed, Block
  <2>4. ASSUME ~returned PROVE WireAgrees' /\ Protocol!Finish
    BY <1>1, <2>1, <2>2, <2>4
       DEF StopCurrent, Nothing, WireAgrees, CurrentIndex, Protocol!Finish
  <2> QED BY <2>1, <2>2, <2>3, <2>4 DEF WireInv
<1> QED BY <1>2, <1>3

\* A body step is one of the protocol, and keeps the invariant.
LEMMA BodyStepFits ==
    ASSUME BodyStep
    PROVE  WireInv' /\ (returned' \/ Protocol!Next)
BY Zenon DEF BodyStep, WireInv, Blocks, Protocol!Next, Protocol!Body

\* What may happen to the wire in one step.
Fits == \/ returned'
        \/ "restart" \in {stage, stage'}
        \/ Protocol!Next
        \/ UNCHANGED Protocol!protocolVars

LEMMA TranslateKeeps ==
    ASSUME WireInv, via # "chat", via' = via, Translate
    PROVE  WireInv' /\ Fits
<1>1. ASSUME BodyStep PROVE WireInv' /\ Fits
  BY <1>1, BodyStepFits DEF Fits
<1>2. CASE \E c \in Chunks : Receive(c)
  BY <1>1, <1>2, ReceiveKeeps
<1>3. CASE ScanText \/ FlushForTools \/ FlushRest
  BY <1>1, <1>3, DeliveryKeeps
<1>4. CASE ScanTag \/ ScanHold
  BY <1>1, <1>4, ScanKeeps
<1>5. CASE \E d \in ToolDelta : StartCall(d) \/ ContinueCall(d) \/ ReturnToCall(d)
  <2>1. BodyStep \/ (Typed' /\ StageFollows' /\ returned')
    BY <1>5, ToolKeeps
  <2>2. Typed' /\ StageFollows' /\ returned' => WireInv' /\ Fits
    BY DEF WireInv, Fits
  <2> QED BY <1>1, <2>1, <2>2
<1>6. CASE UpstreamEnds
  BY <1>1, <1>6, EndKeeps
<1>7. CASE EndMessage
  <2>1. WireInv' /\ (returned' \/ Protocol!Finish)
    BY <1>7, EndKeeps
  <2> QED BY <2>1 DEF Fits, Protocol!Next
<1> QED BY <1>2, <1>3, <1>4, <1>5, <1>6, <1>7 DEF Translate

\* Attempts, failures and the chat relay.
LEMMA RequestKeeps ==
    ASSUME WireInv, Request
    PROVE  WireInv' /\ Fits
<1>1. Typed /\ StageFollows /\ (~returned => WireAgrees)
  BY DEF WireInv
<1>2. ASSUME UNCHANGED <<translator, returned, open, kinds>>, StageFollows' PROVE WireInv'
  BY <1>1, <1>2 DEF WireInv, Typed, WireAgrees, CurrentIndex, translator
<1>3. CASE NextKey \/ ContextWindow
  <2>1. UNCHANGED <<pc, via, translator, returned, wire>>
    BY <1>3 DEF NextKey, ContextWindow, Compact, streamVars
  <2>2. StageFollows'
    BY <1>1, <2>1 DEF StageFollows, wire
  <2> QED BY <1>2, <2>1, <2>2 DEF Fits, wire, Protocol!protocolVars
<1>4. CASE GiveUp
  <2>1. /\ pc = "attempt" /\ stage' = "errored" /\ pc' = "over" /\ written' = {}
        /\ UNCHANGED <<via, translator, returned, open, kinds>>
    BY <1>4 DEF GiveUp, requestVars
  <2>2. StageFollows' /\ stage \in {"idle", "restart"}
    BY <1>1, <2>1 DEF StageFollows, Where
  <2>3. Fits
    BY <2>1, <2>2 DEF Fits, Protocol!Next, Protocol!Break
  <2> QED BY <1>2, <2>1, <2>2, <2>3
<1>5. CASE OpenStream
  <2>1. /\ pc = "attempt" /\ stage' = "body" /\ pc' = "body"
        /\ UNCHANGED <<via, translator, returned, open, kinds, written>>
    BY <1>5 DEF OpenStream
  <2>2. StageFollows' /\ stage \in {"idle", "restart"} /\ written' = {}
    BY <1>1, <2>1 DEF StageFollows, Where
  <2>3. Fits
    BY <2>1, <2>2 DEF Fits, Protocol!Next, Protocol!Begin
  <2> QED BY <1>2, <2>1, <2>2, <2>3
<1>6. CASE StreamFails
  <2>1. /\ pc = "body" /\ stage' \in {"errored", "cut"} /\ pc' = "over" /\ written' = {}
        /\ UNCHANGED <<via, translator, returned, open, kinds>>
    BY <1>6 DEF StreamFails, requestVars
  <2>2. StageFollows' /\ stage = "body"
    BY <1>1, <2>1 DEF StageFollows, Where
  <2>3. Fits
    BY <2>1, <2>2 DEF Fits, Protocol!Next, Protocol!Break
  <2> QED BY <1>2, <2>1, <2>2, <2>3
<1>7. CASE ContextWindowMidStream
  <2>1. /\ pc' = "attempt" /\ stage' = "restart" /\ FreshNext
        /\ open' = {} /\ kinds' = <<>> /\ written' = {} /\ returned' = returned
    BY <1>7 DEF ContextWindowMidStream
  <2>2. StageFollows'
    BY <2>1 DEF StageFollows, Where
  <2>3. DOMAIN kinds' = {} /\ DOMAIN toolBlock' = {} /\ current' = Nothing /\ nextBlock' = 0
    BY <2>1 DEF FreshNext
  <2>4. Typed' /\ WireAgrees'
    BY <1>1, <2>1, <2>3 DEF Typed, WireAgrees, CurrentIndex, Nothing, Block
  <2> QED BY <2>1, <2>2, <2>4 DEF WireInv, Fits
<1>8. CASE ChatEvent
  <2>1. UNCHANGED <<pc, via, translator, returned, wire>>
    BY <1>8 DEF ChatEvent, requestVars
  <2>2. StageFollows'
    BY <1>1, <2>1 DEF StageFollows, wire
  <2> QED BY <1>2, <2>1, <2>2 DEF Fits, wire, Protocol!protocolVars
<1>9. CASE ChatEnds
  <2>1. /\ pc = "body" /\ via = "chat" /\ stage' = "done" /\ pc' = "over"
        /\ UNCHANGED <<via, translator, returned, open, kinds, written>>
    BY <1>9 DEF ChatEnds, requestVars
  <2>2. StageFollows' /\ stage = "body" /\ open = {} /\ written = {}
    BY <1>1, <2>1 DEF StageFollows, Where
  <2>3. Fits
    BY <2>1, <2>2 DEF Fits, Protocol!Next, Protocol!Finish
  <2> QED BY <1>2, <2>1, <2>2, <2>3
<1> QED BY <1>3, <1>4, <1>5, <1>6, <1>7, <1>8, <1>9 DEF Request

\* The wire keeps its invariant, and every step is one of the protocol.
LEMMA WireStep ==
    ASSUME WireInv, [Next]_vars
    PROVE  WireInv' /\ Fits
<1>1. CASE UNCHANGED vars
  <2>1. UNCHANGED <<pc, via, current, toolBlock, nextBlock, returned, stage, open, kinds, written>>
    BY <1>1 DEF vars, streamVars, requestVars, translator, wire
  <2> QED BY <2>1 DEF WireInv, Typed, StageFollows, WireAgrees, CurrentIndex, Fits,
                      Protocol!protocolVars
<1>2. CASE Request
  BY <1>2, RequestKeeps
<1>3. CASE via # "chat" /\ Translate /\ UNCHANGED <<converterVars, requestVars>>
  BY <1>3, TranslateKeeps DEF requestVars
<1> QED BY <1>1, <1>2, <1>3 DEF Next

LEMMA WireStart == Init => WireInv /\ Protocol!Init
<1> SUFFICES ASSUME Init PROVE WireInv /\ Protocol!Init
  OBVIOUS
<1>1. /\ pc = "attempt" /\ stage = "idle" /\ open = {} /\ kinds = <<>> /\ written = {}
      /\ current = Nothing /\ toolBlock = <<>> /\ nextBlock = 0 /\ returned = FALSE
  BY DEF Init, StreamInit, Fresh
<1>2. DOMAIN kinds = {} /\ DOMAIN toolBlock = {}
  BY <1>1
<1>3. Typed /\ WireAgrees
  BY <1>1, <1>2 DEF Typed, WireAgrees, CurrentIndex, Nothing, Block
<1>4. StageFollows
  BY <1>1 DEF StageFollows, Where
<1> QED BY <1>1, <1>3, <1>4 DEF WireInv, Protocol!Init

\* Whatever upstream sends, cut into chunks in any way and interleaving any
\* number of tool calls, the client sees a well-framed message.
THEOREM FramesWell == Spec => WellFramed
<1>1. WireInv /\ [Next]_vars => WireInv'
  BY WireStep
<1>2. WireInv /\ [Next]_vars =>
        [returned' \/ "restart" \in {stage, stage'} \/ Protocol!Next]_(Protocol!protocolVars)
  BY WireStep DEF Fits
<1> QED BY WireStart, <1>1, <1>2, PTL DEF Spec, WellFramed

(***************************************************************************)
(* The arguments of tool calls                                             *)
(***************************************************************************)
\* Argument deltas of call t among the deltas s.
Deltas(s, t) == {i \in DOMAIN s : s[i].tool = t /\ s[i].args}

Count(s, t) == Cardinality(Deltas(s, t))

\* Handling the first delta leaves one less of its call.
LEMMA CountTail ==
    ASSUME NEW s \in Seq(ToolDelta), s # <<>>, NEW t
    PROVE  /\ Count(Tail(s), t) \in Nat
           /\ Count(s, t) = Count(Tail(s), t)
                            + (IF Head(s).tool = t /\ Head(s).args THEN 1 ELSE 0)
<1> DEFINE r == Tail(s)
           A == Deltas(s, t)
           B == Deltas(r, t)
           C == A \ {1}
           f == [i \in B |-> i + 1]
<1>1. /\ Len(s) \in Nat /\ Len(s) > 0 /\ DOMAIN s = 1..Len(s)
      /\ r \in Seq(ToolDelta) /\ Len(r) = Len(s) - 1 /\ DOMAIN r = 1..Len(s) - 1
      /\ \A i \in 1..Len(s) - 1 : r[i] = s[i + 1]
      /\ Head(s) = s[1]
  OBVIOUS
<1> HIDE DEF r
<1>2. A \subseteq 1..Len(s) /\ B \subseteq 1..Len(s) - 1
  BY <1>1 DEF Deltas
<1>3. IsFiniteSet(A) /\ IsFiniteSet(B) /\ IsFiniteSet(C)
  <2>1. IsFiniteSet(1..Len(s)) /\ IsFiniteSet(1..Len(s) - 1)
    BY <1>1, FS_Interval
  <2>2. IsFiniteSet(A) /\ IsFiniteSet(B)
    BY <1>2, <2>1, FS_Subset
  <2>3. C \subseteq A
    OBVIOUS
  <2> QED BY <2>2, <2>3, FS_Subset
<1>4. f \in Bijection(B, C)
  <2>1. ASSUME NEW i \in B PROVE f[i] \in C
    <3>1. i \in 1..Len(s) - 1 /\ i + 1 \in 1..Len(s) /\ i + 1 # 1 /\ r[i] = s[i + 1]
      BY <1>1, <1>2
    <3> QED BY <1>1, <3>1 DEF Deltas
  <2>2. ASSUME NEW j \in C PROVE \E i \in B : f[i] = j
    <3>1. j \in 2..Len(s) /\ j - 1 \in 1..Len(s) - 1 /\ (j - 1) + 1 = j
      BY <1>1, <1>2
    <3>2. j - 1 \in B
      BY <1>1, <3>1 DEF Deltas
    <3> QED BY <3>1, <3>2
  <2>3. \A i, j \in B : f[i] = f[j] => i = j
    BY <1>1, <1>2
  <2> HIDE DEF B, C
  <2>4. f \in [B -> C]
    BY <2>1
  <2>5. IsInjective(f)
    BY <2>3, <2>4 DEF IsInjective
  <2> HIDE DEF f
  <2> QED BY <2>2, <2>4, <2>5 DEF Bijection, Injection, Surjection
<1>5. Cardinality(B) = Cardinality(C)
  <2>1. ExistsBijection(B, C)
    BY <1>4 DEF ExistsBijection
  <2> QED BY <1>3, <2>1, FS_Bijection
<1>6. Cardinality(B) \in Nat
  BY <1>3, FS_CardinalityType
<1> HIDE DEF B
<1>7. CASE 1 \in A
  <2>1. Head(s).tool = t /\ Head(s).args
    BY <1>1, <1>7 DEF Deltas
  <2>2. A = C \cup {1} /\ 1 \notin C
    BY <1>7
  <2>3. Cardinality(A) = Cardinality(C) + 1
    BY <1>3, <2>2, FS_AddElement
  <2> HIDE DEF A, C
  <2> QED BY <1>5, <1>6, <2>1, <2>3, Zenon DEF Count, r, A, B
<1>8. CASE 1 \notin A
  <2>1. ~(Head(s).tool = t /\ Head(s).args)
    BY <1>1, <1>8 DEF Deltas
  <2>2. A = C
    BY <1>8
  <2> HIDE DEF A, C
  <2>3. Cardinality(A) = Cardinality(B) + 0
    BY <1>5, <1>6, <2>2
  <2> QED BY <1>6, <2>1, <2>3, Zenon DEF Count, r, A, B
<1> QED BY <1>7, <1>8

\* What has been received of each call is what its block got and what is still
\* to be handled of the chunk in hand.
CallsInv ==
    /\ argsIn \in [Tools -> Nat] /\ todo \in Seq(ToolDelta) /\ nextBlock \in Nat
    /\ pc \notin {"scan", "tools"} => todo = <<>>
    /\ DOMAIN toolBlock \subseteq Tools
    /\ \A b \in DOMAIN argsOut : b \in Nat /\ b < nextBlock /\ argsOut[b] \in Nat
    /\ \A t \in DOMAIN toolBlock : toolBlock[t] \in DOMAIN argsOut
    /\ \A t, u \in DOMAIN toolBlock : toolBlock[t] = toolBlock[u] => t = u
    /\ \A t \in Tools : argsIn[t] = Count(todo, t)
                          + (IF t \in DOMAIN toolBlock THEN argsOut[toolBlock[t]] ELSE 0)

LEMMA CountFacts ==
    /\ \A t : Count(<<>>, t) = 0
    /\ \A s \in Seq(ToolDelta) : \A t : Count(s, t) \in Nat
<1>1. ASSUME NEW t PROVE Count(<<>>, t) = 0
  <2>1. Deltas(<<>>, t) = {}
    BY DEF Deltas
  <2> QED BY <2>1, FS_EmptySet DEF Count
<1>2. ASSUME NEW s \in Seq(ToolDelta), NEW t PROVE Count(s, t) \in Nat
  <2>1. Deltas(s, t) \subseteq 1..Len(s) /\ Len(s) \in Nat
    BY DEF Deltas
  <2>2. IsFiniteSet(1..Len(s))
    BY <2>1, FS_Interval
  <2>3. IsFiniteSet(Deltas(s, t))
    BY <2>1, <2>2, FS_Subset
  <2> QED BY <2>3, FS_CardinalityType DEF Count
<1> QED BY <1>1, <1>2

\* Steps that do not touch the calls.
LEMMA CallsStay ==
    ASSUME CallsInv, UNCHANGED <<argsIn, argsOut, toolBlock, todo>>,
           nextBlock' \in Nat, nextBlock' >= nextBlock,
           pc' \notin {"scan", "tools"} => todo = <<>>
    PROVE  CallsInv'
<1>1. \A b \in DOMAIN argsOut : b < nextBlock'
  BY DEF CallsInv
<1> QED BY <1>1 DEF CallsInv

LEMMA EnsureNext ==
    ASSUME nextBlock \in Nat, NEW kind, Ensure(kind)
    PROVE  nextBlock' \in Nat /\ nextBlock' >= nextBlock
BY DEF Ensure, OpenBlock

LEMMA CallsReceive ==
    ASSUME CallsInv, NEW c \in Chunks, Receive(c)
    PROVE  CallsInv'
<1>1. /\ c.tools \in Seq(ToolDelta) /\ todo' = c.tools /\ todo = <<>>
      /\ UNCHANGED <<toolBlock, argsOut>>
      /\ argsIn' = [t \in Tools |-> argsIn[t] + ArgumentsIn(c, t)]
      /\ pc' = IF c.text # <<>> THEN "scan" ELSE IF c.tools # <<>> THEN "tools" ELSE "body"
  BY TranslatorAssumption DEF Receive, CallsInv, Chunk
<1>2. \A t : ArgumentsIn(c, t) = Count(c.tools, t)
  BY DEF ArgumentsIn, Count, Deltas
<1>3. nextBlock' \in Nat /\ nextBlock' >= nextBlock
  BY EnsureNext DEF Receive, CallsInv
<1>4. pc' \notin {"scan", "tools"} => todo' = <<>>
  BY <1>1
<1>5. ASSUME NEW t \in Tools
      PROVE  /\ argsIn'[t] \in Nat
             /\ argsIn'[t] = Count(todo', t)
                    + (IF t \in DOMAIN toolBlock' THEN argsOut'[toolBlock'[t]] ELSE 0)
  <2> DEFINE got == IF t \in DOMAIN toolBlock THEN argsOut[toolBlock[t]] ELSE 0
             new == Count(c.tools, t)
  <2>1. argsIn[t] = 0 + got /\ got \in Nat /\ new \in Nat
    BY <1>1, CountFacts DEF CallsInv
  <2>2. argsIn'[t] = argsIn[t] + new
    BY <1>1, <1>2
  <2> HIDE DEF new
  <2>3. argsIn'[t] = new + got /\ argsIn'[t] \in Nat
    BY <2>1, <2>2
  <2> QED BY <1>1, <2>3 DEF new
<1>6. argsIn' \in [Tools -> Nat]
  BY <1>1, <1>5
<1>7. \A b \in DOMAIN argsOut' : b \in Nat /\ b < nextBlock' /\ argsOut'[b] \in Nat
  BY <1>1, <1>3 DEF CallsInv
<1> QED BY <1>1, <1>3, <1>4, <1>5, <1>6, <1>7 DEF CallsInv

\* A delta moves from what is to be handled to its block.
LEMMA CallsDelta ==
    ASSUME CallsInv, NEW d \in ToolDelta,
           StartCall(d) \/ ContinueCall(d) \/ ReturnToCall(d)
    PROVE  CallsInv'
<1> DEFINE more(t) == IF d.tool = t /\ d.args THEN 1 ELSE 0
           got(t) == IF t \in DOMAIN toolBlock THEN argsOut[toolBlock[t]] ELSE 0
           new(t) == IF t \in DOMAIN toolBlock' THEN argsOut'[toolBlock'[t]] ELSE 0
<1>1. /\ todo # <<>> /\ d = Head(todo) /\ todo' = Tail(todo)
      /\ pc' = IF Tail(todo) = <<>> THEN "body" ELSE "tools"
      /\ argsIn' = argsIn /\ d.tool \in Tools /\ d.args \in BOOLEAN
  BY DEF StartCall, ContinueCall, ReturnToCall, InTools, ToolDelta
<1>2. /\ todo' \in Seq(ToolDelta) /\ (pc' \notin {"scan", "tools"} => todo' = <<>>)
      /\ \A t : Count(todo', t) \in Nat /\ Count(todo, t) = Count(todo', t) + more(t)
  BY <1>1, CountTail DEF CallsInv
<1>3. \A t \in Tools : argsIn[t] = Count(todo, t) + got(t) /\ got(t) \in Nat
  BY DEF CallsInv
<1>4. CASE StartCall(d)
  <2>1. /\ d.tool \notin DOMAIN toolBlock
        /\ nextBlock' = nextBlock + 1
        /\ toolBlock' = [t \in DOMAIN toolBlock \cup {d.tool} |->
                            IF t = d.tool THEN nextBlock ELSE toolBlock[t]]
        /\ argsOut' = [b \in DOMAIN argsOut \cup {nextBlock} |->
                            IF b # nextBlock THEN argsOut[b] ELSE IF d.args THEN 1 ELSE 0]
    BY <1>4 DEF StartCall, OpenBlock
  <2>2. nextBlock \in Nat /\ nextBlock \notin DOMAIN argsOut
    BY DEF CallsInv
  <2>3. \A b \in DOMAIN argsOut' : b \in Nat /\ b < nextBlock' /\ argsOut'[b] \in Nat
    BY <2>1, <2>2 DEF CallsInv
  <2>4. \A t \in DOMAIN toolBlock : /\ toolBlock'[t] = toolBlock[t]
                                    /\ toolBlock[t] \in DOMAIN argsOut
                                    /\ argsOut'[toolBlock[t]] = argsOut[toolBlock[t]]
                                    /\ toolBlock[t] # nextBlock
    BY <2>1, <2>2 DEF CallsInv
  <2>5. /\ toolBlock'[d.tool] = nextBlock
        /\ argsOut'[nextBlock] = IF d.args THEN 1 ELSE 0
        /\ DOMAIN toolBlock' = DOMAIN toolBlock \cup {d.tool}
        /\ DOMAIN argsOut' = DOMAIN argsOut \cup {nextBlock}
    BY <2>1
  <2>6. \A t \in Tools : new(t) = got(t) + more(t)
    <3> TAKE t \in Tools
    <3>1. CASE t = d.tool
      BY <2>1, <2>5, <3>1
    <3>2. CASE t # d.tool
      BY <1>3, <2>4, <2>5, <3>2
    <3> QED BY <3>1, <3>2
  <2>7. \A t, u \in DOMAIN toolBlock' : toolBlock'[t] = toolBlock'[u] => t = u
    BY <2>4, <2>5 DEF CallsInv
  <2>8. \A t \in Tools : argsIn'[t] = Count(todo', t) + new(t)
    <3> HIDE DEF more, got, new
    <3> TAKE t \in Tools
    <3>1. more(t) \in Nat
      BY DEF more
    <3> QED BY <1>1, <1>2, <1>3, <2>6, <3>1
  <2>9. nextBlock' \in Nat /\ DOMAIN toolBlock' \subseteq Tools
    BY <1>1, <2>1, <2>2 DEF CallsInv
  <2>10. \A t \in DOMAIN toolBlock' : toolBlock'[t] \in DOMAIN argsOut'
    BY <2>4, <2>5
  <2> QED BY <1>1, <1>2, <2>3, <2>7, <2>8, <2>9, <2>10 DEF CallsInv
<1>5. CASE ContinueCall(d) \/ ReturnToCall(d)
  <2> DEFINE b == toolBlock[d.tool]
  <2>1. /\ d.tool \in DOMAIN toolBlock
        /\ toolBlock' = toolBlock /\ nextBlock' = nextBlock
        /\ argsOut' = IF d.args THEN [argsOut EXCEPT ![b] = @ + 1] ELSE argsOut
    BY <1>5 DEF ContinueCall, ReturnToCall, Arguments
  <2>2. b \in DOMAIN argsOut /\ argsOut[b] \in Nat
    BY <2>1 DEF CallsInv
  <2>3. /\ DOMAIN argsOut' = DOMAIN argsOut
        /\ argsOut'[b] = argsOut[b] + (IF d.args THEN 1 ELSE 0)
        /\ \A x \in DOMAIN argsOut \ {b} : argsOut'[x] = argsOut[x]
    BY <2>1, <2>2
  <2>4. \A t \in DOMAIN toolBlock : /\ toolBlock[t] \in DOMAIN argsOut
                                    /\ t # d.tool => toolBlock[t] # b
    BY <2>1 DEF CallsInv
  <2>5. \A t \in Tools : new(t) = got(t) + more(t)
    <3> TAKE t \in Tools
    <3>1. CASE t = d.tool
      BY <2>1, <2>3, <3>1
    <3>2. CASE t # d.tool
      BY <1>3, <2>1, <2>3, <2>4, <3>2
    <3> QED BY <3>1, <3>2
  <2>6. \A t \in Tools : argsIn'[t] = Count(todo', t) + new(t)
    <3> HIDE DEF more, got, new
    <3> TAKE t \in Tools
    <3>1. more(t) \in Nat
      BY DEF more
    <3> QED BY <1>1, <1>2, <1>3, <2>5, <3>1
  <2>7. \A x \in DOMAIN argsOut' : x \in Nat /\ x < nextBlock' /\ argsOut'[x] \in Nat
    BY <2>1, <2>2, <2>3 DEF CallsInv
  <2> QED BY <1>1, <1>2, <2>1, <2>3, <2>6, <2>7 DEF CallsInv
<1> QED BY <1>4, <1>5

LEMMA CallsStep ==
    ASSUME CallsInv, [Next]_vars
    PROVE  CallsInv'
<1>1. CASE UNCHANGED vars
  BY <1>1, CallsStay DEF vars, streamVars, translator, history, CallsInv
<1>2. CASE Translate
  <2>1. CASE \E c \in Chunks : Receive(c)
    BY <2>1, CallsReceive
  <2>2. CASE \E d \in ToolDelta : StartCall(d) \/ ContinueCall(d) \/ ReturnToCall(d)
    BY <2>2, CallsDelta
  <2>3. CASE ScanText \/ FlushForTools \/ FlushRest
    <3>1. \E kind, pieces : Deliver(kind, pieces)
      BY <2>3, Zenon DEF ScanText, FlushForTools, FlushRest
    <3>2. nextBlock' \in Nat /\ nextBlock' >= nextBlock
      BY <3>1, EnsureNext DEF Deliver, CallsInv
    <3>3. /\ UNCHANGED <<argsIn, argsOut, toolBlock, todo>>
          /\ pc' \notin {"scan", "tools"} => todo = <<>>
      BY <2>3 DEF ScanText, FlushForTools, FlushRest, Scanned, AfterScan, CallsInv
    <3> QED BY <3>2, <3>3, CallsStay
  <2>4. CASE ScanTag \/ ScanHold
    <3>1. nextBlock' \in Nat /\ nextBlock' >= nextBlock
      BY <2>4 DEF ScanTag, ScanHold, StopCurrent, OpenBlock, CallsInv
    <3>2. /\ UNCHANGED <<argsIn, argsOut, toolBlock, todo>>
          /\ pc' \notin {"scan", "tools"} => todo = <<>>
      BY <2>4 DEF ScanTag, ScanHold, Scanned, AfterScan, CallsInv
    <3> QED BY <3>1, <3>2, CallsStay
  <2>5. CASE UpstreamEnds \/ EndMessage
    <3>1. UNCHANGED <<argsIn, argsOut, toolBlock, todo, nextBlock>> /\ pc \in {"body", "end"}
      BY <2>5 DEF UpstreamEnds, EndMessage, StopCurrent, translator, history
    <3>2. todo = <<>> /\ nextBlock' \in Nat /\ nextBlock' >= nextBlock
      BY <3>1 DEF CallsInv
    <3> QED BY <3>1, <3>2, CallsStay
  <2> QED BY <1>2, <2>1, <2>2, <2>3, <2>4, <2>5 DEF Translate
<1>3. CASE ContextWindowMidStream
  <2>1. /\ todo' = todo /\ todo = <<>> /\ nextBlock' = 0 /\ toolBlock' = <<>>
        /\ argsIn' = [t \in Tools |-> 0] /\ argsOut' = <<>>
    BY <1>3 DEF ContextWindowMidStream, FreshNext, CallsInv
  <2>2. \A t : Count(todo', t) = 0
    BY <2>1, CountFacts
  <2> QED BY <2>1, <2>2 DEF CallsInv
<1>4. CASE Request /\ ~ContextWindowMidStream
  <2>1. UNCHANGED <<argsIn, argsOut, toolBlock, todo, nextBlock>> /\ pc \in {"attempt", "body"}
    BY <1>4 DEF Request, NextKey, GiveUp, ContextWindow, OpenStream, StreamFails,
                ChatEvent, ChatEnds, streamVars, translator, history
  <2>2. todo = <<>> /\ nextBlock' \in Nat /\ nextBlock' >= nextBlock
    BY <2>1 DEF CallsInv
  <2> QED BY <2>1, <2>2, CallsStay
<1> QED BY <1>1, <1>2, <1>3, <1>4 DEF Next, Request

LEMMA CallsStart == Init => CallsInv
<1> SUFFICES ASSUME Init PROVE CallsInv
  OBVIOUS
<1>1. /\ argsIn = [t \in Tools |-> 0] /\ argsOut = <<>> /\ toolBlock = <<>>
      /\ todo = <<>> /\ nextBlock = 0
  BY DEF Init, StreamInit, Fresh
<1>2. \A t : Count(todo, t) = 0
  BY <1>1, CountFacts
<1> QED BY <1>1, <1>2 DEF CallsInv

\* However upstream interleaves the deltas of any number of tool calls, all
\* arguments of a call, and no others, go to the one block of the call.
THEOREM ArgumentsTogether == Spec => []ToolArgumentsStayTogether
<1>1. CallsInv => ToolArgumentsStayTogether
  <2> SUFFICES ASSUME CallsInv, pc \in {"body", "end"}
               PROVE  /\ \A t \in Tools : argsIn[t] > 0 => t \in DOMAIN toolBlock
                      /\ \A t \in DOMAIN toolBlock : argsOut[toolBlock[t]] = argsIn[t]
                      /\ \A t, u \in DOMAIN toolBlock : toolBlock[t] = toolBlock[u] => t = u
    BY DEF ToolArgumentsStayTogether
  <2>1. \A t : Count(todo, t) = 0
    BY CountFacts DEF CallsInv
  <2>2. \A t \in Tools : argsIn[t] = IF t \in DOMAIN toolBlock THEN argsOut[toolBlock[t]] ELSE 0
    BY <2>1 DEF CallsInv
  <2> QED BY <2>2 DEF CallsInv
<1> QED BY <1>1, CallsStart, CallsStep, PTL DEF Spec

(***************************************************************************)
(* Types                                                                   *)
(***************************************************************************)
\* The parts of the type invariant the translator writes.
TranslatorTyped ==
    /\ todo \in Seq(ToolDelta)
    /\ current \in Block
    /\ DOMAIN toolBlock \subseteq Tools /\ \A t \in DOMAIN toolBlock : toolBlock[t] \in Nat
    /\ nextBlock \in Nat
    /\ buffer \in Seq(Pieces) /\ inThink \in BOOLEAN
    /\ open \subseteq Nat /\ DOMAIN kinds \subseteq Nat
    /\ \A b \in DOMAIN kinds : kinds[b] \in Kinds
    /\ written \subseteq Nat \X Kinds
    /\ returned \in BOOLEAN

ProgressTyped ==
    /\ pc \in Where /\ stage \in Stages /\ chunks \in 0..MaxChunks
    /\ via \in Vias /\ attempt \in 1..Attempts /\ level \in 0..Len(Keep)

LEMMA TypeParts ==
    /\ TypeOK <=> TranslatorTyped /\ ProgressTyped
    /\ TypeOK' <=> TranslatorTyped' /\ ProgressTyped'
BY DEF TypeOK, TranslatorTyped, ProgressTyped

LEMMA OpenTyped ==
    ASSUME TranslatorTyped, NEW kind \in Kinds, NEW tool \in Tools \cup {NoTool},
           OpenBlock(kind, tool) \/ StopCurrent \/ UNCHANGED <<current, nextBlock, open, kinds>>
    PROVE  /\ current' \in Block /\ nextBlock' \in Nat
           /\ open' \subseteq Nat /\ DOMAIN kinds' \subseteq Nat
           /\ \A b \in DOMAIN kinds' : kinds'[b] \in Kinds
<1>1. CASE OpenBlock(kind, tool)
  BY <1>1 DEF OpenBlock, TranslatorTyped, Block
<1>2. CASE StopCurrent
  <2>1. current' = Nothing /\ open' \subseteq open /\ UNCHANGED <<nextBlock, kinds>>
    BY <1>2 DEF StopCurrent
  <2>2. Nothing \in Block
    BY DEF Nothing, Block
  <2> QED BY <2>1, <2>2 DEF TranslatorTyped
<1>3. CASE UNCHANGED <<current, nextBlock, open, kinds>>
  BY <1>3 DEF TranslatorTyped
<1> QED BY <1>1, <1>2, <1>3

LEMMA DeliverTyped ==
    ASSUME TranslatorTyped, NEW think, NEW pieces, Deliver(KindOf(think), pieces),
           UNCHANGED <<todo, toolBlock, returned>>,
           buffer' \in Seq(Pieces), inThink' \in BOOLEAN
    PROVE  TranslatorTyped'
<1> DEFINE kind == KindOf(think)
<1>1. kind \in Kinds /\ NoTool \in Tools \cup {NoTool}
  BY DEF KindOf, Kinds
<1>2. Ensure(kind) /\ written' = {<<current'.index, kind>>}
  BY DEF Deliver
<1> HIDE DEF kind
<1>3. OpenBlock(kind, NoTool) \/ UNCHANGED <<current, nextBlock, open, kinds>>
  BY <1>2 DEF Ensure
<1>4. /\ current' \in Block /\ nextBlock' \in Nat
      /\ open' \subseteq Nat /\ DOMAIN kinds' \subseteq Nat
      /\ \A b \in DOMAIN kinds' : kinds'[b] \in Kinds
  BY <1>1, <1>3, OpenTyped
<1>5. current'.index \in Nat
  BY <1>4 DEF Block
<1>6. written' \subseteq Nat \X Kinds
  BY <1>1, <1>2, <1>5
<1> QED BY <1>4, <1>6 DEF TranslatorTyped

\* A stretch of the buffer is one of pieces.
LEMMA BufferCut ==
    ASSUME NEW s \in Seq(Pieces), NEW n \in Nat
    PROVE  SubSeq(s, n + 1, Len(s)) \in Seq(Pieces)
<1>1. Len(s) \in Nat /\ n + 1 \in Nat /\ n + 1 >= 1
  BY LenProperties
<1>2. \A i \in n + 1..Len(s) : s[i] \in Pieces
  BY <1>1, ElementOfSeq
<1> QED BY <1>1, <1>2, SubSeqProperties

\* A tag starts where there is one, and it ends at its first ">".
LEMMA TagStartFacts ==
    ASSUME NEW s, Len(s) \in Nat, NEW think
    PROVE  /\ TagStarts(s, think) \in SUBSET (1..Len(s))
           /\ \A i \in 1..Len(s) : i \in TagStarts(s, think) <=> IsTag(s, i, think)
BY DEF TagStarts

LEMMA TagEndFacts ==
    ASSUME NEW s, Len(s) \in Nat, NEW i \in Nat, NEW think, IsTag(s, i, think)
    PROVE  /\ TagAt(s, i, TagEnd(s, i, think), think)
           /\ TagEnd(s, i, think) \in Nat /\ TagEnd(s, i, think) \in i + 2..Len(s)
           /\ \A j \in 1..Len(s) : TagAt(s, i, j, think) => TagEnd(s, i, think) = j
<1> DEFINE o == TagEnd(s, i, think)
<1>1. \E j \in 1..Len(s) : TagAt(s, i, j, think)
  BY DEF IsTag
<1>2. o \in 1..Len(s) /\ TagAt(s, i, o, think)
  BY <1>1, Zenon DEF TagEnd
<1> HIDE DEF o
<1>3. ASSUME NEW j \in 1..Len(s), TagAt(s, i, j, think) PROVE o = j
  <2>1. /\ j \in i + 2..Len(s) /\ s[j] = "end" /\ o \in i + 2..Len(s) /\ s[o] = "end"
        /\ \A k \in i + 2..j - 1 : s[k] # "end"
        /\ \A k \in i + 2..o - 1 : s[k] # "end"
    BY <1>2, <1>3 DEF TagAt
  <2>2. ~(j \in i + 2..o - 1) /\ ~(o \in i + 2..j - 1)
    BY <2>1
  <2> QED BY <1>2, <1>3, <2>1, <2>2
<1>4. o \in i + 2..Len(s) /\ o \in Nat
  BY <1>2 DEF TagAt
<1> QED BY <1>2, <1>3, <1>4 DEF o

LEMMA SafeLengthNat ==
    ASSUME NEW s \in Seq(Pieces), NEW think
    PROVE  SafeLength(s, think) \in Nat
<1> DEFINE S == TagStarts(s, think)
<1>1. Len(s) \in Nat /\ S \in SUBSET Nat /\ \A i \in S : i >= 1
  BY LenProperties DEF TagStarts
<1> HIDE DEF S
<1>2. CASE S # {}
  <2>1. Min(S) \in S /\ Min(S) \in Nat
    BY <1>1, <1>2, MinFacts
  <2> QED BY <1>1, <1>2, <2>1 DEF SafeLength, S
<1>3. CASE S = {}
  BY <1>1, <1>3, TranslatorAssumption DEF SafeLength, S
<1> QED BY <1>2, <1>3

LEMMA TranslateTyped ==
    ASSUME TranslatorTyped, Translate
    PROVE  TranslatorTyped'
<1>1. buffer \in Seq(Pieces) /\ inThink \in BOOLEAN /\ todo \in Seq(ToolDelta)
  BY DEF TranslatorTyped
<1>2. {"thinking", "tool"} \subseteq Kinds /\ NoTool \in Tools \cup {NoTool}
  BY DEF Kinds
<1>3. ASSUME NEW c \in Chunks, Receive(c) PROVE TranslatorTyped'
  <2>1. /\ c.text \in Seq(Pieces) /\ c.tools \in Seq(ToolDelta)
        /\ buffer' = buffer \o c.text /\ todo' = c.tools
        /\ UNCHANGED <<toolBlock, inThink, returned>>
    BY <1>3, TranslatorAssumption DEF Receive, Chunk
  <2>2. buffer' \in Seq(Pieces)
    BY <1>1, <2>1, ConcatProperties
  <2>3. \/ OpenBlock("thinking", NoTool)
        \/ UNCHANGED <<current, nextBlock, open, kinds>>
    BY <1>3 DEF Receive, Ensure
  <2>4. /\ current' \in Block /\ nextBlock' \in Nat
        /\ open' \subseteq Nat /\ DOMAIN kinds' \subseteq Nat
        /\ \A b \in DOMAIN kinds' : kinds'[b] \in Kinds
    BY <1>2, <2>3, OpenTyped
  <2>5. current'.index \in Nat
    BY <2>4 DEF Block
  <2>6. written' = {} \/ written' = {<<current'.index, "thinking">>}
    BY <1>3 DEF Receive
  <2>7. written' \subseteq Nat \X Kinds
    BY <1>2, <2>5, <2>6
  <2> QED BY <2>1, <2>2, <2>4, <2>7 DEF TranslatorTyped
<1>4. CASE ScanText
  <2> DEFINE n == SafeLength(buffer, inThink)
  <2>1. n \in Nat
    BY <1>1, SafeLengthNat
  <2>2. buffer' = SubSeq(buffer, n + 1, Len(buffer))
    BY <1>4 DEF ScanText
  <2> HIDE DEF n
  <2>3. buffer' \in Seq(Pieces)
    BY <1>1, <2>1, <2>2, BufferCut
  <2>4. /\ UNCHANGED <<todo, toolBlock, returned, inThink>>
        /\ \E pieces : Deliver(KindOf(inThink), pieces)
    BY <1>4, Zenon DEF ScanText, Scanned
  <2> QED BY <1>1, <2>3, <2>4, DeliverTyped
<1>5. CASE FlushForTools \/ FlushRest
  <2>1. /\ UNCHANGED <<todo, toolBlock, returned>>
        /\ buffer' = <<>> /\ inThink' \in {inThink, FALSE}
    BY <1>5 DEF FlushForTools, FlushRest, Scanned
  <2>2. buffer' \in Seq(Pieces) /\ inThink' \in BOOLEAN
    BY <1>1, <2>1, EmptySeq
  <2>3. \E pieces : Deliver(KindOf(inThink), pieces)
    BY <1>5, Zenon DEF FlushForTools, FlushRest
  <2> QED BY <2>1, <2>2, <2>3, DeliverTyped
<1>6. CASE ScanTag
  <2> DEFINE j == TagEnd(buffer, 1, inThink)
  <2>1. /\ UNCHANGED <<todo, toolBlock, returned>> /\ written' = {}
        /\ buffer' = SubSeq(buffer, j + 1, Len(buffer)) /\ inThink' = ~inThink
        /\ OpenBlock("thinking", NoTool) \/ StopCurrent
    BY <1>6 DEF ScanTag, Scanned
  <2>2. buffer' \in Seq(Pieces) /\ inThink' \in BOOLEAN
    <3>1. IsTag(buffer, 1, inThink)
      BY <1>6 DEF ScanTag, TagStarts
    <3>2. j \in Nat
      BY <1>1, <3>1, LenProperties, TagEndFacts
    <3> HIDE DEF j
    <3>3. SubSeq(buffer, j + 1, Len(buffer)) \in Seq(Pieces)
      BY <1>1, <3>2, BufferCut
    <3> QED BY <1>1, <2>1, <3>3
  <2>3. /\ current' \in Block /\ nextBlock' \in Nat
        /\ open' \subseteq Nat /\ DOMAIN kinds' \subseteq Nat
        /\ \A b \in DOMAIN kinds' : kinds'[b] \in Kinds
    BY <1>2, <2>1, OpenTyped
  <2> QED BY <2>1, <2>2, <2>3 DEF TranslatorTyped
<1>7. CASE ScanHold \/ UpstreamEnds
  BY <1>7 DEF ScanHold, UpstreamEnds, Scanned, translator, TranslatorTyped
<1>8. CASE EndMessage
  <2>1. /\ UNCHANGED <<todo, toolBlock, buffer, inThink, returned>> /\ written' = {}
        /\ StopCurrent
    BY <1>8 DEF EndMessage
  <2>2. /\ current' \in Block /\ nextBlock' \in Nat
        /\ open' \subseteq Nat /\ DOMAIN kinds' \subseteq Nat
        /\ \A b \in DOMAIN kinds' : kinds'[b] \in Kinds
    BY <1>2, <2>1, OpenTyped
  <2> QED BY <2>1, <2>2 DEF TranslatorTyped
<1>9. ASSUME NEW d \in ToolDelta, StartCall(d) \/ ContinueCall(d) \/ ReturnToCall(d)
      PROVE  TranslatorTyped'
  <2>1. /\ d.tool \in Tools /\ todo # <<>> /\ todo' = Tail(todo)
        /\ UNCHANGED <<buffer, inThink>>
    BY <1>9 DEF StartCall, ContinueCall, ReturnToCall, InTools, ToolDelta
  <2>2. todo' \in Seq(ToolDelta)
    BY <1>1, <2>1
  <2>3. CASE StartCall(d)
    <3>1. /\ OpenBlock("tool", d.tool) /\ returned' = returned
          /\ toolBlock' = [t \in DOMAIN toolBlock \cup {d.tool} |->
                              IF t = d.tool THEN nextBlock ELSE toolBlock[t]]
          /\ written' = IF d.args THEN {<<nextBlock, "tool">>} ELSE {}
      BY <2>3 DEF StartCall
    <3>2. /\ current' \in Block /\ nextBlock' \in Nat
          /\ open' \subseteq Nat /\ DOMAIN kinds' \subseteq Nat
          /\ \A b \in DOMAIN kinds' : kinds'[b] \in Kinds
      BY <1>2, <2>1, <3>1, OpenTyped
    <3>3. /\ DOMAIN toolBlock' \subseteq Tools
          /\ \A t \in DOMAIN toolBlock' : toolBlock'[t] \in Nat
      BY <2>1, <3>1 DEF TranslatorTyped
    <3>4. written' \subseteq Nat \X Kinds
      BY <1>2, <3>1 DEF TranslatorTyped
    <3> QED BY <2>1, <2>2, <3>1, <3>2, <3>3, <3>4 DEF TranslatorTyped
  <2>4. CASE ContinueCall(d) \/ ReturnToCall(d)
    <3>1. /\ d.tool \in DOMAIN toolBlock /\ toolBlock' = toolBlock
          /\ UNCHANGED <<nextBlock, kinds>> /\ open' \subseteq open
          /\ returned' \in {returned, TRUE}
          /\ written' = IF d.args THEN {<<toolBlock[d.tool], "tool">>} ELSE {}
          /\ current' \in {current, [kind |-> "tool", index |-> toolBlock[d.tool],
                                     tool |-> d.tool]}
      BY <2>4 DEF ContinueCall, ReturnToCall, Arguments
    <3>2. toolBlock[d.tool] \in Nat
      BY <3>1 DEF TranslatorTyped
    <3>3. current' \in Block /\ written' \subseteq Nat \X Kinds
      BY <1>2, <2>1, <3>1, <3>2 DEF TranslatorTyped, Block
    <3> QED BY <2>1, <2>2, <3>1, <3>3 DEF TranslatorTyped
  <2> QED BY <1>9, <2>3, <2>4
<1> QED BY <1>3, <1>4, <1>5, <1>6, <1>7, <1>8, <1>9 DEF Translate

LEMMA ProgressStep ==
    ASSUME TypeOK, Next
    PROVE  ProgressTyped'
<1>1. ProgressTyped /\ Len(Keep) \in Nat /\ MaxChunks \in Nat /\ Attempts \in Nat \ {0}
  BY TypeParts, TranslatorAssumption, MessageAssumption, LenProperties
<1>2. CASE Translate /\ UNCHANGED requestVars
  <2>1. UNCHANGED <<via, attempt, level>>
    BY <1>2 DEF requestVars
  <2>2. pc' \in Where
    BY <1>1, <1>2
       DEF Translate, Receive, ScanText, ScanTag, ScanHold, FlushForTools, StartCall,
           ContinueCall, ReturnToCall, InTools, UpstreamEnds, FlushRest, EndMessage,
           AfterScan, Where, ProgressTyped
  <2>3. stage' \in {stage, "done"} /\ chunks' \in {chunks, chunks + 1}
    BY <1>2
       DEF Translate, Receive, ScanText, ScanTag, ScanHold, FlushForTools, StartCall,
           ContinueCall, ReturnToCall, InTools, UpstreamEnds, FlushRest, EndMessage, Scanned
  <2>4. chunks' # chunks => chunks < MaxChunks
    BY <1>2
       DEF Translate, Receive, ScanText, ScanTag, ScanHold, FlushForTools, StartCall,
           ContinueCall, ReturnToCall, InTools, UpstreamEnds, FlushRest, EndMessage, Scanned
  <2> QED BY <1>1, <2>1, <2>2, <2>3, <2>4 DEF ProgressTyped, Stages
<1>3. CASE NextKey \/ GiveUp \/ OpenStream \/ StreamFails \/ ChatEvent \/ ChatEnds
  BY <1>1, <1>3
     DEF NextKey, GiveUp, OpenStream, StreamFails, ChatEvent, ChatEnds, ProgressTyped,
         Where, Stages, streamVars, requestVars, wire
<1>4. CASE ContextWindow \/ ContextWindowMidStream
  BY <1>1, <1>4
     DEF ContextWindow, ContextWindowMidStream, Compact, ProgressTyped, Where, Stages,
         streamVars, wire
<1>5. CASE UNCHANGED vars
  BY <1>1, <1>5 DEF vars, streamVars, requestVars, wire, ProgressTyped
<1> QED BY <1>2, <1>3, <1>4, <1>5 DEF Next, Request

\* Types hold throughout.
THEOREM TypeCorrect == Spec => []TypeOK
<1>1. Init => TypeOK
  <2> SUFFICES ASSUME Init PROVE TypeOK
    OBVIOUS
  <2>1. TranslatorTyped
    <3>1. /\ todo = <<>> /\ current = Nothing /\ toolBlock = <<>> /\ nextBlock = 0
          /\ buffer = <<>> /\ inThink = FALSE /\ returned = FALSE
          /\ open = {} /\ kinds = <<>> /\ written = {}
      BY DEF Init, StreamInit, Fresh
    <3>2. Nothing \in Block
      BY DEF Nothing, Block
    <3>3. DOMAIN toolBlock = {} /\ DOMAIN kinds = {}
      BY <3>1
    <3>4. todo \in Seq(ToolDelta) /\ buffer \in Seq(Pieces)
      BY <3>1, EmptySeq
    <3> QED BY <3>1, <3>2, <3>3, <3>4 DEF TranslatorTyped
  <2>2. Len(Keep) \in Nat /\ MaxChunks \in Nat
    BY TranslatorAssumption, MessageAssumption, LenProperties
  <2>3. ProgressTyped
    BY <2>2, MessageAssumption DEF Init, StreamInit, Where, Stages, ProgressTyped
  <2> QED BY <2>1, <2>3, TypeParts
<1>2. TypeOK /\ [Next]_vars => TypeOK'
  <2> SUFFICES ASSUME TypeOK, [Next]_vars PROVE TypeOK'
    OBVIOUS
  <2>1. CASE UNCHANGED vars
    BY <2>1 DEF TypeOK, vars, streamVars, requestVars, translator, wire
  <2>2. CASE Next
    <3>1. TranslatorTyped'
      <4>1. CASE Translate
        BY <4>1, TranslateTyped, TypeParts
      <4>2. CASE Request /\ ~ContextWindowMidStream
        <5>1. UNCHANGED <<todo, translator, open, kinds, returned>> /\ written' \in {written, {}}
          BY <4>2 DEF Request, NextKey, GiveUp, ContextWindow, OpenStream, StreamFails,
                      ChatEvent, ChatEnds, streamVars, wire
        <5> QED BY <5>1, TypeParts DEF TranslatorTyped, translator
      <4>3. CASE ContextWindowMidStream
        <5>1. /\ todo' = todo /\ returned' = returned /\ FreshNext
              /\ open' = {} /\ kinds' = <<>> /\ written' = {}
          BY <4>3 DEF ContextWindowMidStream
        <5>2. /\ current' = Nothing /\ toolBlock' = <<>> /\ nextBlock' = 0
              /\ buffer' = <<>> /\ inThink' = FALSE
          BY <5>1 DEF FreshNext
        <5>3. Nothing \in Block
          BY DEF Nothing, Block
        <5>4. DOMAIN toolBlock' = {} /\ DOMAIN kinds' = {} /\ buffer' \in Seq(Pieces)
          BY <5>1, <5>2, EmptySeq
        <5> QED BY <5>1, <5>2, <5>3, <5>4, TypeParts DEF TranslatorTyped
      <4>4. CASE UNCHANGED vars
        BY <4>4, TypeParts DEF TranslatorTyped, vars, streamVars, translator, wire
      <4> QED BY <2>2, <4>1, <4>2, <4>3, <4>4 DEF Next, Request
    <3> QED BY <2>2, <3>1, ProgressStep, TypeParts
  <2> QED BY <2>1, <2>2
<1> QED BY <1>1, <1>2, PTL DEF Spec

(***************************************************************************)
(* Compaction                                                              *)
(***************************************************************************)
\* The cut point moves back, if at all, to a place where no answer is cut off.
LEMMA WidenedFacts ==
    ASSUME NEW M, NEW c \in Seq(M), NEW cut \in 1..Len(c) + 1
    PROVE  /\ Widened(c, cut) \in 1..cut
           /\ CutOff(c, Widened(c, cut)) = {}
<1> DEFINE n == Len(c) + 1
           Caller(i) == Min(Callers(c, 1, c[Min(CutOff(c, i))].answers))
           Ends == {i \in 1..n : CutOff(c, i) = {}}
           h == [i \in 1..n |-> Caller(i)]
           Back == CHOOSE g : g = [i \in 1..n |-> IF CutOff(c, i) = {} THEN i ELSE g[Caller(i)]]
<1>1. Len(c) \in Nat /\ n \in Nat
  BY LenProperties
<1>2. Widened(c, cut) = Back[cut]
  BY DEF Widened
<1> HIDE DEF Caller
<1>3. ASSUME NEW i \in 1..n, i \notin Ends PROVE Caller(i) \in 1..i - 1
  <2> DEFINE j == Min(CutOff(c, i))
             call == c[j].answers
  <2>1. CutOff(c, i) # {} /\ CutOff(c, i) \in SUBSET Nat
    <3>1. CutOff(c, i) \subseteq i..Len(c)
      BY DEF CutOff, Answers
    <3>2. i..Len(c) \subseteq Nat
      BY <1>1
    <3>3. CutOff(c, i) # {}
      BY <1>3
    <3> QED BY <3>1, <3>2, <3>3
  <2>2. j \in CutOff(c, i)
    BY <2>1, MinFacts
  <2> HIDE DEF j
  <2>3. Callers(c, i, call) = {} /\ Callers(c, 1, call) # {}
    BY <2>2 DEF CutOff
  <2> HIDE DEF call
  <2>4. Callers(c, 1, call) \in SUBSET Nat
    BY DEF Callers
  <2>5. Min(Callers(c, 1, call)) \in Callers(c, 1, call)
    BY <2>3, <2>4, MinFacts
  <2>6. Caller(i) = Min(Callers(c, 1, call))
    BY DEF Caller, call, j
  <2>7. Caller(i) \in 1..Len(c) /\ Caller(i) \notin i..Len(c)
    BY <2>3, <2>5, <2>6 DEF Callers
  <2> QED BY <1>1, <2>7
<1>4. \A i \in 1..n : i \notin Ends => h[i] \in 1..i - 1
  BY <1>3
<1>5. \A g : g = [i \in 1..n |-> IF CutOff(c, i) = {} THEN i ELSE g[Caller(i)]]
             <=> Descends(g, n, Ends, h)
  BY DEF Descends
<1>6. \E g : Descends(g, n, Ends, h)
  <2> HIDE DEF n, Ends, h, Back
  <2> QED BY <1>1, <1>4, DescentDefined
<1>7. \E g : g = [i \in 1..n |-> IF CutOff(c, i) = {} THEN i ELSE g[Caller(i)]]
  BY <1>5, <1>6, Zenon
<1>8. Back = [i \in 1..n |-> IF CutOff(c, i) = {} THEN i ELSE Back[Caller(i)]]
  BY <1>7, Zenon
<1>9. Descends(Back, n, Ends, h)
  <2> HIDE DEF Back, n, Ends, h
  <2> QED BY <1>8, <1>5, Zenon
<1>10. \A i \in 1..n : Back[i] \in Ends /\ Back[i] \in 1..i
  <2> HIDE DEF n, Ends, h, Back
  <2> QED BY <1>1, <1>4, <1>9, DescentEnds
<1> HIDE DEF Back
<1> QED BY <1>2, <1>10

\* The cut is made at a user message, if there is one.
LEMMA CutPointFacts ==
    ASSUME NEW M, NEW c \in Seq(M), NEW keep \in Nat, keep < Len(c)
    PROVE  /\ CutPoint(c, keep) \in 1..Len(c) + 1
           /\ SafePoints(c) # {} => CutPoint(c, keep) \in SafePoints(c)
<1> DEFINE near == {i \in SafePoints(c) : i >= Len(c) - keep + 1}
<1>1. Len(c) \in Nat
  BY LenProperties
<1>2. SafePoints(c) \in SUBSET (1..Len(c)) /\ near \in SUBSET SafePoints(c)
  BY DEF SafePoints
<1> HIDE DEF near
<1>3. SafePoints(c) \in SUBSET Nat /\ near \in SUBSET Nat
  BY <1>1, <1>2
<1>4. SafePoints(c) # {} => Min(SafePoints(c)) \in SafePoints(c)
  BY <1>3, MinFacts
<1>5. near # {} => Min(near) \in near
  BY <1>3, MinFacts
<1>6. CutPoint(c, keep) = IF SafePoints(c) = {} THEN Len(c) - keep + 1
                          ELSE IF near = {} THEN Min(SafePoints(c)) ELSE Min(near)
  BY DEF CutPoint, near
<1>7. CASE SafePoints(c) = {}
  BY <1>1, <1>6, <1>7
<1>8. CASE SafePoints(c) # {}
  <2>1. CutPoint(c, keep) \in SafePoints(c)
    BY <1>2, <1>4, <1>5, <1>6, <1>8
  <2> QED BY <1>1, <1>2, <1>8, <2>1
<1> QED BY <1>7, <1>8

LEMMA CompactionIsWhole ==
    ASSUME NEW messages \in Seq(Message), NEW keep \in Nat
    PROVE  Whole(messages, CompactMessages(messages, keep))
<1> DEFINE system == {i \in DOMAIN messages : messages[i].role = "system"}
           rest   == DOMAIN messages \ system
           c      == Picked(messages, rest)
           first  == Picked(messages, system)
           cut    == Widened(c, CutPoint(c, keep))
           gone   == {c[i].answers : i \in Nowhere(c)}
           kept   == {i \in cut..Len(c) : c[i].role = "tool" => c[i].answers \notin gone}
           last   == Picked(c, kept)
           out    == CompactMessages(messages, keep)
<1>1. out = IF Len(messages) <= keep \/ Len(c) <= keep THEN messages ELSE first \o last
  BY DEF CompactMessages
<1>2. CASE out = messages
  BY <1>2 DEF Whole
<1>3. CASE out # messages
  <2>1. out = first \o last /\ keep < Len(c)
    <3>1. c \in Seq(Message)
      BY PickedFacts
    <3>2. Len(c) \in Nat
      BY <3>1, LenProperties
    <3> HIDE DEF c, first, last, out
    <3> QED BY <1>1, <1>3, <3>2
  <2>2. /\ c \in Seq(Message) /\ DOMAIN c = 1..Len(c) /\ Len(c) \in Nat
        /\ \A i \in rest : Rank(rest, i) \in DOMAIN c /\ c[Rank(rest, i)] = messages[i]
        /\ \A k \in DOMAIN c : \E i \in rest : Rank(rest, i) = k
        /\ \A i, j \in rest : i <= j => Rank(rest, i) <= Rank(rest, j)
    <3>1. rest \in SUBSET DOMAIN messages
      OBVIOUS
    <3> HIDE DEF rest
    <3> QED BY <3>1, PickedFacts, LenProperties
  <2>3. /\ first \in Seq(Message) /\ DOMAIN first = 1..Len(first) /\ Len(first) \in Nat
        /\ \A i \in system : \E k \in DOMAIN first : first[k] = messages[i]
        /\ \A k \in DOMAIN first : first[k].role = "system"
    <3>1. system \in SUBSET DOMAIN messages /\ \A i \in system : messages[i].role = "system"
      OBVIOUS
    <3> HIDE DEF system
    <3>2. /\ first \in Seq(Message) /\ DOMAIN first = 1..Len(first)
          /\ \A i \in system : Rank(system, i) \in DOMAIN first
                               /\ first[Rank(system, i)] = messages[i]
          /\ \A k \in DOMAIN first : \E i \in system : Rank(system, i) = k
      BY <3>1, PickedFacts
    <3> HIDE DEF first
    <3> QED BY <3>1, <3>2, LenProperties
  <2> HIDE DEF c, first
  <2>4. /\ cut \in 1..CutPoint(c, keep) /\ CutOff(c, cut) = {}
        /\ CutPoint(c, keep) \in 1..Len(c) + 1
        /\ SafePoints(c) # {} => CutPoint(c, keep) \in SafePoints(c)
    <3>1. /\ CutPoint(c, keep) \in 1..Len(c) + 1
          /\ SafePoints(c) # {} => CutPoint(c, keep) \in SafePoints(c)
      BY <2>1, <2>2, CutPointFacts
    <3> QED BY <2>2, <3>1, WidenedFacts
  <2> HIDE DEF cut, gone
  <2>5. /\ last \in Seq(Message) /\ DOMAIN last = 1..Len(last) /\ Len(last) \in Nat
        /\ \A i \in kept : \E k \in DOMAIN last : last[k] = c[i]
        /\ \A k \in DOMAIN last : \E i \in kept : last[k] = c[i]
    <3>1. kept \in SUBSET DOMAIN c
      BY <2>2, <2>4
    <3> HIDE DEF kept
    <3>2. /\ last \in Seq(Message) /\ DOMAIN last = 1..Len(last)
          /\ \A i \in kept : Rank(kept, i) \in DOMAIN last /\ last[Rank(kept, i)] = c[i]
          /\ \A k \in DOMAIN last : \E i \in kept : Rank(kept, i) = k
      BY <2>2, <3>1, PickedFacts
    <3> HIDE DEF last
    <3> QED BY <3>2, LenProperties
  <2> HIDE DEF last
  <2>6. /\ DOMAIN out = 1..Len(first) + Len(last)
        /\ \A k \in 1..Len(first) + Len(last) :
              out[k] = IF k <= Len(first) THEN first[k] ELSE last[k - Len(first)]
    <3>1. /\ first \o last \in Seq(Message) /\ Len(first \o last) = Len(first) + Len(last)
          /\ \A k \in 1..Len(first) + Len(last) :
                (first \o last)[k] = IF k <= Len(first) THEN first[k] ELSE last[k - Len(first)]
      BY <2>3, <2>5, ConcatProperties
    <3> HIDE DEF out
    <3> QED BY <2>1, <3>1, LenProperties
  <2> HIDE DEF out
  <2>7. \A k \in DOMAIN first : \E m \in DOMAIN out : out[m] = first[k]
    BY <2>3, <2>5, <2>6
  <2>8. \A k \in DOMAIN last : \E m \in DOMAIN out : out[m] = last[k]
    <3> TAKE k \in DOMAIN last
    <3>1. /\ Len(first) + k \in 1..Len(first) + Len(last) /\ ~(Len(first) + k <= Len(first))
          /\ Len(first) + k - Len(first) = k
      BY <2>3, <2>5
    <3> QED BY <2>6, <3>1
  <2>9. \A m \in DOMAIN out : \/ out[m].role = "system"
                              \/ \E i \in kept : out[m] = c[i]
    <3> TAKE m \in DOMAIN out
    <3>1. \/ m \in DOMAIN first /\ out[m] = first[m]
          \/ m - Len(first) \in DOMAIN last /\ out[m] = last[m - Len(first)]
      BY <2>3, <2>5, <2>6
    <3> QED BY <2>3, <2>5, <3>1
  <2>10. \A i \in kept : \E m \in DOMAIN out : out[m] = c[i]
    BY <2>5, <2>8
  <2>11. ASSUME NEW m \in DOMAIN out, out[m].role = "tool", out[m].answers # NoCall
         PROVE  out[m].answers \in Made(out)
    <3>1. PICK i \in kept : out[m] = c[i]
      BY <2>9, <2>11
    <3> DEFINE call == c[i].answers
    <3>2. i \in cut..Len(c) /\ i \in 1..Len(c) /\ c[i].role = "tool" /\ call # NoCall
          /\ call \notin gone
      BY <2>2, <2>4, <2>11, <3>1
    <3>3. i \in Answers(c, 1) /\ i \in Answers(c, cut)
      BY <3>2 DEF Answers
    <3>4. Callers(c, 1, call) # {}
      BY <3>2, <3>3 DEF gone, Nowhere
    <3>5. Callers(c, cut, call) # {}
      BY <2>4, <3>3, <3>4 DEF CutOff
    <3>6. PICK j \in cut..Len(c) : c[j].role = "assistant" /\ call \in c[j].calls
      BY <3>5 DEF Callers
    <3>7. j \in kept
      BY <3>6
    <3>8. PICK k \in DOMAIN out : out[k] = c[j]
      BY <2>10, <3>7
    <3> QED BY <3>1, <3>6, <3>8 DEF Made
  <2>12. ASSUME NEW i \in DOMAIN messages, NEW user \in DOMAIN messages,
                messages[user].role = "user",
                \A u \in DOMAIN messages : messages[u].role = "user" => u <= i,
                messages[i].role = "tool" =>
                    messages[i].answers \in Made(messages) \cup {NoCall}
         PROVE  \E k \in DOMAIN out : out[k] = messages[i]
    <3>1. CASE i \in system
      BY <2>3, <2>7, <3>1
    <3>2. CASE i \notin system
      <4> DEFINE p == Rank(rest, i)
      <4>1. i \in rest /\ user \in rest
        BY <2>12, <3>2
      <4>2. p \in 1..Len(c) /\ c[p] = messages[i]
        BY <2>2, <4>1
      <4>3. SafePoints(c) # {}
        BY <2>2, <2>12, <4>1 DEF SafePoints
      <4>4. CutPoint(c, keep) \in SafePoints(c)
        BY <2>4, <4>3
      <4>5. PICK u \in rest : Rank(rest, u) = CutPoint(c, keep)
        BY <2>2, <4>4 DEF SafePoints
      <4>6. c[CutPoint(c, keep)].role = "user"
        BY <4>4 DEF SafePoints
      <4>7. messages[u].role = "user"
        BY <2>2, <4>5, <4>6
      <4>8. u <= i
        BY <2>12, <4>7
      <4>9. CutPoint(c, keep) <= p
        BY <2>2, <4>1, <4>5, <4>8
      <4> HIDE DEF p
      <4>10. p \in cut..Len(c)
        BY <2>2, <2>4, <4>2, <4>9
      <4>11. ASSUME c[p].role = "tool", c[p].answers \in gone PROVE FALSE
        <5>1. PICK j \in Nowhere(c) : c[p].answers = c[j].answers
          BY <4>11 DEF gone
        <5>2. c[j].answers # NoCall /\ Callers(c, 1, c[j].answers) = {}
          BY DEF Nowhere, Answers
        <5>3. c[p].answers \in Made(messages)
          BY <2>12, <4>2, <4>11, <5>1, <5>2
        <5>4. PICK k \in DOMAIN messages : /\ messages[k].role = "assistant"
                                           /\ c[p].answers \in messages[k].calls
          BY <5>3 DEF Made
        <5>5. k \in rest
          BY <5>4
        <5>6. Rank(rest, k) \in Callers(c, 1, c[p].answers)
          BY <2>2, <5>4, <5>5 DEF Callers
        <5> QED BY <5>1, <5>2, <5>6
      <4>12. p \in kept
        BY <4>10, <4>11
      <4> QED BY <2>10, <4>2, <4>12
    <3> QED BY <3>1, <3>2
  <2> HIDE DEF rest, system, kept
  <2>13. \A m \in DOMAIN out :
            out[m].role = "tool" => out[m].answers \in Made(out) \cup {NoCall}
    BY <2>11
  <2>14. ASSUME NEW i \in DOMAIN messages,
                {u \in DOMAIN messages : messages[u].role = "user"} # {},
                \A u \in {u \in DOMAIN messages : messages[u].role = "user"} : u <= i,
                messages[i].role = "tool" =>
                    messages[i].answers \in Made(messages) \cup {NoCall}
         PROVE  \E k \in DOMAIN out : out[k] = messages[i]
    BY <2>12, <2>14
  <2>15. Whole(messages, out)
    BY <2>13, <2>14, Zenon DEF Whole
  <2> QED BY <2>15 DEF out
<1> QED BY <1>2, <1>3

\* What was sent last is the compaction of a conversation at this level.
SentIsCompacted ==
    /\ level \in 0..Len(Keep)
    /\ conversation \in Conversations \cup {<<>>}
    /\ sent # <<>> => /\ level \in DOMAIN Keep /\ conversation \in Conversations
                      /\ sent = CompactMessages(conversation, Keep[level])

LEMMA SentStep == SentIsCompacted /\ [Next]_vars => SentIsCompacted'
<1> SUFFICES ASSUME SentIsCompacted, [Next]_vars PROVE SentIsCompacted'
  OBVIOUS
<1>1. Keep \in Seq(Nat) /\ Len(Keep) \in Nat /\ DOMAIN Keep = 1..Len(Keep)
  BY MessageAssumption, LenProperties
<1>2. CASE UNCHANGED <<level, conversation, sent>>
  BY <1>2 DEF SentIsCompacted
<1>3. CASE Compact
  <2>1. /\ level < Len(Keep) /\ level' = level + 1
        /\ conversation' \in IF conversation = <<>> THEN Conversations ELSE {conversation}
        /\ sent' = CompactMessages(conversation', Keep[level + 1])
    BY <1>3 DEF Compact
  <2>2. conversation' \in Conversations
    BY <2>1 DEF SentIsCompacted
  <2>3. level' \in 0..Len(Keep) /\ level' \in DOMAIN Keep
    BY <1>1, <2>1 DEF SentIsCompacted
  <2> QED BY <2>1, <2>2, <2>3 DEF SentIsCompacted
<1>4. CASE OpenStream
  <2>1. conversation' = <<>> /\ sent' = <<>> /\ level' = level
    BY <1>4 DEF OpenStream
  <2> QED BY <2>1 DEF SentIsCompacted
<1>5. ASSUME Next PROVE \/ UNCHANGED <<level, conversation, sent>> \/ Compact \/ OpenStream
  <2>1. CASE ContextWindow \/ ContextWindowMidStream
    BY <2>1 DEF ContextWindow, ContextWindowMidStream
  <2>2. CASE NextKey
    BY <2>2 DEF NextKey
  <2>3. CASE GiveUp \/ StreamFails \/ ChatEvent \/ ChatEnds
    BY <2>3 DEF GiveUp, StreamFails, ChatEvent, ChatEnds, requestVars
  <2> QED BY <1>5, <2>1, <2>2, <2>3 DEF Next, Request, requestVars, vars
<1> QED BY <1>2, <1>3, <1>4, <1>5 DEF vars, requestVars

\* Every conversation sent after a compaction is whole.
THEOREM CompactionKeepsConversations == Spec => []CompactedConversationIsWhole
<1>1. Init => SentIsCompacted
  <2> SUFFICES ASSUME Init PROVE SentIsCompacted
    OBVIOUS
  <2>1. level = 0 /\ conversation = <<>> /\ sent = <<>> /\ Len(Keep) \in Nat
    BY MessageAssumption, LenProperties DEF Init
  <2> QED BY <2>1 DEF SentIsCompacted
<1>2. SentIsCompacted => CompactedConversationIsWhole
  <2> SUFFICES ASSUME SentIsCompacted, sent # <<>> PROVE Whole(conversation, sent)
    BY DEF CompactedConversationIsWhole
  <2>1. conversation \in Seq(Message) /\ Keep[level] \in Nat
    BY MessageAssumption, ElementOfSeq, LenProperties DEF SentIsCompacted
  <2>2. sent = CompactMessages(conversation, Keep[level])
    BY DEF SentIsCompacted
  <2>3. Whole(conversation, CompactMessages(conversation, Keep[level]))
    BY <2>1, CompactionIsWhole
  <2> QED BY <2>2, <2>3
<1> QED BY <1>1, <1>2, SentStep, PTL DEF Spec

(***************************************************************************)
(* The chat converter                                                      *)
(***************************************************************************)
BlockKinds == {"text", "tool"}
ToolBlocks == {b \in DOMAIN blocks : blocks[b] = "tool"}

\* The mapping numbers the tool blocks in the order they began, and the calls
\* are those blocks with their arguments.
ConverterNumbers ==
    /\ blocks \in Seq(BlockKinds)
    /\ given \in Seq(Nat) /\ Len(given) = Len(blocks)
    /\ calls \in Seq([block : Nat, args : Nat])
    /\ DOMAIN toolIndex = ToolBlocks
    /\ IsFiniteSet(ToolBlocks) /\ Cardinality(ToolBlocks) = Len(calls)
    /\ \A b \in ToolBlocks : toolIndex[b] \in Nat /\ toolIndex[b] + 1 \in DOMAIN calls
    /\ \A i \in DOMAIN calls : /\ calls[i].block \in ToolBlocks
                               /\ toolIndex[calls[i].block] + 1 = i
                               /\ calls[i].args = given[calls[i].block]
    /\ \A b \in ToolBlocks : calls[toolIndex[b] + 1].block = b
    /\ \A i, j \in DOMAIN calls : i < j => calls[i].block < calls[j].block

LEMMA BlockStartNumbers ==
    ASSUME ConverterNumbers, NEW kind \in BlockKinds, BlockStart(kind)
    PROVE  ConverterNumbers'
<1> DEFINE n == Len(blocks)
           b == n + 1
           m == Len(calls)
<1>1. /\ n \in Nat /\ DOMAIN blocks = 1..n /\ DOMAIN given = 1..n
      /\ m \in Nat /\ DOMAIN calls = 1..m
  BY LenProperties DEF ConverterNumbers
<1>2. /\ blocks' = Append(blocks, kind) /\ given' = Append(given, 0)
      /\ IF kind = "tool" THEN Announce(b) ELSE UNCHANGED <<toolIndex, calls>>
  BY DEF BlockStart
<1> HIDE DEF n, m
<1>3. /\ blocks' \in Seq(BlockKinds) /\ Len(blocks') = b /\ DOMAIN blocks' = 1..b
      /\ \A i \in 1..b : blocks'[i] = IF i = b THEN kind ELSE blocks[i]
  <2>1. /\ Append(blocks, kind) \in Seq(BlockKinds) /\ Len(Append(blocks, kind)) = Len(blocks) + 1
        /\ \A i \in 1..Len(blocks) : Append(blocks, kind)[i] = blocks[i]
        /\ Append(blocks, kind)[Len(blocks) + 1] = kind
    BY AppendProperties DEF ConverterNumbers
  <2>2. DOMAIN blocks' = 1..Len(blocks')
    BY <1>2, <2>1, LenProperties
  <2> QED BY <1>1, <1>2, <2>1, <2>2 DEF n
<1>4. /\ given' \in Seq(Nat) /\ Len(given') = b
      /\ \A i \in 1..n : given'[i] = given[i]
      /\ given'[b] = 0
  <2>1. /\ Append(given, 0) \in Seq(Nat) /\ Len(Append(given, 0)) = Len(given) + 1
        /\ \A i \in 1..Len(given) : Append(given, 0)[i] = given[i]
        /\ Append(given, 0)[Len(given) + 1] = 0
    <3>1. given \in Seq(Nat) /\ 0 \in Nat
      BY DEF ConverterNumbers
    <3> QED BY <3>1, AppendProperties
  <2> QED BY <1>2, <2>1 DEF n, ConverterNumbers
<1>5. ToolBlocks \subseteq 1..n /\ b \notin ToolBlocks /\ b \in 1..b
  BY <1>1 DEF ToolBlocks
<1>6. CASE kind # "tool"
  <2>1. ToolBlocks' = ToolBlocks /\ UNCHANGED <<toolIndex, calls>>
    BY <1>1, <1>2, <1>3, <1>6 DEF ToolBlocks
  <2>2. \A i \in DOMAIN calls : given'[calls[i].block] = given[calls[i].block]
    BY <1>4, <1>5 DEF ConverterNumbers
  <2> QED BY <1>3, <1>4, <2>1, <2>2 DEF ConverterNumbers
<1>7. CASE kind = "tool"
  <2> DEFINE call == [block |-> b, args |-> 0]
  <2>1. ToolBlocks' = ToolBlocks \cup {b}
    BY <1>1, <1>3, <1>5, <1>7 DEF ToolBlocks
  <2>2. /\ IsFiniteSet(ToolBlocks') /\ Cardinality(ToolBlocks') = m + 1
    <3>1. IsFiniteSet(ToolBlocks) /\ Cardinality(ToolBlocks) = m /\ b \notin ToolBlocks
      BY <1>5 DEF ConverterNumbers, m
    <3> HIDE DEF b
    <3>2. /\ IsFiniteSet(ToolBlocks \cup {b})
          /\ Cardinality(ToolBlocks \cup {b}) = Cardinality(ToolBlocks) + 1
      BY <3>1, FS_AddElement
    <3> QED BY <2>1, <3>1, <3>2
  <2>3. /\ toolIndex' = [x \in ToolBlocks \cup {b} |-> IF x = b THEN m ELSE toolIndex[x]]
        /\ calls' = Append(calls, call)
    BY <1>2, <1>7 DEF Announce, ConverterNumbers, m
  <2>4. call \in [block : Nat, args : Nat]
    BY <1>1
  <2>5. /\ calls' \in Seq([block : Nat, args : Nat]) /\ Len(calls') = m + 1
        /\ DOMAIN calls' = 1..m + 1
        /\ \A i \in 1..m : calls'[i] = calls[i]
        /\ calls'[m + 1] = call
    <3> HIDE DEF call
    <3>1. /\ calls' \in Seq([block : Nat, args : Nat]) /\ Len(calls') = m + 1
          /\ \A i \in 1..m : calls'[i] = calls[i]
          /\ calls'[m + 1] = call
      BY <2>3, <2>4, AppendProperties DEF ConverterNumbers, m
    <3> QED BY <3>1, LenProperties
  <2>6. \A i \in 1..m : /\ calls[i].block \in ToolBlocks /\ calls[i].block # b
                         /\ toolIndex[calls[i].block] + 1 = i
                         /\ calls[i].args = given[calls[i].block]
    <3>1. \A i \in 1..m : /\ calls[i].block \in ToolBlocks
                           /\ toolIndex[calls[i].block] + 1 = i
                           /\ calls[i].args = given[calls[i].block]
      BY <1>1 DEF ConverterNumbers
    <3> HIDE DEF b
    <3> QED BY <1>5, <3>1
  <2>7. ASSUME NEW i \in 1..m + 1
        PROVE  /\ calls'[i].block \in ToolBlocks' /\ toolIndex'[calls'[i].block] + 1 = i
               /\ calls'[i].args = given'[calls'[i].block]
    <3>1. CASE i = m + 1
      BY <1>4, <2>1, <2>3, <2>5, <3>1
    <3>2. CASE i # m + 1
      <4>1. i \in 1..m
        BY <1>1, <3>2
      <4> DEFINE x == calls[i].block
      <4>2. /\ x \in ToolBlocks /\ x # b /\ x \in 1..n /\ calls'[i] = calls[i]
            /\ toolIndex[x] + 1 = i /\ calls[i].args = given[x]
        BY <1>5, <2>5, <2>6, <4>1
      <4>3. toolIndex'[x] = toolIndex[x] /\ given'[x] = given[x]
        BY <1>4, <2>3, <4>2
      <4> QED BY <2>1, <4>2, <4>3
    <3> QED BY <3>1, <3>2
  <2>8. ASSUME NEW x \in ToolBlocks \cup {b}
        PROVE  /\ toolIndex'[x] \in Nat /\ toolIndex'[x] + 1 \in 1..m + 1
               /\ calls'[toolIndex'[x] + 1].block = x
    <3>1. CASE x = b
      BY <1>1, <2>3, <2>5, <3>1
    <3>2. CASE x # b
      <4>1. x \in ToolBlocks /\ toolIndex'[x] = toolIndex[x]
        BY <2>3, <3>2
      <4>2. toolIndex[x] \in Nat /\ toolIndex[x] + 1 \in 1..m /\ calls[toolIndex[x] + 1].block = x
        BY <1>1, <4>1 DEF ConverterNumbers
      <4> QED BY <1>1, <2>5, <4>1, <4>2
    <3> QED BY <3>1, <3>2
  <2>9. ASSUME NEW i \in 1..m + 1, NEW j \in 1..m + 1, i < j
        PROVE  calls'[i].block < calls'[j].block
    <3>1. i \in 1..m /\ calls'[i] = calls[i]
      BY <1>1, <2>5, <2>9
    <3>2. CASE j = m + 1
      <4>1. calls'[j].block = b
        BY <2>5, <3>2
      <4>2. calls[i].block \in 1..n
        BY <1>5, <2>6, <3>1
      <4> QED BY <1>1, <3>1, <4>1, <4>2
    <3>3. CASE j # m + 1
      <4>1. j \in 1..m /\ calls'[j] = calls[j]
        BY <1>1, <2>5, <3>3
      <4> QED BY <1>1, <2>9, <3>1, <4>1 DEF ConverterNumbers
    <3> QED BY <3>2, <3>3
  <2>10. DOMAIN toolIndex' = ToolBlocks'
    BY <2>1, <2>3
  <2> HIDE DEF call, b
  <2> QED BY <1>3, <1>4, <2>1, <2>2, <2>5, <2>7, <2>8, <2>9, <2>10 DEF ConverterNumbers
<1> QED BY <1>6, <1>7

LEMMA BlockArgumentsNumbers ==
    ASSUME ConverterNumbers, NEW b \in DOMAIN blocks, BlockArguments(b)
    PROVE  ConverterNumbers'
<1> DEFINE m == toolIndex[b] + 1
<1>1. /\ b \in ToolBlocks /\ UNCHANGED <<blocks, toolIndex>>
      /\ given' = [given EXCEPT ![b] = @ + 1]
      /\ calls' = [calls EXCEPT ![m].args = @ + 1]
  BY DEF BlockArguments, ToolBlocks, ConverterIndex
<1>2. m \in DOMAIN calls /\ calls[m].block = b
  BY <1>1 DEF ConverterNumbers
<1>3. ToolBlocks' = ToolBlocks
  BY <1>1 DEF ToolBlocks
<1>4. DOMAIN given = DOMAIN blocks /\ \A x \in DOMAIN given : given[x] \in Nat
  BY LenProperties, ElementOfSeq DEF ConverterNumbers
<1>5. \A i \in DOMAIN calls : calls[i] \in [block : Nat, args : Nat]
  <2>1. calls \in Seq([block : Nat, args : Nat])
    BY DEF ConverterNumbers
  <2> QED BY <2>1, ElementOfSeq, LenProperties
<1>6. given' \in Seq(Nat) /\ Len(given') = Len(given)
  <2>1. given[b] + 1 \in Nat /\ b \in 1..Len(given)
    BY <1>4, LenProperties DEF ConverterNumbers
  <2> QED BY <1>1, <2>1, ExceptSeq DEF ConverterNumbers
<1>7. calls' = [calls EXCEPT ![m] = [block |-> b, args |-> calls[m].args + 1]]
  <2>1. calls[m] \in [block : Nat, args : Nat] /\ calls[m].block = b
    BY <1>2, <1>5
  <2> HIDE DEF m
  <2>2. [calls[m] EXCEPT !.args = @ + 1] = [block |-> b, args |-> calls[m].args + 1]
    BY <2>1
  <2> QED BY <1>1, <2>2
<1> HIDE DEF m
<1>8. calls' \in Seq([block : Nat, args : Nat]) /\ Len(calls') = Len(calls)
  <2>1. [block |-> b, args |-> calls[m].args + 1] \in [block : Nat, args : Nat]
    BY <1>2, <1>5
  <2>2. m \in 1..Len(calls)
    BY <1>2, LenProperties DEF ConverterNumbers
  <2> QED BY <1>7, <2>1, <2>2, ExceptSeq DEF ConverterNumbers
<1>9. /\ DOMAIN calls' = DOMAIN calls
      /\ \A i \in DOMAIN calls : calls'[i].block = calls[i].block
  BY <1>2, <1>7
<1>10. \A i \in DOMAIN calls : calls'[i].args = given'[calls[i].block]
  <2> TAKE i \in DOMAIN calls
  <2>1. CASE i = m
    <3>1. calls[i].block = b /\ calls[i].args = given[b] /\ b \in DOMAIN given
      BY <1>2, <1>4, <2>1 DEF ConverterNumbers
    <3>2. calls'[i].args = calls[i].args + 1
      BY <1>2, <1>7, <2>1
    <3>3. given'[b] = given[b] + 1
      BY <1>1, <3>1
    <3> QED BY <3>1, <3>2, <3>3
  <2>2. CASE i # m
    <3>1. calls[i].block # b
      BY <2>2 DEF ConverterNumbers, m
    <3> QED BY <1>1, <1>7, <2>2, <3>1 DEF ConverterNumbers
  <2> QED BY <2>1, <2>2
<1>11. \A x \in ToolBlocks : calls'[toolIndex[x] + 1].block = x
  BY <1>9 DEF ConverterNumbers
<1>12. \A i \in DOMAIN calls : /\ calls'[i].block \in ToolBlocks
                                /\ toolIndex[calls'[i].block] + 1 = i
                                /\ calls'[i].args = given'[calls'[i].block]
  <2>1. \A i \in DOMAIN calls : /\ calls[i].block \in ToolBlocks
                                 /\ toolIndex[calls[i].block] + 1 = i
    BY DEF ConverterNumbers
  <2> QED BY <1>9, <1>10, <2>1
<1>13. \A i, j \in DOMAIN calls : i < j => calls'[i].block < calls'[j].block
  <2>1. \A i, j \in DOMAIN calls : i < j => calls[i].block < calls[j].block
    BY DEF ConverterNumbers
  <2> QED BY <1>9, <2>1
<1>14. /\ blocks \in Seq(BlockKinds) /\ Len(given) = Len(blocks)
       /\ DOMAIN toolIndex = ToolBlocks
       /\ IsFiniteSet(ToolBlocks) /\ Cardinality(ToolBlocks) = Len(calls)
       /\ \A x \in ToolBlocks : toolIndex[x] \in Nat /\ toolIndex[x] + 1 \in DOMAIN calls
  BY DEF ConverterNumbers
<1>15. /\ blocks' \in Seq(BlockKinds) /\ given' \in Seq(Nat) /\ Len(given') = Len(blocks')
       /\ DOMAIN toolIndex' = ToolBlocks'
       /\ IsFiniteSet(ToolBlocks') /\ Cardinality(ToolBlocks') = Len(calls')
       /\ \A x \in ToolBlocks' : toolIndex'[x] \in Nat /\ toolIndex'[x] + 1 \in DOMAIN calls'
       /\ \A x \in ToolBlocks' : calls'[toolIndex'[x] + 1].block = x
  BY <1>1, <1>3, <1>6, <1>8, <1>9, <1>11, <1>14
<1>16. /\ \A i \in DOMAIN calls' : /\ calls'[i].block \in ToolBlocks'
                                  /\ toolIndex'[calls'[i].block] + 1 = i
                                  /\ calls'[i].args = given'[calls'[i].block]
       /\ \A i, j \in DOMAIN calls' : i < j => calls'[i].block < calls'[j].block
  BY <1>1, <1>3, <1>9, <1>12, <1>13
<1> QED BY <1>8, <1>15, <1>16, Zenon DEF ConverterNumbers

LEMMA ConverterStep == ConverterNumbers /\ [Next]_vars => ConverterNumbers'
<1> SUFFICES ASSUME ConverterNumbers, [Next]_vars PROVE ConverterNumbers'
  OBVIOUS
<1>1. CASE UNCHANGED converterVars
  BY <1>1 DEF converterVars, ConverterNumbers, ToolBlocks
<1>2. CASE ProviderEvent
  BY <1>2, BlockStartNumbers, BlockArgumentsNumbers DEF ProviderEvent, BlockKinds
<1>3. ASSUME Next PROVE UNCHANGED converterVars \/ ProviderEvent
  BY <1>3 DEF Next, Request, NextKey, GiveUp, ContextWindow, OpenStream, StreamFails,
              ContextWindowMidStream, ChatEvent, ChatEnds, vars
<1> QED BY <1>1, <1>2, <1>3 DEF vars

\* A chat client's calls are the provider's, each with its own arguments.
THEOREM ChatCallsAssembled == Spec => []ChatClientAssemblesTheCalls
<1>1. Init => ConverterNumbers
  <2> SUFFICES ASSUME Init PROVE ConverterNumbers
    OBVIOUS
  <2>1. blocks = <<>> /\ given = <<>> /\ toolIndex = <<>> /\ calls = <<>>
    BY DEF Init, ConverterInit
  <2>2. /\ blocks \in Seq(BlockKinds) /\ given \in Seq(Nat)
        /\ calls \in Seq([block : Nat, args : Nat])
        /\ Len(blocks) = 0 /\ Len(given) = 0 /\ Len(calls) = 0
    BY <2>1, EmptySeq
  <2>3. DOMAIN blocks = {} /\ DOMAIN calls = {} /\ DOMAIN toolIndex = {}
    BY <2>1
  <2>4. ToolBlocks = {}
    BY <2>3 DEF ToolBlocks
  <2> QED BY <2>2, <2>3, <2>4, FS_EmptySet DEF ConverterNumbers
<1>2. ConverterNumbers => ChatClientAssemblesTheCalls
  <2> SUFFICES ASSUME ConverterNumbers PROVE ChatClientAssemblesTheCalls
    OBVIOUS
  <2>1. {calls[i].block : i \in DOMAIN calls} = ToolBlocks
    BY DEF ConverterNumbers
  <2> QED BY <2>1 DEF ConverterNumbers, ChatClientAssemblesTheCalls, ToolBlocks
<1> QED BY <1>1, <1>2, ConverterStep, PTL DEF Spec

(***************************************************************************)
(* The reference reading                                                   *)
(***************************************************************************)
Inputs  == Pieces \cup {"tool"}
Outputs == {"text", "thinking"} \X Pieces

\* f reads s from position k on.
Reads(s, k, f) ==
    f = [i \in k..Len(s) + 1 |-> [mode \in Modes |-> ReadAt(s, f, i, mode)]]

LEMMA ModesFollow ==
    /\ Modes = {"text", "opened", "thinking"}
    /\ \A mode \in Modes : /\ (IF mode = "thinking" THEN "text" ELSE mode) \in Modes
                           /\ (IF mode # "text" THEN "thinking" ELSE "text") \in Modes
                           /\ (IF mode # "text" THEN "text" ELSE "opened") \in Modes
BY DEF Modes

\* What a position adds depends on the positions after it only.
LEMMA ReadAtDepends ==
    ASSUME NEW s \in Seq(Inputs), NEW f, NEW g, NEW k \in 1..Len(s) + 1,
           \A i \in k + 1..Len(s) + 1 : f[i] = g[i],
           NEW mode
    PROVE  ReadAt(s, f, k, mode) = ReadAt(s, g, k, mode)
<1>1. Len(s) \in Nat
  BY LenProperties
<1>2. ~(k > Len(s)) => f[k + 1] = g[k + 1]
  BY <1>1
<1> DEFINE think == mode # "text"
           o == TagEnd(s, k, think)
<1>3. IsTag(s, k, think) => f[o + 1] = g[o + 1]
  <2> SUFFICES ASSUME IsTag(s, k, think) PROVE f[o + 1] = g[o + 1]
    OBVIOUS
  <2>1. o \in Nat /\ o \in k + 2..Len(s)
    BY <1>1, TagEndFacts
  <2> HIDE DEF o
  <2> QED BY <1>1, <2>1
<1> QED BY <1>2, <1>3, Zenon DEF ReadAt

\* The reading is well defined: backwards from the end.
LEMMA ReadingDefined ==
    ASSUME NEW s \in Seq(Inputs)
    PROVE  \E f : Reads(s, 1, f)
<1> DEFINE n == Len(s)
           Good(m) == \E f : Reads(s, n + 1 - m, f)
           Bad == {m \in 0..n : ~Good(m)}
<1>1. n \in Nat
  BY LenProperties
<1> HIDE DEF n
<1>2. SUFFICES ASSUME Bad # {} PROVE FALSE
  <2>1. Bad = {} => Good(n)
    <3> HIDE DEF Good
    <3>1. n \in 0..n
      BY <1>1
    <3> QED BY <3>1
  <2>2. n + 1 - n = 1
    BY <1>1
  <2> QED BY <2>1, <2>2
<1> DEFINE m == Min(Bad)
           k == n + 1 - m
<1> HIDE DEF Good
<1>3. m \in 0..n /\ ~Good(m) /\ \A j \in Bad : m <= j
  <2>1. Bad \in SUBSET Nat
    BY <1>1
  <2>2. m \in Bad /\ \A j \in Bad : m <= j
    <3> HIDE DEF Bad
    <3> QED BY <1>2, <2>1, MinFacts
  <2> QED BY <2>2
<1> HIDE DEF m
<1>4. k \in 1..n + 1
  BY <1>1, <1>3
<1>5. \E f : k = n + 1 \/ Reads(s, k + 1, f)
  <2>1. CASE m = 0
    BY <1>1, <2>1
  <2>2. CASE m # 0
    <3>1. m - 1 \in 0..n /\ ~(m <= m - 1) /\ n + 1 - (m - 1) = k + 1
      BY <1>1, <1>3, <2>2
    <3>2. Good(m - 1)
      BY <1>3, <3>1
    <3> QED BY <3>1, <3>2 DEF Good
  <2> QED BY <2>1, <2>2
<1>6. PICK f : k = n + 1 \/ Reads(s, k + 1, f)
  BY <1>5
<1> HIDE DEF k
<1> DEFINE g == [i \in k..n + 1 |-> [mode \in Modes |-> ReadAt(s, f, i, mode)]]
<1>7. \A i \in k + 1..n + 1 : g[i] = f[i]
  <2> TAKE i \in k + 1..n + 1
  <2>1. k # n + 1 /\ i \in k..n + 1
    BY <1>1, <1>4
  <2>2. f = [j \in k + 1..n + 1 |-> [mode \in Modes |-> ReadAt(s, f, j, mode)]]
    BY <1>6, <2>1 DEF Reads, n
  <2>3. f[i] = [mode \in Modes |-> ReadAt(s, f, i, mode)]
    BY <2>2, Zenon
  <2> QED BY <2>1, <2>3
<1>8. \A i \in k..n + 1, mode \in Modes : ReadAt(s, f, i, mode) = ReadAt(s, g, i, mode)
  <2> TAKE i \in k..n + 1, mode \in Modes
  <2>1. i \in 1..Len(s) + 1 /\ \A j \in i + 1..Len(s) + 1 : f[j] = g[j]
    <3>1. i \in 1..n + 1 /\ \A j \in i + 1..n + 1 : j \in k + 1..n + 1
      BY <1>1, <1>4
    <3> HIDE DEF g
    <3> QED BY <1>7, <3>1 DEF n
  <2> HIDE DEF g
  <2> QED BY <2>1, ReadAtDepends
<1>9. g = [i \in k..n + 1 |-> [mode \in Modes |-> ReadAt(s, g, i, mode)]]
  BY <1>8, Zenon
<1>10. Good(m)
  <2>1. Reads(s, k, g)
    <3> HIDE DEF g
    <3> QED BY <1>9, Zenon DEF Reads, n
  <2> HIDE DEF g
  <2> QED BY <2>1 DEF Good, k
<1> QED BY <1>3, <1>10

LEMMA ReadingEquation ==
    ASSUME NEW s \in Seq(Inputs), NEW i \in 1..Len(s) + 1, NEW mode \in Modes
    PROVE  ReadingFrom(s)[i][mode] = ReadAt(s, ReadingFrom(s), i, mode)
<1> DEFINE R == ReadingFrom(s)
<1>1. R = CHOOSE f : f = [j \in 1..Len(s) + 1 |-> [m \in Modes |-> ReadAt(s, f, j, m)]]
  BY DEF ReadingFrom
<1>2. \E f : f = [j \in 1..Len(s) + 1 |-> [m \in Modes |-> ReadAt(s, f, j, m)]]
  BY ReadingDefined, Zenon DEF Reads
<1>3. R = [j \in 1..Len(s) + 1 |-> [m \in Modes |-> ReadAt(s, R, j, m)]]
  <2> HIDE DEF R
  <2> QED BY <1>1, <1>2, Zenon
<1> HIDE DEF R
<1>4. R[i] = [m \in Modes |-> ReadAt(s, R, i, m)]
  BY <1>3, Zenon
<1>5. R[i][mode] = ReadAt(s, R, i, mode)
  BY <1>4, Zenon
<1> QED BY <1>5 DEF R

\* A reading is a sequence of pieces with their kinds.
LEMMA ReadingTyped ==
    ASSUME NEW s \in Seq(Inputs), NEW i \in 1..Len(s) + 1, NEW mode \in Modes
    PROVE  ReadingFrom(s)[i][mode] \in Seq(Outputs)
<1> DEFINE n == Len(s)
           R == ReadingFrom(s)
           Good(m) == \A md \in Modes : R[n + 1 - m][md] \in Seq(Outputs)
           Bad == {m \in 0..n : ~Good(m)}
<1>1. n \in Nat /\ \A j \in 1..n : s[j] \in Inputs
  BY LenProperties, ElementOfSeq
<1>2. \A j \in 1..n + 1, md \in Modes : R[j][md] = ReadAt(s, R, j, md)
  BY ReadingEquation
<1> HIDE DEF R
<1>3. SUFFICES ASSUME Bad # {} PROVE FALSE
  <2>1. n + 1 - i \in 0..n /\ n + 1 - (n + 1 - i) = i
    BY <1>1
  <2>2. Bad = {} => Good(n + 1 - i)
    BY <2>1
  <2> QED BY <2>1, <2>2 DEF R
<1> DEFINE m == Min(Bad)
           k == n + 1 - m
<1> HIDE DEF n
<1>4. m \in 0..n /\ ~Good(m) /\ \A j \in 0..n : ~Good(j) => m <= j
  <2>1. Bad \in SUBSET Nat
    BY <1>1
  <2>2. m \in Bad /\ \A j \in Bad : m <= j
    <3> HIDE DEF Bad
    <3> QED BY <1>3, <2>1, MinFacts
  <2> QED BY <2>2
<1> HIDE DEF m
<1>5. k \in 1..n + 1
  BY <1>1, <1>4
<1>6. \A j \in k + 1..n + 1, md \in Modes : R[j][md] \in Seq(Outputs)
  <2> TAKE j \in k + 1..n + 1, md \in Modes
  <2>1. n + 1 - j \in 0..n /\ ~(m <= n + 1 - j) /\ n + 1 - (n + 1 - j) = j
    BY <1>1, <1>4, <1>5
  <2>2. Good(n + 1 - j)
    BY <1>4, <2>1
  <2> QED BY <2>1, <2>2
<1>7. ASSUME NEW md \in Modes PROVE ReadAt(s, R, k, md) \in Seq(Outputs)
  <2> DEFINE think == md # "text"
             after == IF think THEN "thinking" ELSE "text"
  <2>1. CASE k > n
    <3>1. ReadAt(s, R, k, md) = <<>>
      BY <2>1 DEF ReadAt, n
    <3> QED BY <3>1, EmptySeq
  <2>2. CASE ~(k > n) /\ s[k] = "tool"
    <3>1. ReadAt(s, R, k, md) = R[k + 1][IF md = "thinking" THEN "text" ELSE md]
      BY <2>2 DEF ReadAt, n
    <3> QED BY <1>1, <1>5, <1>6, <2>2, <3>1, ModesFollow
  <2>3. CASE ~(k > n) /\ s[k] # "tool" /\ IsTag(s, k, think)
    <3> DEFINE o == TagEnd(s, k, think)
    <3>1. ReadAt(s, R, k, md) = R[o + 1][IF think THEN "text" ELSE "opened"]
      BY <2>3 DEF ReadAt, n
    <3>2. k \in Nat /\ Len(s) \in Nat
      BY <1>1, <1>5 DEF n
    <3>3. o \in Nat /\ o \in k + 2..Len(s)
      BY <2>3, <3>2, TagEndFacts
    <3> HIDE DEF o
    <3>4. o + 1 \in k + 1..n + 1
      BY <1>1, <1>5, <3>3 DEF n
    <3>5. (IF think THEN "text" ELSE "opened") \in Modes
      BY ModesFollow
    <3> QED BY <1>6, <3>1, <3>4, <3>5
  <2>4. CASE ~(k > n) /\ s[k] # "tool" /\ ~IsTag(s, k, think)
    <3>1. ReadAt(s, R, k, md) = <<<<KindOf(think), s[k]>>>> \o R[k + 1][after]
      BY <2>4 DEF ReadAt, n
    <3>2. s[k] \in Pieces
      BY <1>1, <1>5, <2>4 DEF Inputs
    <3>3. <<KindOf(think), s[k]>> \in Outputs
      BY <3>2 DEF KindOf, Outputs
    <3>4. <<<<KindOf(think), s[k]>>>> \in Seq(Outputs)
      BY <3>3
    <3>5. R[k + 1][after] \in Seq(Outputs)
      BY <1>1, <1>5, <1>6, <2>4, ModesFollow
    <3> QED BY <3>1, <3>4, <3>5, ConcatProperties
  <2> QED BY <1>1, <1>5, <2>1, <2>2, <2>3, <2>4
<1>8. Good(m)
  BY <1>2, <1>5, <1>7
<1> QED BY <1>4, <1>8

Thinks(mode) == mode # "text"
After(mode)  == IF mode # "text" THEN "thinking" ELSE "text"

\* How the reading goes on at a piece of text, a tag, a tool call and the end.
LEMMA ReadingCases ==
    ASSUME NEW e \in Seq(Inputs), NEW mode \in Modes, NEW p \in 1..Len(e) + 1
    PROVE  LET R == ReadingFrom(e)
               tag == IsTag(e, p, Thinks(mode))
           IN  /\ p = Len(e) + 1 => R[p][mode] = <<>>
               /\ p <= Len(e) /\ e[p] = "tool" =>
                      R[p][mode] = R[p + 1][IF mode = "thinking" THEN "text" ELSE mode]
               /\ p <= Len(e) /\ e[p] # "tool" /\ tag =>
                      R[p][mode] = R[TagEnd(e, p, Thinks(mode)) + 1]
                                    [IF Thinks(mode) THEN "text" ELSE "opened"]
               /\ p <= Len(e) /\ e[p] # "tool" /\ ~tag =>
                      R[p][mode] = <<<<KindOf(Thinks(mode)), e[p]>>>> \o R[p + 1][After(mode)]
<1> DEFINE R == ReadingFrom(e)
           tag == IsTag(e, p, Thinks(mode))
<1>1. R[p][mode] = ReadAt(e, R, p, mode)
  BY ReadingEquation
<1>2. Len(e) \in Nat
  BY LenProperties
<1> HIDE DEF R
<1>3. CASE p = Len(e) + 1
  <2>1. p > Len(e) /\ ~(p <= Len(e))
    BY <1>2, <1>3
  <2>2. R[p][mode] = <<>>
    BY <1>1, <2>1 DEF ReadAt
  <2> QED BY <2>1, <2>2 DEF R
<1>4. CASE p # Len(e) + 1
  <2>1. ~(p > Len(e)) /\ p <= Len(e)
    BY <1>2, <1>4
  <2>2. CASE e[p] = "tool"
    <3>1. R[p][mode] = R[p + 1][IF mode = "thinking" THEN "text" ELSE mode]
      BY <1>1, <2>1, <2>2 DEF ReadAt
    <3> QED BY <1>4, <2>2, <3>1 DEF R
  <2>3. CASE e[p] # "tool" /\ tag
    <3>1. R[p][mode] = R[TagEnd(e, p, Thinks(mode)) + 1]
                        [IF Thinks(mode) THEN "text" ELSE "opened"]
      BY <1>1, <2>1, <2>3 DEF ReadAt, Thinks
    <3> QED BY <1>4, <2>3, <3>1 DEF R
  <2>4. CASE e[p] # "tool" /\ ~tag
    <3>1. R[p][mode] = <<<<KindOf(Thinks(mode)), e[p]>>>> \o R[p + 1][After(mode)]
      BY <1>1, <2>1, <2>4 DEF ReadAt, Thinks, After
    <3> QED BY <1>4, <2>4, <3>1 DEF R
  <2> QED BY <2>2, <2>3, <2>4
<1> QED BY <1>3, <1>4

\* The n pieces of e after the first r, as content of one kind.
Run(e, r, n, kind) == [i \in 1..n |-> <<kind, e[r + i]>>]

\* Positions that hold text in a mode: neither a tool call nor a tag.
IsText(e, p, think) == e[p] \in Pieces /\ ~IsTag(e, p, think)

LEMMA PiecesAreNoTool == "tool" \notin Pieces
BY DEF Pieces

LEMMA RunTyped ==
    ASSUME NEW e, NEW r \in Nat, NEW n \in Nat, NEW think,
           \A p \in r + 1..r + n : e[p] \in Pieces
    PROVE  /\ Run(e, r, n, KindOf(think)) \in Seq(Outputs)
           /\ Len(Run(e, r, n, KindOf(think))) = n
<1> DEFINE f == [i \in 1..n |-> <<KindOf(think), e[r + i]>>]
<1>1. \A i \in 1..n : e[r + i] \in Pieces
  BY r + 1 \in Nat
<1>2. KindOf(think) \in {"text", "thinking"}
  BY DEF KindOf
<1>3. \A i \in 1..n : <<KindOf(think), e[r + i]>> \in Outputs
  BY <1>1, <1>2 DEF Outputs
<1>4. f \in [1..n -> Outputs]
  BY <1>3
<1>5. f \in Seq(Outputs) /\ Len(f) = n
  <2> HIDE DEF f
  <2> QED BY <1>4, SeqDef
<1> QED BY <1>5 DEF Run

\* Outputs are joined in any grouping.
LEMMA Associates == \A a, b, c \in Seq(Outputs) : (a \o b) \o c = a \o (b \o c)
BY ConcatAssociative

\* A run of text is read piece by piece.
LEMMA ReadingRun ==
    ASSUME NEW e \in Seq(Inputs), NEW mode \in Modes,
           NEW r \in Nat, NEW n \in Nat, r + n <= Len(e),
           \A p \in r + 1..r + n : IsText(e, p, Thinks(mode))
    PROVE  ReadingFrom(e)[r + 1][mode] =
              Run(e, r, n, KindOf(Thinks(mode)))
                  \o ReadingFrom(e)[r + n + 1][IF n = 0 THEN mode ELSE After(mode)]
<1> DEFINE R == ReadingFrom(e)
           kind == KindOf(Thinks(mode))
           At(q) == IF q = 0 THEN mode ELSE After(mode)
           Good(q) == R[r + 1][mode] = Run(e, r, q, kind) \o R[r + q + 1][At(q)]
           Bad == {q \in 0..n : ~Good(q)}
<1>1. Len(e) \in Nat
  BY LenProperties
<1>2. \A q \in 0..n : At(q) \in Modes /\ Thinks(At(q)) = Thinks(mode) /\ After(At(q)) = After(mode)
  BY DEF Thinks, After, Modes
<1>3. \A i \in 1..Len(e) + 1, md \in Modes : R[i][md] \in Seq(Outputs)
  BY ReadingTyped
<1> HIDE DEF R, At
<1>4. SUFFICES ASSUME Bad # {} PROVE FALSE
  <2>1. Bad = {} => Good(n)
    <3> HIDE DEF Good
    <3>1. n \in 0..n
      OBVIOUS
    <3> QED BY <3>1
  <2> QED BY <2>1 DEF R, At
<1> DEFINE q == Min(Bad)
<1>5. q \in 0..n /\ ~Good(q) /\ \A j \in 0..n : ~Good(j) => q <= j
  <2> HIDE DEF Good
  <2>1. Bad \in SUBSET Nat
    OBVIOUS
  <2>2. q \in Bad /\ \A j \in Bad : q <= j
    <3> HIDE DEF Bad
    <3> QED BY <1>4, <2>1, MinFacts
  <2> QED BY <2>2
<1> HIDE DEF q
<1>6. CASE q = 0
  <2>1. Run(e, r, 0, kind) \in Seq(Outputs) /\ Len(Run(e, r, 0, kind)) = 0
    BY RunTyped
  <2>2. Run(e, r, 0, kind) = <<>>
    BY <2>1, EmptySeq
  <2>3. R[r + 1][mode] \in Seq(Outputs)
    BY <1>1, <1>3
  <2>4. R[r + 1][mode] = <<>> \o R[r + 1][mode]
    BY <2>3, ConcatEmptySeq
  <2>5. r + 0 + 1 = r + 1 /\ At(0) = mode
    BY DEF At
  <2>6. Good(0)
    BY <2>2, <2>4, <2>5
  <2> QED BY <1>5, <1>6, <2>6
<1>7. CASE q # 0
  <2> DEFINE o == q - 1
             x == <<kind, e[r + q]>>
             rest == R[r + q + 1][At(q)]
  <2>1. o \in 0..n /\ o \in Nat /\ ~(q <= o) /\ r + o + 1 = r + q
    BY <1>5, <1>7
  <2>2. Good(o)
    BY <1>5, <2>1
  <2>3. r + q \in r + 1..r + n /\ r + q \in 1..Len(e) + 1 /\ r + q <= Len(e)
    BY <1>1, <1>5, <1>7
  <2>4. IsText(e, r + q, Thinks(mode)) /\ e[r + q] \in Pieces /\ e[r + q] # "tool"
    BY <2>3, PiecesAreNoTool DEF IsText
  <2>5. At(o) \in Modes /\ Thinks(At(o)) = Thinks(mode) /\ After(At(o)) = After(mode)
    BY <1>2, <2>1
  <2>6. R[r + q][At(o)] = <<x>> \o R[r + q + 1][After(mode)]
    <3> DEFINE p == r + q
               md == At(o)
               tag == IsTag(e, p, Thinks(md))
    <3>1. p \in 1..Len(e) + 1 /\ p <= Len(e) /\ e[p] # "tool" /\ md \in Modes
      BY <2>3, <2>4, <2>5
    <3>2. ~tag
      BY <2>4, <2>5 DEF IsText
    <3>3. Thinks(md) = Thinks(mode) /\ After(md) = After(mode)
      BY <2>5
    <3> HIDE DEF p, md
    <3>4. R[p][md] = <<<<KindOf(Thinks(md)), e[p]>>>> \o R[p + 1][After(md)]
      BY <3>1, <3>2, ReadingCases, Zenon DEF R
    <3>5. R[p][md] = <<<<kind, e[p]>>>> \o R[p + 1][After(mode)]
      BY <3>3, <3>4
    <3> QED BY <3>5 DEF p, md
  <2>7. At(q) = After(mode)
    BY <1>7 DEF At
  <2>8. /\ Run(e, r, o, kind) \in Seq(Outputs) /\ Len(Run(e, r, o, kind)) = o
        /\ Run(e, r, q, kind) \in Seq(Outputs) /\ Len(Run(e, r, q, kind)) = q
    <3>1. \A p \in r + 1..r + n : e[p] \in Pieces
      BY DEF IsText
    <3>2. \A p \in r + 1..r + o : e[p] \in Pieces
      BY <1>5, <2>1, <3>1
    <3>3. \A p \in r + 1..r + q : e[p] \in Pieces
      BY <1>5, <3>1
    <3>4. q \in Nat
      BY <1>5
    <3> QED BY <2>1, <3>2, <3>3, <3>4, RunTyped
  <2>9. <<x>> \in Seq(Outputs) /\ Len(<<x>>) = 1
    <3>1. kind \in {"text", "thinking"}
      BY DEF KindOf
    <3>2. x \in Outputs
      BY <2>4, <3>1 DEF Outputs
    <3> HIDE DEF x
    <3> QED BY <3>2
  <2>10. rest \in Seq(Outputs)
    <3>1. r + q + 1 \in 1..Len(e) + 1
      BY <1>1, <1>5, <2>3
    <3>2. At(q) \in Modes
      BY <1>2, <1>5
    <3> QED BY <1>3, <3>1, <3>2
  <2>11. Run(e, r, o, kind) \o <<x>> = Run(e, r, q, kind)
    <3> DEFINE a == Run(e, r, o, kind)
               b == Run(e, r, q, kind)
    <3>1. \A i \in 1..o : a[i] = <<kind, e[r + i]>>
      BY <2>1 DEF Run
    <3>2. \A i \in 1..q : b[i] = <<kind, e[r + i]>>
      BY <1>5 DEF Run
    <3>3. <<x>>[1] = x
      OBVIOUS
    <3> HIDE DEF a, b, x
    <3>4. /\ a \o <<x>> \in Seq(Outputs) /\ Len(a \o <<x>>) = o + 1
          /\ \A i \in 1..o + 1 : (a \o <<x>>)[i] = IF i <= o THEN a[i] ELSE <<x>>[i - o]
      BY <2>8, <2>9, ConcatProperties DEF a
    <3>5. \A i \in 1..q : (a \o <<x>>)[i] = b[i]
      <4> TAKE i \in 1..q
      <4>1. CASE i = q
        <5>1. i \in 1..o + 1 /\ ~(i <= o) /\ i - o = 1
          BY <1>5, <2>1, <4>1
        <5> QED BY <3>2, <3>3, <3>4, <4>1, <5>1 DEF x
      <4>2. CASE i # q
        <5>1. i \in 1..o /\ i \in 1..o + 1 /\ i <= o
          BY <1>5, <2>1, <4>2
        <5> QED BY <3>1, <3>2, <3>4, <5>1
      <4> QED BY <4>1, <4>2
    <3>6. o + 1 = q
      BY <1>5
    <3>7. b \in Seq(Outputs) /\ Len(b) = q
      BY <2>8 DEF b
    <3>8. a \o <<x>> = b
      BY <3>4, <3>5, <3>6, <3>7, SeqEqual
    <3> QED BY <3>8 DEF a, b
  <2>12. R[r + 1][mode] = Run(e, r, o, kind) \o (<<x>> \o rest)
    <3> HIDE DEF x, kind
    <3> QED BY <2>1, <2>2, <2>6, <2>7
  <2>13. (Run(e, r, o, kind) \o <<x>>) \o rest = Run(e, r, o, kind) \o (<<x>> \o rest)
    <3> HIDE DEF x, kind, rest
    <3> QED BY <2>8, <2>9, <2>10, Associates, Zenon
  <2>14. Good(q)
    <3> HIDE DEF x, kind
    <3> QED BY <2>11, <2>12, <2>13
  <2> QED BY <1>5, <2>14
<1> QED BY <1>6, <1>7

(***************************************************************************)
(* Delivery                                                                *)
(***************************************************************************)
\* Whether the tool delta that follows the buffer is still to be read.
Marker == IF (pc = "scan" /\ todo # <<>>) \/ (pc = "tools" /\ buffer # <<>>) THEN 1 ELSE 0

\* What has been read of the inbox: all but the buffer and that tool delta.
Behind == Len(inbox) - Len(buffer) - Marker

Positions ==
    /\ buffer \in Seq(Pieces) /\ inThink \in BOOLEAN
    /\ inbox \in Seq(Inputs) /\ outbox \in Seq(Outputs)
    /\ Behind \in Nat
    /\ \A i \in 1..Len(buffer) : inbox[Behind + i] = buffer[i]
    /\ Marker = 1 => inbox[Len(inbox)] = "tool"

\* The scan starts at the end of a chunk.  Outside it the buffer holds no tag, and nothing at all before the
\* stream, in a relay without a translator and once the message is complete.
Places ==
    /\ pc = "scan" => Len(inbox) \in cuts
    /\ pc \in {"attempt", "body", "tools", "end"} => TagStarts(buffer, inThink) = {}
    /\ via = "chat" \/ pc = "attempt" => buffer = <<>>
    /\ stage = "done" => pc = "over" /\ buffer = <<>>

\* What upstream may yet make of the inbox, if it cuts no tag too late.
Ended      == pc \in {"end", "over"}
Follows(e) == /\ e \in Seq(Inputs) /\ Len(inbox) <= Len(e)
              /\ \A i \in 1..Len(inbox) : e[i] = inbox[i]
              /\ Ended => Len(e) = Len(inbox)
              /\ CutsHeldBack(e, cuts)

\* The mode the reading is in where the buffer begins: after thinking came
\* some more is held back.
InMode(mode) == /\ mode \in Modes
                /\ Thinks(mode) = inThink
                /\ mode = "thinking" /\ ~Ended => buffer # <<>>

\* Whatever follows, its reading is what was delivered and then what is to be
\* read from here on.
DeliveredIn(mode) ==
    \A e : Follows(e) => Reading(e) = outbox \o ReadingFrom(e)[Behind + 1][mode]

DeliveryInv == /\ Positions /\ Places
               /\ \E mode : InMode(mode) /\ DeliveredIn(mode)

\* More cuts ask for more.
LEMMA FewerCuts ==
    ASSUME NEW e, cuts \subseteq cuts', CutsHeldBack(e, cuts')
    PROVE  CutsHeldBack(e, cuts)
BY Zenon DEF CutsHeldBack

LEMMA EmptyIffLen ==
    ASSUME NEW S, NEW s \in Seq(S)
    PROVE  s = <<>> <=> Len(s) = 0
BY EmptySeq

LEMMA MarkerFacts ==
    /\ Marker \in {0, 1}
    /\ pc \notin {"scan", "tools"} => Marker = 0
    /\ pc = "tools" /\ buffer = <<>> => Marker = 0
    /\ pc' \notin {"scan", "tools"} => Marker' = 0
    /\ pc' = "tools" /\ buffer' = <<>> => Marker' = 0
BY DEF Marker

\* A step that moves no text.
LEMMA QuietKeeps ==
    ASSUME DeliveryInv, UNCHANGED <<buffer, inThink, inbox, cuts, outbox>>,
           Marker' = Marker, Places', Ended => Ended'
    PROVE  DeliveryInv'
<1>1. Behind' = Behind
  BY DEF Behind
<1>2. Positions'
  BY <1>1 DEF DeliveryInv, Positions
<1>3. PICK mode : InMode(mode) /\ DeliveredIn(mode)
  BY DEF DeliveryInv
<1>4. InMode(mode)'
  BY <1>3 DEF InMode
<1>5. DeliveredIn(mode)'
  <2> SUFFICES ASSUME NEW e, Follows(e)'
               PROVE  Reading(e) = outbox' \o ReadingFrom(e)[Behind' + 1][mode]
    BY DEF DeliveredIn
  <2>1. Follows(e)
    BY DEF Follows
  <2>2. Reading(e) = outbox \o ReadingFrom(e)[Behind + 1][mode]
    BY <1>3, <2>1 DEF DeliveredIn
  <2> QED BY <1>1, <2>2
<1> QED BY <1>2, <1>4, <1>5 DEF DeliveryInv

\* A new generator has read and delivered nothing.
LEMMA FreshDelivers ==
    ASSUME buffer' = <<>>, inThink' = FALSE, inbox' = <<>>, outbox' = <<>>,
           pc' = "attempt", Places'
    PROVE  DeliveryInv'
<1>1. Marker' = 0 /\ Len(<<>>) = 0 /\ Behind' = 0
  BY EmptySeq DEF Behind, Marker
<1>2. Positions'
  <2>1. <<>> \in Seq(Pieces) /\ <<>> \in Seq(Inputs) /\ <<>> \in Seq(Outputs)
    BY EmptySeq
  <2>2. Marker' # 1 /\ \A i \in 1..Len(buffer') : FALSE
    BY <1>1
  <2> QED BY <1>1, <2>1, <2>2 DEF Positions
<1>3. InMode("text")'
  BY DEF InMode, Modes, Thinks
<1>4. DeliveredIn("text")'
  <2> SUFFICES ASSUME NEW e, Follows(e)'
               PROVE  Reading(e) = outbox' \o ReadingFrom(e)[Behind' + 1]["text"]
    BY DEF DeliveredIn
  <2>1. e \in Seq(Inputs) /\ Len(e) \in Nat
    BY LenProperties DEF Follows
  <2>2. ReadingFrom(e)[1]["text"] \in Seq(Outputs)
    <3>1. 1 \in 1..Len(e) + 1 /\ "text" \in Modes
      BY <2>1 DEF Modes
    <3> QED BY <2>1, <3>1, ReadingTyped
  <2>3. ReadingFrom(e)[1]["text"] = <<>> \o ReadingFrom(e)[1]["text"]
    BY <2>2, ConcatEmptySeq
  <2> QED BY <1>1, <2>3 DEF Reading
<1> QED BY <1>2, <1>3, <1>4 DEF DeliveryInv

\* Delivering a run of text leaves what follows it to be read.
LEMMA RunDelivered ==
    ASSUME NEW e \in Seq(Inputs), NEW mode \in Modes,
           NEW r \in Nat, NEW n \in Nat, n # 0, r + n <= Len(e),
           \A p \in r + 1..r + n : IsText(e, p, Thinks(mode)),
           NEW out \in Seq(Outputs)
    PROVE  out \o ReadingFrom(e)[r + 1][mode] =
               (out \o Run(e, r, n, KindOf(Thinks(mode))))
                   \o ReadingFrom(e)[r + n + 1][After(mode)]
<1> DEFINE run == Run(e, r, n, KindOf(Thinks(mode)))
           rest == ReadingFrom(e)[r + n + 1][After(mode)]
<1>1. ReadingFrom(e)[r + 1][mode] = run \o rest
  BY ReadingRun
<1>2. run \in Seq(Outputs)
  <2>1. \A p \in r + 1..r + n : e[p] \in Pieces
    BY DEF IsText
  <2> QED BY <2>1, RunTyped
<1>3. rest \in Seq(Outputs)
  <2>1. r + n + 1 \in 1..Len(e) + 1 /\ After(mode) \in Modes
    BY LenProperties DEF After, Modes
  <2> QED BY <2>1, ReadingTyped
<1> HIDE DEF run, rest
<1>4. (out \o run) \o rest = out \o (run \o rest)
  BY <1>2, <1>3, Associates, Zenon
<1> QED BY <1>1, <1>4, Zenon DEF run, rest

\* What Deliver adds to the outbox.
OfKind(kind, pieces) == [i \in DOMAIN pieces |-> <<kind, pieces[i]>>]

LEMMA DeliveredRun ==
    ASSUME NEW e \in Seq(Inputs), NEW mode \in Modes,
           NEW r \in Nat, NEW n \in Nat, n # 0, r + n <= Len(e),
           \A p \in r + 1..r + n : IsText(e, p, Thinks(mode)),
           outbox \in Seq(Outputs), NEW pieces \in Seq(Pieces), Len(pieces) = n,
           \A i \in 1..n : pieces[i] = e[r + i],
           outbox' = outbox \o OfKind(KindOf(Thinks(mode)), pieces)
    PROVE  outbox \o ReadingFrom(e)[r + 1][mode] =
               outbox' \o ReadingFrom(e)[r + n + 1][After(mode)]
<1> DEFINE kind == KindOf(Thinks(mode))
           f == OfKind(kind, pieces)
<1> HIDE DEF kind
<1>1. f = Run(e, r, n, kind)
  <2>1. DOMAIN pieces = 1..n
    BY LenProperties
  <2>2. Run(e, r, n, kind) = [i \in 1..n |-> <<kind, e[r + i]>>]
    BY DEF Run
  <2>3. f = [i \in 1..n |-> <<kind, pieces[i]>>]
    BY <2>1, Zenon DEF OfKind
  <2>4. [i \in 1..n |-> <<kind, pieces[i]>>] = [i \in 1..n |-> <<kind, e[r + i]>>]
    OBVIOUS
  <2> QED BY <2>2, <2>3, <2>4
<1>2. outbox' = outbox \o f
  BY DEF kind
<1> HIDE DEF f
<1>3. outbox \o ReadingFrom(e)[r + 1][mode] =
         (outbox \o Run(e, r, n, kind)) \o ReadingFrom(e)[r + n + 1][After(mode)]
  BY RunDelivered DEF kind
<1> QED BY <1>1, <1>2, <1>3

LEMMA OutboxTyped ==
    ASSUME outbox \in Seq(Outputs), NEW pieces \in Seq(Pieces), NEW think,
           outbox' = outbox \o OfKind(KindOf(think), pieces)
    PROVE  outbox' \in Seq(Outputs)
<1> DEFINE f == [i \in DOMAIN pieces |-> <<KindOf(think), pieces[i]>>]
<1>1. DOMAIN pieces = 1..Len(pieces) /\ Len(pieces) \in Nat /\ \A i \in DOMAIN pieces : pieces[i] \in Pieces
  BY LenProperties, ElementOfSeq
<1>2. KindOf(think) \in {"text", "thinking"}
  BY DEF KindOf
<1>3. f \in [1..Len(pieces) -> Outputs]
  BY <1>1, <1>2 DEF Outputs
<1>4. f \in Seq(Outputs)
  <2> HIDE DEF f
  <2> QED BY <1>1, <1>3, SeqDef
<1>5. f = OfKind(KindOf(think), pieces)
  BY DEF OfKind
<1> HIDE DEF f
<1> QED BY <1>4, <1>5, ConcatProperties

\* What the scan may deliver holds no tag, and not all of the buffer.
LEMMA SafeLengthFacts ==
    ASSUME NEW s \in Seq(Pieces), NEW think, SafeLength(s, think) > 0
    PROVE  /\ SafeLength(s, think) \in 1..Len(s) - 1
           /\ \A i \in 1..SafeLength(s, think) : i \notin TagStarts(s, think)
           /\ TagStarts(s, think) = {} => SafeLength(s, think) = Len(s) - HoldBack
           /\ TagStarts(s, think) # {} => SafeLength(s, think) + 1 \in TagStarts(s, think)
<1> DEFINE S == TagStarts(s, think)
           n == SafeLength(s, think)
<1>1. Len(s) \in Nat /\ S \in SUBSET (1..Len(s))
  BY LenProperties, TagStartFacts
<1>2. n = IF S # {} THEN Min(S) - 1 ELSE IF Len(s) > HoldBack THEN Len(s) - HoldBack ELSE 0
  BY DEF SafeLength
<1>3. HoldBack \in Nat \ {0}
  BY TranslatorAssumption
<1> HIDE DEF S, n
<1>4. CASE S # {}
  <2>1. S \in SUBSET Nat
    BY <1>1
  <2>2. Min(S) \in S /\ \A i \in S : Min(S) <= i
    BY <1>4, <2>1, MinFacts
  <2> DEFINE m == Min(S)
  <2>8. m \in S
    BY <2>2
  <2>6. m \in 1..Len(s) /\ m \in Int
    <3>1. Min(S) \in 1..Len(s)
      BY <1>1, <2>2, Zenon
    <3> HIDE DEF m
    <3>2. m \in 1..Len(s)
      BY <3>1, Zenon DEF m
    <3> QED BY <1>1, <3>2
  <2>3. n = m - 1 /\ n > 0
    BY <1>2, <1>4 DEF n
  <2>7. \A i \in S : m <= i
    BY <2>2
  <2> HIDE DEF m
  <2>4. n \in 1..Len(s) - 1
    BY <1>1, <2>3, <2>6
  <2>5. \A i \in 1..n : i \notin S
    BY <1>1, <2>3, <2>6, <2>7
  <2>9. n + 1 \in S
    <3>1. n + 1 = m
      BY <2>3, <2>6
    <3> QED BY <2>8, <3>1
  <2> QED BY <1>4, <2>4, <2>5, <2>9 DEF n, S
<1>5. CASE S = {}
  <2>1. n > 0
    BY DEF n
  <2>2. n \in 1..Len(s) - 1
    BY <1>1, <1>2, <1>3, <1>5, <2>1
  <2>3. n = Len(s) - HoldBack
    BY <1>1, <1>2, <1>3, <1>5, <2>1
  <2> QED BY <1>5, <2>2, <2>3 DEF n, S
<1> QED BY <1>4, <1>5

\* A tag of a stretch of s is a tag of s, and the other way round.
LEMMA TagShifts ==
    ASSUME NEW s, NEW t, Len(s) \in Nat, Len(t) \in Nat, NEW n \in Nat, n + Len(t) <= Len(s),
           \A k \in 1..Len(t) : t[k] = s[n + k],
           NEW i \in 1..Len(t), NEW j \in 1..Len(t), NEW think
    PROVE  TagAt(t, i, j, think) <=> TagAt(s, n + i, n + j, think)
<1>1. j \in i + 2..Len(t) <=> n + j \in n + i + 2..Len(s)
  OBVIOUS
<1> SUFFICES ASSUME j \in i + 2..Len(t) PROVE TagAt(t, i, j, think) <=> TagAt(s, n + i, n + j, think)
  BY <1>1 DEF TagAt
<1>2. i + 1 \in 1..Len(t) /\ n + (i + 1) = n + i + 1
  OBVIOUS
<1>3. t[i] = s[n + i] /\ t[i + 1] = s[n + i + 1] /\ t[j] = s[n + j]
  BY <1>2
<1>4. ASSUME \A k \in i + 2..j - 1 : t[k] \in Pieces \ {"end"},
             NEW k \in n + i + 2..n + j - 1
      PROVE  s[k] \in Pieces \ {"end"}
  <2>1. k - n \in i + 2..j - 1 /\ k - n \in 1..Len(t) /\ n + (k - n) = k
    OBVIOUS
  <2>2. t[k - n] = s[k] /\ t[k - n] \in Pieces \ {"end"}
    BY <1>4, <2>1
  <2> QED BY <2>2
<1>5. ASSUME \A k \in n + i + 2..n + j - 1 : s[k] \in Pieces \ {"end"},
             NEW k \in i + 2..j - 1
      PROVE  t[k] \in Pieces \ {"end"}
  <2>1. n + k \in n + i + 2..n + j - 1 /\ k \in 1..Len(t)
    OBVIOUS
  <2> QED BY <1>5, <2>1
<1> QED BY <1>1, <1>3, <1>4, <1>5 DEF TagAt

\* The rest of the buffer stands where it stood.
LEMMA CutFacts ==
    ASSUME NEW s \in Seq(Pieces), NEW n \in 0..Len(s)
    PROVE  /\ SubSeq(s, n + 1, Len(s)) \in Seq(Pieces)
           /\ Len(SubSeq(s, n + 1, Len(s))) = Len(s) - n
           /\ \A i \in 1..Len(s) - n : SubSeq(s, n + 1, Len(s))[i] = s[n + i]
           /\ \A think : TagStarts(s, think) = {} =>
                  TagStarts(SubSeq(s, n + 1, Len(s)), think) = {}
           /\ SubSeq(s, 1, n) \in Seq(Pieces) /\ Len(SubSeq(s, 1, n)) = n
           /\ \A i \in 1..n : SubSeq(s, 1, n)[i] = s[i]
<1> DEFINE t == SubSeq(s, n + 1, Len(s))
           a == SubSeq(s, 1, n)
<1>1. Len(s) \in Nat /\ n \in Nat /\ \A i \in 1..Len(s) : s[i] \in Pieces
  BY LenProperties, ElementOfSeq
<1>2. /\ t \in Seq(Pieces)
      /\ Len(t) = IF n + 1 <= Len(s) THEN Len(s) - (n + 1) + 1 ELSE 0
      /\ \A i \in 1..Len(s) - (n + 1) + 1 : t[i] = s[n + 1 + i - 1]
  <2>1. n + 1 \in Int /\ Len(s) \in Int /\ \A i \in n + 1..Len(s) : s[i] \in Pieces
    BY <1>1
  <2> QED BY <2>1, SubSeqProperties
<1>3. /\ a \in Seq(Pieces)
      /\ Len(a) = IF 1 <= n THEN n - 1 + 1 ELSE 0
      /\ \A i \in 1..n - 1 + 1 : a[i] = s[1 + i - 1]
  <2>1. 1 \in Int /\ n \in Int /\ \A i \in 1..n : s[i] \in Pieces
    BY <1>1
  <2> QED BY <2>1, SubSeqProperties
<1> HIDE DEF t, a
<1>4. Len(t) = Len(s) - n
  BY <1>1, <1>2
<1>5. \A i \in 1..Len(s) - n : t[i] = s[n + i]
  <2> TAKE i \in 1..Len(s) - n
  <2>1. i \in 1..Len(s) - (n + 1) + 1 /\ n + 1 + i - 1 = n + i
    BY <1>1
  <2> QED BY <1>2, <2>1
<1>6. Len(a) = n
  BY <1>1, <1>3
<1>7. \A i \in 1..n : a[i] = s[i]
  <2> TAKE i \in 1..n
  <2>1. i \in 1..n - 1 + 1 /\ 1 + i - 1 = i
    BY <1>1
  <2> QED BY <1>3, <2>1
<1>8. ASSUME NEW think, NEW i \in TagStarts(t, think) PROVE n + i \in TagStarts(s, think)
  <2>1. i \in 1..Len(t)
    BY DEF TagStarts
  <2>2. PICK j \in 1..Len(t) : TagAt(t, i, j, think)
    BY DEF TagStarts, IsTag
  <2>3. n + i \in 1..Len(s) /\ n + j \in 1..Len(s)
    BY <1>1, <1>4, <2>1, <2>2
  <2>4. TagAt(s, n + i, n + j, think)
    <3>1. Len(t) \in Nat /\ n + Len(t) <= Len(s)
      BY <1>1, <1>4
    <3>2. \A k \in 1..Len(t) : t[k] = s[n + k]
      BY <1>4, <1>5
    <3>3. TagAt(t, i, j, think) <=> TagAt(s, n + i, n + j, think)
      BY <1>1, <2>1, <3>1, <3>2, TagShifts
    <3> QED BY <2>2, <3>3
  <2> QED BY <2>3, <2>4 DEF TagStarts, IsTag
<1> QED BY <1>2, <1>3, <1>4, <1>5, <1>6, <1>7, <1>8 DEF t, a

LEMMA BehindMoves ==
    ASSUME Positions, inbox' = inbox, Marker' = Marker,
           NEW n \in Nat, Len(buffer') = Len(buffer) - n
    PROVE  Behind' = Behind + n
<1>1. Len(inbox) \in Nat /\ Len(buffer) \in Nat /\ Marker \in {0, 1}
  BY LenProperties, MarkerFacts DEF Positions
<1>2. Behind' = Len(inbox) - (Len(buffer) - n) - Marker
  BY DEF Behind
<1>3. Behind = Len(inbox) - Len(buffer) - Marker
  BY DEF Behind
<1> QED BY <1>1, <1>2, <1>3

LEMMA ModeFacts ==
    ASSUME NEW mode, InMode(mode)
    PROVE  /\ mode \in Modes /\ Thinks(mode) = inThink
           /\ KindOf(Thinks(mode)) = KindOf(inThink)
           /\ After(mode) \in Modes /\ Thinks(After(mode)) = Thinks(mode)
BY DEF InMode, Modes, After, Thinks

\* Where the buffer stands in what was received.
LEMMA BufferStands ==
    ASSUME Positions, NEW e, Follows(e)
    PROVE  /\ Len(buffer) \in Nat /\ Len(inbox) \in Nat /\ Len(e) \in Nat /\ Behind \in Nat
           /\ Len(inbox) = Behind + Len(buffer) + Marker
           /\ Len(inbox) <= Len(e) /\ e \in Seq(Inputs)
           /\ \A i \in 1..Len(buffer) : e[Behind + i] = buffer[i] /\ buffer[i] \in Pieces
           /\ Marker = 1 => e[Len(inbox)] = "tool"
<1>1. /\ Len(buffer) \in Nat /\ Len(inbox) \in Nat /\ Len(e) \in Nat /\ Behind \in Nat
      /\ e \in Seq(Inputs) /\ Len(inbox) <= Len(e)
      /\ \A i \in 1..Len(buffer) : buffer[i] \in Pieces
  BY LenProperties, ElementOfSeq DEF Positions, Follows
<1>2. Marker \in {0, 1}
  BY MarkerFacts
<1>3. Len(inbox) = Behind + Len(buffer) + Marker
  BY <1>1, <1>2 DEF Behind
<1>4. \A i \in 1..Len(buffer) : e[Behind + i] = buffer[i]
  <2> TAKE i \in 1..Len(buffer)
  <2>1. Behind + i \in 1..Len(inbox)
    BY <1>1, <1>2, <1>3
  <2>2. inbox[Behind + i] = buffer[i]
    BY DEF Positions
  <2> QED BY <2>1, <2>2 DEF Follows
<1>5. Marker = 1 => e[Len(inbox)] = "tool"
  <2> SUFFICES ASSUME Marker = 1 PROVE e[Len(inbox)] = "tool"
    OBVIOUS
  <2>1. Len(inbox) \in 1..Len(inbox)
    BY <1>1, <1>3
  <2> QED BY <2>1 DEF Follows, Positions
<1> QED BY <1>1, <1>3, <1>4, <1>5

\* Where no tag begins in the buffer none begins in what upstream makes of it
\* either, if every tag that starts there also ends there.
LEMMA BufferIsText ==
    ASSUME Positions, NEW e, Follows(e), NEW mode, InMode(mode),
           NEW n \in Nat, n <= Len(buffer),
           \A i \in 1..n : i \notin TagStarts(buffer, inThink),
           \A i \in 1..n, j \in 1..Len(e) :
               TagAt(e, Behind + i, j, inThink) => j <= Behind + Len(buffer)
    PROVE  \A p \in Behind + 1..Behind + n : IsText(e, p, Thinks(mode))
<1> SUFFICES ASSUME NEW p \in Behind + 1..Behind + n PROVE IsText(e, p, Thinks(mode))
  OBVIOUS
<1> DEFINE i == p - Behind
<1>1. /\ Len(buffer) \in Nat /\ Len(inbox) \in Nat /\ Len(e) \in Nat /\ Behind \in Nat
      /\ Len(inbox) = Behind + Len(buffer) + Marker /\ Len(inbox) <= Len(e)
      /\ \A j \in 1..Len(buffer) : e[Behind + j] = buffer[j] /\ buffer[j] \in Pieces
  BY BufferStands
<1>2. i \in 1..n /\ i \in 1..Len(buffer) /\ Behind + i = p
  BY <1>1
<1>3. e[p] = buffer[i] /\ e[p] \in Pieces
  BY <1>1, <1>2
<1>4. Thinks(mode) = inThink
  BY ModeFacts
<1> HIDE DEF i
<1>5. ~IsTag(e, p, inThink)
  <2> SUFFICES ASSUME IsTag(e, p, inThink) PROVE FALSE
    OBVIOUS
  <2>1. PICK j \in 1..Len(e) : TagAt(e, Behind + i, j, inThink)
    BY <1>2 DEF IsTag
  <2>2. j <= Behind + Len(buffer) /\ j \in Behind + i + 2..Len(e)
    BY <1>2, <2>1 DEF TagAt
  <2> DEFINE o == j - Behind
  <2>3. o \in 1..Len(buffer) /\ Behind + o = j
    BY <1>1, <1>2, <2>2
  <2> HIDE DEF o
  <2>4. Behind + Len(buffer) <= Len(e)
    BY <1>1, MarkerFacts
  <2>5. \A k \in 1..Len(buffer) : buffer[k] = e[Behind + k]
    BY <1>1
  <2>6. TagAt(buffer, i, o, inThink) <=> TagAt(e, Behind + i, Behind + o, inThink)
    BY <1>1, <1>2, <2>3, <2>4, <2>5, TagShifts
  <2>7. TagAt(buffer, i, o, inThink)
    BY <2>1, <2>3, <2>6
  <2>8. i \in TagStarts(buffer, inThink)
    BY <1>2, <2>3, <2>7 DEF TagStarts, IsTag
  <2> QED BY <1>2, <2>8
<1> QED BY <1>3, <1>4, <1>5 DEF IsText

\* No tag goes on beyond the buffer where a tool call or the end follows it.
LEMMA TagStopsAtTool ==
    ASSUME Positions, NEW e, Follows(e),
           Behind + Len(buffer) = Len(e) \/ e[Behind + Len(buffer) + 1] = "tool",
           NEW i \in 1..Len(buffer), NEW j \in 1..Len(e), TagAt(e, Behind + i, j, inThink)
    PROVE  j <= Behind + Len(buffer)
<1> DEFINE c == Behind + Len(buffer)
<1>1. Len(buffer) \in Nat /\ Len(e) \in Nat /\ Behind \in Nat /\ c \in Nat
  BY BufferStands
<1> SUFFICES ASSUME j > c PROVE FALSE
  BY <1>1
<1>2. e[c + 1] = "tool"
  BY <1>1
<1>3. /\ j \in Behind + i + 2..Len(e) /\ e[j] = "end"
      /\ e[Behind + i + 1] \in Pieces
      /\ \A k \in Behind + i + 2..j - 1 : e[k] \in Pieces
  BY DEF TagAt, TagName, Pieces
<1>4. c + 1 = j \/ c + 1 = Behind + i + 1 \/ c + 1 \in Behind + i + 2..j - 1
  BY <1>1, <1>3
<1> QED BY <1>2, <1>3, <1>4, PiecesAreNoTool

\* Nor beyond a tag that ends in the buffer.
LEMMA TagStopsAtTag ==
    ASSUME Positions, NEW e, Follows(e),
           NEW m \in TagStarts(buffer, inThink), NEW i \in 1..m - 1,
           NEW j \in 1..Len(e), TagAt(e, Behind + i, j, inThink)
    PROVE  j <= Behind + Len(buffer)
<1>1. /\ Len(buffer) \in Nat /\ Len(e) \in Nat /\ Behind \in Nat
      /\ \A k \in 1..Len(buffer) : e[Behind + k] = buffer[k]
  BY BufferStands
<1>2. m \in 1..Len(buffer)
  BY DEF TagStarts
<1>3. PICK o \in 1..Len(buffer) : TagAt(buffer, m, o, inThink)
  BY DEF TagStarts, IsTag
<1>4. o \in m + 2..Len(buffer) /\ e[Behind + o] = "end"
  BY <1>1, <1>3 DEF TagAt
<1>5. /\ j \in Behind + i + 2..Len(e)
      /\ \A k \in Behind + i + 2..j - 1 : e[k] # "end"
  BY DEF TagAt
<1>6. ~(Behind + o \in Behind + i + 2..j - 1)
  BY <1>4, <1>5
<1> QED BY <1>1, <1>2, <1>4, <1>5, <1>6

\* Nor, from the pieces that are not held back, beyond the end of a chunk.
LEMMA TagStopsAtCut ==
    ASSUME Positions, NEW e, Follows(e), Len(inbox) \in cuts,
           NEW i \in 1..Len(buffer), i <= Len(buffer) - HoldBack,
           NEW j \in 1..Len(e), TagAt(e, Behind + i, j, inThink)
    PROVE  j <= Behind + Len(buffer)
<1>1. /\ Len(buffer) \in Nat /\ Len(inbox) \in Nat /\ Len(e) \in Nat /\ Behind \in Nat
      /\ Len(inbox) = Behind + Len(buffer) + Marker /\ inThink \in BOOLEAN
      /\ Marker = 1 => e[Len(inbox)] = "tool"
  BY BufferStands DEF Positions
<1>2. Marker \in {0, 1}
  BY MarkerFacts
<1>3. CASE Marker = 1
  BY <1>1, <1>3, TagStopsAtTool
<1>4. CASE Marker = 0
  <2> DEFINE c == Len(inbox)
             p == Behind + i
  <2> SUFFICES ASSUME j > c PROVE FALSE
    BY <1>1, <1>4
  <2>1. p \in 1..c /\ j \in c + 1..Len(e) /\ c \in cuts
    BY <1>1, <1>4
  <2>2. TagAt(e, p, j, inThink) => c - p < HoldBack
    <3>1. CutsHeldBack(e, cuts)
      BY DEF Follows
    <3> HIDE DEF c, p
    <3> QED BY <1>1, <2>1, <3>1 DEF CutsHeldBack
  <2>3. HoldBack \in Nat
    BY TranslatorAssumption
  <2> QED BY <1>1, <1>4, <2>2, <2>3
<1> QED BY <1>2, <1>3, <1>4

\* A step inside the text keeps what may follow.
LEMMA FollowsStays ==
    ASSUME inbox' = inbox, cuts' = cuts, Ended => Ended', NEW e, Follows(e)'
    PROVE  Follows(e)
BY DEF Follows

LEMMA ScanTextDelivers ==
    ASSUME DeliveryInv, ScanText, Places'
    PROVE  DeliveryInv'
<1> DEFINE n == SafeLength(buffer, inThink)
           pieces == SubSeq(buffer, 1, n)
<1>1. /\ pc = "scan" /\ n > 0
      /\ outbox' = outbox \o OfKind(KindOf(inThink), pieces)
      /\ buffer' = SubSeq(buffer, n + 1, Len(buffer))
      /\ pc' = IF TagStarts(buffer, inThink) = {} THEN AfterScan ELSE "scan"
      /\ UNCHANGED <<inThink, inbox, cuts, todo>>
  BY DEF ScanText, Deliver, Scanned, OfKind
<1>2. PICK mode : InMode(mode) /\ DeliveredIn(mode)
  BY DEF DeliveryInv
<1>3. Positions /\ buffer \in Seq(Pieces) /\ Len(buffer) \in Nat /\ outbox \in Seq(Outputs)
      /\ inbox \in Seq(Inputs) /\ inThink \in BOOLEAN /\ Behind \in Nat
  BY LenProperties DEF DeliveryInv, Positions
<1>4. /\ n \in 1..Len(buffer) - 1 /\ \A i \in 1..n : i \notin TagStarts(buffer, inThink)
      /\ TagStarts(buffer, inThink) = {} => n = Len(buffer) - HoldBack
      /\ TagStarts(buffer, inThink) # {} => n + 1 \in TagStarts(buffer, inThink)
  BY <1>1, <1>3, SafeLengthFacts
<1> HIDE DEF n
<1>5. n \in Nat /\ n # 0 /\ n < Len(buffer) /\ n <= Len(buffer) /\ n \in 0..Len(buffer)
  BY <1>3, <1>4
<1>6. /\ buffer' \in Seq(Pieces) /\ Len(buffer') = Len(buffer) - n /\ buffer' # <<>>
      /\ \A i \in 1..Len(buffer) - n : buffer'[i] = buffer[n + i]
      /\ pieces \in Seq(Pieces) /\ Len(pieces) = n
      /\ \A i \in 1..n : pieces[i] = buffer[i]
  <2>1. /\ SubSeq(buffer, n + 1, Len(buffer)) \in Seq(Pieces)
        /\ Len(SubSeq(buffer, n + 1, Len(buffer))) = Len(buffer) - n
        /\ \A i \in 1..Len(buffer) - n :
               SubSeq(buffer, n + 1, Len(buffer))[i] = buffer[n + i]
        /\ pieces \in Seq(Pieces) /\ Len(pieces) = n
        /\ \A i \in 1..n : pieces[i] = buffer[i]
    BY <1>3, <1>5, CutFacts
  <2>2. Len(buffer) - n # 0
    BY <1>3, <1>5
  <2>3. Len(buffer') # 0
    BY <1>1, <2>1, <2>2
  <2>4. buffer' # <<>>
    BY <2>3, EmptySeq
  <2> QED BY <1>1, <2>1, <2>4
<1>7. Marker' = Marker
  BY <1>1, <1>6 DEF Marker, AfterScan
<1>8. Behind' = Behind + n
  BY <1>1, <1>3, <1>5, <1>6, <1>7, BehindMoves
<1> HIDE DEF pieces
<1>9. Positions'
  <2>1. outbox' \in Seq(Outputs)
    BY <1>1, <1>3, <1>6, OutboxTyped
  <2>2. ASSUME NEW i \in 1..Len(buffer') PROVE inbox'[Behind' + i] = buffer'[i]
    <3>1. n + i \in 1..Len(buffer) /\ Behind' + i = Behind + (n + i) /\ i \in 1..Len(buffer) - n
      BY <1>3, <1>5, <1>6, <1>8
    <3>2. inbox[Behind + (n + i)] = buffer[n + i]
      BY <1>3, <3>1 DEF Positions
    <3> QED BY <1>1, <1>6, <3>1, <3>2
  <2>3. Behind' \in Nat
    BY <1>3, <1>5, <1>8
  <2>4. Marker' = 1 => inbox'[Len(inbox')] = "tool"
    BY <1>1, <1>3, <1>7 DEF Positions
  <2> QED BY <1>1, <1>3, <1>6, <2>1, <2>2, <2>3, <2>4 DEF Positions
<1>10. InMode(After(mode))'
  BY <1>1, <1>2, <1>6, ModeFacts DEF InMode
<1>11. DeliveredIn(After(mode))'
  <2> SUFFICES ASSUME NEW e, Follows(e)'
               PROVE  Reading(e) = outbox' \o ReadingFrom(e)[Behind' + 1][After(mode)]
    BY DEF DeliveredIn
  <2>1. Follows(e)
    BY <1>1, FollowsStays DEF Ended
  <2>2. Reading(e) = outbox \o ReadingFrom(e)[Behind + 1][mode]
    BY <1>2, <2>1 DEF DeliveredIn
  <2>3. \A p \in Behind + 1..Behind + n : IsText(e, p, Thinks(mode))
    <3>1. ASSUME NEW i \in 1..n, NEW j \in 1..Len(e), TagAt(e, Behind + i, j, inThink)
          PROVE  j <= Behind + Len(buffer)
      <4>1. i \in 1..Len(buffer) /\ i \in 1..n + 1 - 1
        BY <1>3, <1>5
      <4>2. CASE TagStarts(buffer, inThink) # {}
        <5> DEFINE m == n + 1
        <5>1. m \in TagStarts(buffer, inThink) /\ i \in 1..m - 1
          BY <1>4, <4>1, <4>2
        <5> HIDE DEF m
        <5> QED BY <1>3, <2>1, <3>1, <5>1, TagStopsAtTag
      <4>3. CASE TagStarts(buffer, inThink) = {}
        <5>1. i <= Len(buffer) - HoldBack
          BY <1>3, <1>4, <1>5, <4>3, TranslatorAssumption
        <5>2. Len(inbox) \in cuts
          BY <1>1 DEF DeliveryInv, Places
        <5> QED BY <1>3, <2>1, <3>1, <4>1, <5>1, <5>2, TagStopsAtCut
      <4> QED BY <4>2, <4>3
    <3> QED BY <1>2, <1>3, <1>4, <1>5, <2>1, <3>1, BufferIsText
  <2>4. /\ e \in Seq(Inputs) /\ Behind + n <= Len(e)
        /\ \A i \in 1..n : pieces[i] = e[Behind + i]
    <3>1. /\ Len(inbox) = Behind + Len(buffer) + Marker /\ Len(inbox) \in Nat
          /\ Len(inbox) <= Len(e) /\ e \in Seq(Inputs) /\ Len(e) \in Nat
          /\ \A i \in 1..Len(buffer) : e[Behind + i] = buffer[i]
      BY <1>3, <2>1, BufferStands
    <3>2. Marker \in {0, 1} /\ \A i \in 1..n : i \in 1..Len(buffer)
      BY <1>3, <1>5, MarkerFacts
    <3>3. Behind + n <= Len(e)
      BY <1>3, <1>5, <3>1, <3>2
    <3>4. \A i \in 1..n : pieces[i] = e[Behind + i]
      BY <1>6, <3>1, <3>2
    <3> QED BY <3>1, <3>3, <3>4
  <2>5. /\ mode \in Modes
        /\ outbox' = outbox \o OfKind(KindOf(Thinks(mode)), pieces)
    BY <1>1, <1>2, ModeFacts
  <2>6. outbox \o ReadingFrom(e)[Behind + 1][mode] =
            outbox' \o ReadingFrom(e)[Behind + n + 1][After(mode)]
    <3>1. /\ e \in Seq(Inputs) /\ mode \in Modes /\ Behind \in Nat /\ n \in Nat /\ n # 0
          /\ Behind + n <= Len(e) /\ outbox \in Seq(Outputs)
          /\ pieces \in Seq(Pieces) /\ Len(pieces) = n
      BY <1>3, <1>5, <1>6, <2>4, <2>5
    <3>2. \A i \in 1..n : pieces[i] = e[Behind + i]
      BY <2>4
    <3>3. outbox' = outbox \o OfKind(KindOf(Thinks(mode)), pieces)
      BY <2>5
    <3> QED BY <2>3, <3>1, <3>2, <3>3, DeliveredRun
  <2> QED BY <1>8, <2>2, <2>6
<1> QED BY <1>9, <1>10, <1>11 DEF DeliveryInv

LEMMA ScanTagDelivers ==
    ASSUME DeliveryInv, ScanTag, Places'
    PROVE  DeliveryInv'
<1> DEFINE o == TagEnd(buffer, 1, inThink)
<1>1. /\ pc = "scan" /\ pc' = "scan" /\ IsTag(buffer, 1, inThink)
      /\ inThink' = ~inThink /\ buffer' = SubSeq(buffer, o + 1, Len(buffer))
      /\ UNCHANGED <<inbox, cuts, outbox, todo>>
  BY DEF ScanTag, Scanned, TagStarts
<1>2. PICK mode : InMode(mode) /\ DeliveredIn(mode)
  BY DEF DeliveryInv
<1>3. Positions /\ buffer \in Seq(Pieces) /\ Len(buffer) \in Nat /\ outbox \in Seq(Outputs)
      /\ inbox \in Seq(Inputs) /\ inThink \in BOOLEAN /\ Behind \in Nat
  BY LenProperties DEF DeliveryInv, Positions
<1>4. TagAt(buffer, 1, o, inThink) /\ o \in Nat /\ o \in 1 + 2..Len(buffer)
  BY <1>1, <1>3, TagEndFacts
<1> HIDE DEF o
<1>5. o \in 0..Len(buffer) /\ o <= Len(buffer) /\ 1 \in 1..Len(buffer) /\ o \in 1..Len(buffer)
  BY <1>3, <1>4
<1>6. /\ buffer' \in Seq(Pieces) /\ Len(buffer') = Len(buffer) - o
      /\ \A i \in 1..Len(buffer) - o : buffer'[i] = buffer[o + i]
  <2>1. /\ SubSeq(buffer, o + 1, Len(buffer)) \in Seq(Pieces)
        /\ Len(SubSeq(buffer, o + 1, Len(buffer))) = Len(buffer) - o
        /\ \A i \in 1..Len(buffer) - o : SubSeq(buffer, o + 1, Len(buffer))[i] = buffer[o + i]
    BY <1>3, <1>5, CutFacts
  <2> QED BY <1>1, <2>1
<1>7. Marker' = Marker
  BY <1>1 DEF Marker
<1>8. Behind' = Behind + o
  BY <1>1, <1>3, <1>4, <1>6, <1>7, BehindMoves
<1>9. Positions'
  <2>1. ASSUME NEW i \in 1..Len(buffer') PROVE inbox'[Behind' + i] = buffer'[i]
    <3>1. o + i \in 1..Len(buffer) /\ Behind' + i = Behind + (o + i) /\ i \in 1..Len(buffer) - o
      BY <1>3, <1>5, <1>6, <1>8
    <3>2. inbox[Behind + (o + i)] = buffer[o + i]
      BY <1>3, <3>1 DEF Positions
    <3> QED BY <1>1, <1>6, <3>1, <3>2
  <2>2. Behind' \in Nat
    BY <1>3, <1>4, <1>8
  <2>3. Marker' = 1 => inbox'[Len(inbox')] = "tool"
    BY <1>1, <1>3, <1>7 DEF Positions
  <2> QED BY <1>1, <1>3, <1>6, <2>1, <2>2, <2>3 DEF Positions
<1> DEFINE next == IF Thinks(mode) THEN "text" ELSE "opened"
<1>10. InMode(next)'
  <2>1. Thinks(next) = ~Thinks(mode) /\ next \in Modes /\ next # "thinking"
    BY DEF Thinks, Modes
  <2>2. Thinks(mode) = inThink
    BY <1>2, ModeFacts
  <2> HIDE DEF next
  <2> QED BY <1>1, <2>1, <2>2 DEF InMode
<1>11. DeliveredIn(next)'
  <2> SUFFICES ASSUME NEW e, Follows(e)'
               PROVE  Reading(e) = outbox' \o ReadingFrom(e)[Behind' + 1][next]
    BY DEF DeliveredIn
  <2>1. Follows(e)
    BY <1>1, FollowsStays DEF Ended
  <2>2. Reading(e) = outbox \o ReadingFrom(e)[Behind + 1][mode]
    BY <1>2, <2>1 DEF DeliveredIn
  <2>3. /\ Len(inbox) = Behind + Len(buffer) + Marker /\ Len(inbox) \in Nat
        /\ Len(inbox) <= Len(e) /\ e \in Seq(Inputs) /\ Len(e) \in Nat
        /\ \A i \in 1..Len(buffer) : e[Behind + i] = buffer[i] /\ buffer[i] \in Pieces
    BY <1>3, <2>1, BufferStands
  <2>4. Marker \in {0, 1}
    BY MarkerFacts
  <2> DEFINE p == Behind + 1
  <2>5. /\ p \in 1..Len(e) + 1 /\ p <= Len(e) /\ p \in Nat /\ Behind + o \in 1..Len(e)
        /\ Behind + Len(buffer) <= Len(e)
    BY <1>3, <1>5, <2>3, <2>4
  <2>6. e[p] # "tool"
    BY <1>5, <2>3, PiecesAreNoTool
  <2>7. TagAt(e, p, Behind + o, Thinks(mode))
    <3>1. Thinks(mode) = inThink
      BY <1>2, ModeFacts
    <3>2. \A i \in 1..Len(buffer) : buffer[i] = e[Behind + i]
      BY <2>3
    <3> QED BY <1>3, <1>4, <1>5, <2>3, <2>5, <3>1, <3>2, TagShifts
  <2>8. mode \in Modes
    BY <1>2, ModeFacts
  <2> HIDE DEF p
  <2>9. IsTag(e, p, Thinks(mode)) /\ TagEnd(e, p, Thinks(mode)) = Behind + o
    <3>1. IsTag(e, p, Thinks(mode))
      BY <2>5, <2>7 DEF IsTag
    <3> QED BY <2>3, <2>5, <2>7, <3>1, TagEndFacts
  <2>10. ReadingFrom(e)[p][mode] = ReadingFrom(e)[Behind + o + 1][next]
    BY <2>3, <2>5, <2>6, <2>8, <2>9, ReadingCases, Zenon
  <2> HIDE DEF next
  <2> QED BY <1>1, <1>8, <2>2, <2>10 DEF p
<1> QED BY <1>9, <1>10, <1>11 DEF DeliveryInv

\* A tool call where no thinking is under way is read without a trace.
LEMMA ToolIsRead ==
    ASSUME NEW e \in Seq(Inputs), NEW mode \in Modes, NEW p \in 1..Len(e), e[p] = "tool"
    PROVE  ReadingFrom(e)[p][mode] =
               ReadingFrom(e)[p + 1][IF mode = "thinking" THEN "text" ELSE mode]
<1>1. p \in 1..Len(e) + 1 /\ p <= Len(e)
  BY LenProperties
<1> QED BY <1>1, ReadingCases, Zenon

\* With nothing in the buffer, a step may read the tool delta that follows.
LEMMA MarkerConsumed ==
    ASSUME DeliveryInv, ~Ended, buffer = <<>>, buffer' = <<>>, ~Ended', Places',
           UNCHANGED <<inThink, outbox>>, cuts \subseteq cuts', inbox' \in Seq(Inputs), Marker = 0, Marker' = 0,
           Len(inbox') = Len(inbox) + 1, \A i \in 1..Len(inbox) : inbox'[i] = inbox[i],
           inbox'[Len(inbox')] = "tool"
    PROVE  DeliveryInv'
<1>1. PICK mode : InMode(mode) /\ DeliveredIn(mode)
  BY DEF DeliveryInv
<1>2. mode \in Modes /\ mode # "thinking"
  BY <1>1 DEF InMode
<1>3. Positions /\ Len(inbox) \in Nat /\ Len(<<>>) = 0 /\ outbox \in Seq(Outputs)
  BY EmptySeq, LenProperties DEF DeliveryInv, Positions
<1>4. Behind = Len(inbox) /\ Behind' = Len(inbox) + 1
  BY <1>3 DEF Behind
<1>5. Positions'
  <2>1. \A i \in 1..Len(buffer') : FALSE
    BY <1>3
  <2>2. Behind' \in Nat /\ Marker' # 1
    BY <1>3, <1>4
  <2>3. buffer' \in Seq(Pieces) /\ inThink' \in BOOLEAN /\ outbox' \in Seq(Outputs)
    BY EmptySeq DEF DeliveryInv, Positions
  <2> QED BY <2>1, <2>2, <2>3 DEF Positions
<1>6. InMode(mode)'
  BY <1>1, <1>2 DEF InMode
<1>7. DeliveredIn(mode)'
  <2> SUFFICES ASSUME NEW e, Follows(e)'
               PROVE  Reading(e) = outbox' \o ReadingFrom(e)[Behind' + 1][mode]
    BY DEF DeliveredIn
  <2>1. /\ e \in Seq(Inputs) /\ Len(inbox') <= Len(e) /\ Len(e) \in Nat
        /\ \A i \in 1..Len(inbox') : e[i] = inbox'[i]
        /\ CutsHeldBack(e, cuts)
    BY LenProperties, FewerCuts DEF Follows
  <2>2. Follows(e)
    <3>1. Len(inbox) <= Len(e) /\ \A i \in 1..Len(inbox) : i \in 1..Len(inbox')
      BY <1>3, <2>1
    <3>2. \A i \in 1..Len(inbox) : e[i] = inbox[i]
      BY <2>1, <3>1
    <3> QED BY <2>1, <3>1, <3>2 DEF Follows
  <2>3. Reading(e) = outbox \o ReadingFrom(e)[Behind + 1][mode]
    BY <1>1, <2>2 DEF DeliveredIn
  <2>4. Behind + 1 \in 1..Len(e) /\ Behind + 1 \in 1..Len(inbox') /\ Behind + 1 = Len(inbox')
    BY <1>3, <1>4, <2>1
  <2>5. e[Behind + 1] = "tool"
    BY <2>1, <2>4
  <2>6. ReadingFrom(e)[Behind + 1][mode] = ReadingFrom(e)[Behind + 1 + 1][mode]
    BY <1>2, <2>1, <2>4, <2>5, ToolIsRead
  <2> QED BY <1>4, <2>3, <2>6
<1> QED BY <1>5, <1>6, <1>7 DEF DeliveryInv

LEMMA ReceiveDelivers ==
    ASSUME DeliveryInv, NEW c \in Chunks, Receive(c), Places'
    PROVE  DeliveryInv'
<1> DEFINE text == c.text
           mark == IF c.tools # <<>> THEN <<"tool">> ELSE <<>>
           k    == IF c.tools # <<>> THEN 1 ELSE 0
<1>1. /\ pc = "body" /\ buffer' = buffer \o text /\ todo' = c.tools
      /\ pc' = IF text # <<>> THEN "scan" ELSE IF c.tools # <<>> THEN "tools" ELSE "body"
      /\ inbox' = inbox \o text \o mark
      /\ cuts \subseteq cuts'
      /\ UNCHANGED <<inThink, outbox>>
  BY DEF Receive
<1>2. text \in Seq(Pieces) /\ text \in Seq(Inputs) /\ Len(text) \in Nat
  <2>1. text \in Seq(Pieces)
    BY TranslatorAssumption DEF Chunk
  <2> QED BY <2>1, SeqMonotonic, LenProperties DEF Inputs
<1>3. mark \in Seq(Inputs) /\ Len(mark) = k /\ (k = 1 => mark[1] = "tool") /\ k \in {0, 1}
  <2>1. CASE c.tools = <<>>
    BY <2>1, EmptySeq
  <2>2. CASE c.tools # <<>>
    <3>1. "tool" \in Inputs
      BY DEF Inputs
    <3> QED BY <2>2, <3>1
  <2> QED BY <2>1, <2>2
<1>4. /\ Positions /\ buffer \in Seq(Pieces) /\ Len(buffer) \in Nat /\ outbox \in Seq(Outputs)
      /\ inbox \in Seq(Inputs) /\ Len(inbox) \in Nat /\ inThink \in BOOLEAN /\ Behind \in Nat
  BY LenProperties DEF DeliveryInv, Positions
<1>5. Marker = 0 /\ ~Ended /\ ~Ended'
  BY <1>1, MarkerFacts DEF Ended
<1>6. Behind = Len(inbox) - Len(buffer)
  BY <1>4, <1>5 DEF Behind
<1> HIDE DEF text, mark, k
<1>7. /\ buffer' \in Seq(Pieces) /\ Len(buffer') = Len(buffer) + Len(text)
      /\ \A i \in 1..Len(buffer) + Len(text) :
            buffer'[i] = IF i <= Len(buffer) THEN buffer[i] ELSE text[i - Len(buffer)]
  BY <1>1, <1>2, <1>4, ConcatProperties
<1> DEFINE l == inbox \o text
<1>8. /\ l \in Seq(Inputs) /\ Len(l) = Len(inbox) + Len(text)
      /\ \A i \in 1..Len(inbox) + Len(text) :
            l[i] = IF i <= Len(inbox) THEN inbox[i] ELSE text[i - Len(inbox)]
  BY <1>2, <1>4, ConcatProperties
<1> HIDE DEF l
<1>9. /\ inbox' \in Seq(Inputs) /\ Len(inbox') = Len(inbox) + Len(text) + k
      /\ \A i \in 1..Len(inbox) + Len(text) :
            inbox'[i] = IF i <= Len(inbox) THEN inbox[i] ELSE text[i - Len(inbox)]
      /\ k = 1 => inbox'[Len(inbox')] = "tool"
  <2>1. inbox' = l \o mark
    BY <1>1 DEF l
  <2>2. /\ l \o mark \in Seq(Inputs) /\ Len(l \o mark) = Len(l) + Len(mark)
        /\ \A i \in 1..Len(l) + Len(mark) :
              (l \o mark)[i] = IF i <= Len(l) THEN l[i] ELSE mark[i - Len(l)]
    <3>1. l \in Seq(Inputs) /\ mark \in Seq(Inputs)
      BY <1>3, <1>8
    <3> QED BY <3>1, ConcatProperties
  <2>3. Len(l) \in Nat
    BY <1>2, <1>4, <1>8
  <2>4. ASSUME NEW i \in 1..Len(l) PROVE (l \o mark)[i] = l[i]
    <3>1. i \in 1..Len(l) + Len(mark) /\ i <= Len(l)
      BY <1>3, <2>3
    <3> QED BY <2>2, <3>1
  <2>5. k = 1 => (l \o mark)[Len(l) + 1] = "tool"
    <3> SUFFICES ASSUME k = 1 PROVE (l \o mark)[Len(l) + 1] = "tool"
      OBVIOUS
    <3>1. Len(l) + 1 \in 1..Len(l) + Len(mark) /\ ~(Len(l) + 1 <= Len(l)) /\ Len(l) + 1 - Len(l) = 1
      BY <1>3, <2>3
    <3> QED BY <1>3, <2>2, <3>1
  <2>6. Len(inbox') = Len(inbox) + Len(text) + k
    BY <1>3, <1>8, <2>1, <2>2
  <2>7. \A i \in 1..Len(inbox) + Len(text) :
            inbox'[i] = IF i <= Len(inbox) THEN inbox[i] ELSE text[i - Len(inbox)]
    BY <1>8, <2>1, <2>4
  <2>8. k = 1 => inbox'[Len(inbox')] = "tool"
    BY <1>8, <2>1, <2>5, <2>6
  <2> QED BY <2>1, <2>2, <2>6, <2>7, <2>8
<1>10. \A i \in 1..Len(inbox) : inbox'[i] = inbox[i]
  <2> TAKE i \in 1..Len(inbox)
  <2>1. i \in 1..Len(inbox) + Len(text) /\ i <= Len(inbox)
    BY <1>2, <1>4
  <2> QED BY <1>9, <2>1
<1>11. CASE k = 1 /\ text = <<>> /\ buffer = <<>>
  <2>1. Len(text) = 0 /\ Len(buffer) = 0
    BY <1>11, EmptySeq
  <2>2. buffer' = <<>>
    <3>1. Len(buffer') = 0
      BY <1>7, <2>1
    <3> QED BY <1>7, <3>1, EmptyIffLen
  <2>3. Len(inbox') = Len(inbox) + 1
    BY <1>4, <1>9, <1>11, <2>1
  <2>4. Marker' = 0
    BY <1>1, <1>11, <2>2, MarkerFacts
  <2> QED BY <1>1, <1>5, <1>9, <1>10, <1>11, <2>2, <2>3, <2>4, MarkerConsumed
<1>12. CASE ~(k = 1 /\ text = <<>> /\ buffer = <<>>)
  <2>1. Marker' = k
    <3>1. text = <<>> => Len(text) = 0
      BY EmptySeq
    <3>2. text = <<>> => buffer' = buffer
      BY <1>1, <1>4, ConcatEmptySeq
    <3> QED BY <1>1, <1>12, <3>2 DEF Marker, k
  <2>2. Behind' = Behind
    <3>1. Behind' = Len(inbox') - Len(buffer') - k
      BY <2>1 DEF Behind
    <3>2. /\ Len(inbox') = Len(inbox) + Len(text) + k
          /\ Len(buffer') = Len(buffer) + Len(text)
      BY <1>7, <1>9
    <3>3. Behind' = (Len(inbox) + Len(text) + k) - (Len(buffer) + Len(text)) - k
      BY <3>1, <3>2
    <3>4. \A a, b, d, f \in Nat : (a + b + d) - (f + b) - d = a - f
      OBVIOUS
    <3>5. k \in Nat
      BY <1>3
    <3> QED BY <1>2, <1>4, <1>6, <3>3, <3>4, <3>5
  <2>3. ASSUME NEW i \in 1..Len(buffer') PROVE inbox'[Behind' + i] = buffer'[i]
    <3>1. /\ i \in 1..Len(buffer) + Len(text)
          /\ Behind + i \in 1..Len(inbox) + Len(text)
          /\ i <= Len(buffer) <=> Behind + i <= Len(inbox)
          /\ (Behind + i) - Len(inbox) = i - Len(buffer)
      BY <1>2, <1>4, <1>6, <1>7
    <3>2. CASE i <= Len(buffer)
      <4>1. i \in 1..Len(buffer)
        BY <1>4, <3>1, <3>2
      <4>2. inbox[Behind + i] = buffer[i]
        BY <1>4, <4>1 DEF Positions
      <4> QED BY <1>7, <1>9, <2>2, <3>1, <3>2, <4>2
    <3>3. CASE ~(i <= Len(buffer))
      <4>1. inbox'[Behind + i] = text[(Behind + i) - Len(inbox)]
        <5>1. Behind + i \in 1..Len(inbox) + Len(text) /\ ~(Behind + i <= Len(inbox))
          BY <3>1, <3>3
        <5> DEFINE j == Behind + i
        <5>2. j \in 1..Len(inbox) + Len(text) /\ ~(j <= Len(inbox))
          BY <5>1
        <5> HIDE DEF j
        <5>3. inbox'[j] = text[j - Len(inbox)]
          BY <1>9, <5>2, Zenon
        <5> QED BY <5>3 DEF j
      <4>2. buffer'[i] = text[i - Len(buffer)]
        BY <1>7, <3>1, <3>3
      <4> QED BY <2>2, <3>1, <4>1, <4>2
    <3> QED BY <3>2, <3>3
  <2>4. Positions'
    <3>1. inThink' \in BOOLEAN /\ outbox' \in Seq(Outputs) /\ Behind' \in Nat
      BY <1>1, <1>4, <2>2
    <3>2. Marker' = 1 => inbox'[Len(inbox')] = "tool"
      BY <1>9, <2>1
    <3> QED BY <1>7, <1>9, <2>3, <3>1, <3>2 DEF Positions
  <2>5. PICK mode : InMode(mode) /\ DeliveredIn(mode)
    BY DEF DeliveryInv
  <2>6. InMode(mode)'
    <3>1. buffer # <<>> => buffer' # <<>>
      <4>1. buffer # <<>> => Len(buffer) # 0
        BY <1>4, EmptyIffLen
      <4>2. Len(buffer) # 0 => Len(buffer') # 0
        BY <1>2, <1>4, <1>7
      <4> QED BY <4>1, <4>2, EmptySeq
    <3> QED BY <1>1, <1>5, <2>5, <3>1 DEF InMode
  <2>7. DeliveredIn(mode)'
    <3> SUFFICES ASSUME NEW e, Follows(e)'
                 PROVE  Reading(e) = outbox' \o ReadingFrom(e)[Behind' + 1][mode]
      BY DEF DeliveredIn
    <3>1. /\ e \in Seq(Inputs) /\ Len(inbox') <= Len(e) /\ Len(e) \in Nat
          /\ \A i \in 1..Len(inbox') : e[i] = inbox'[i]
          /\ CutsHeldBack(e, cuts)
      BY <1>1, LenProperties, FewerCuts DEF Follows
    <3>2. Len(inbox) <= Len(e) /\ \A i \in 1..Len(inbox) : i \in 1..Len(inbox')
      <4>1. Len(inbox') = Len(inbox) + Len(text) + k
        BY <1>9
      <4>2. Len(inbox') \in Nat /\ Len(inbox) <= Len(inbox')
        BY <1>2, <1>3, <1>4, <4>1
      <4> QED BY <1>4, <3>1, <4>2
    <3>3. Follows(e)
      <4>1. \A i \in 1..Len(inbox) : e[i] = inbox[i]
        BY <1>10, <3>1, <3>2
      <4> QED BY <1>5, <3>1, <3>2, <4>1 DEF Follows
    <3>4. Reading(e) = outbox \o ReadingFrom(e)[Behind + 1][mode]
      BY <2>5, <3>3 DEF DeliveredIn
    <3> QED BY <1>1, <2>2, <3>4
  <2> QED BY <2>4, <2>6, <2>7 DEF DeliveryInv
<1> QED BY <1>11, <1>12

LEMMA ScanHoldDelivers ==
    ASSUME DeliveryInv, ScanHold, Places'
    PROVE  DeliveryInv'
<1>1. /\ pc = "scan" /\ pc' = IF todo = <<>> THEN "body" ELSE "tools"
      /\ UNCHANGED <<buffer, inThink, inbox, cuts, outbox, todo>>
  BY DEF ScanHold, Scanned, AfterScan
<1>2. ~Ended /\ ~Ended'
  BY <1>1 DEF Ended
<1>3. CASE Marker' = Marker
  BY <1>1, <1>2, <1>3, QuietKeeps
<1>4. CASE Marker' # Marker
  <2>1. buffer = <<>> /\ todo # <<>> /\ Marker = 1 /\ Marker' = 0
    BY <1>1, <1>4 DEF Marker
  <2>2. PICK mode : InMode(mode) /\ DeliveredIn(mode)
    BY DEF DeliveryInv
  <2>3. mode \in Modes /\ mode # "thinking"
    BY <1>2, <2>1, <2>2 DEF InMode
  <2>4. Positions /\ Len(inbox) \in Nat /\ Len(<<>>) = 0 /\ Behind \in Nat
    BY EmptySeq, LenProperties DEF DeliveryInv, Positions
  <2>5. Behind = Len(inbox) - 1 /\ Behind' = Len(inbox)
    BY <1>1, <2>1, <2>4 DEF Behind
  <2>6. Positions'
    <3>1. \A i \in 1..Len(buffer') : FALSE
      BY <1>1, <2>1, <2>4
    <3>2. Behind' \in Nat /\ Marker' # 1
      BY <2>1, <2>4, <2>5
    <3>3. /\ buffer' \in Seq(Pieces) /\ inThink' \in BOOLEAN /\ outbox' \in Seq(Outputs)
          /\ inbox' \in Seq(Inputs)
      BY <1>1, <2>4 DEF Positions
    <3> QED BY <3>1, <3>2, <3>3 DEF Positions
  <2>7. InMode(mode)'
    BY <1>1, <2>2, <2>3 DEF InMode
  <2>8. DeliveredIn(mode)'
    <3> SUFFICES ASSUME NEW e, Follows(e)'
                 PROVE  Reading(e) = outbox' \o ReadingFrom(e)[Behind' + 1][mode]
      BY DEF DeliveredIn
    <3>1. Follows(e)
      BY <1>1, <1>2, FollowsStays
    <3>2. Reading(e) = outbox \o ReadingFrom(e)[Behind + 1][mode]
      BY <2>2, <3>1 DEF DeliveredIn
    <3>3. /\ Len(inbox) <= Len(e) /\ Len(e) \in Nat /\ e \in Seq(Inputs)
          /\ e[Len(inbox)] = "tool"
      BY <2>1, <2>4, <3>1, BufferStands
    <3>4. Len(inbox) \in 1..Len(e) /\ Behind + 1 = Len(inbox)
      BY <2>4, <2>5, <3>3
    <3>5. ReadingFrom(e)[Len(inbox)][mode] = ReadingFrom(e)[Len(inbox) + 1][mode]
      BY <2>3, <3>3, <3>4, ToolIsRead
    <3> QED BY <1>1, <2>5, <3>2, <3>4, <3>5
  <2> QED BY <2>6, <2>7, <2>8 DEF DeliveryInv
<1> QED BY <1>3, <1>4

LEMMA NothingTagged == ASSUME NEW think PROVE TagStarts(<<>>, think) = {}
<1>1. Len(<<>>) = 0
  BY EmptySeq
<1> QED BY <1>1 DEF TagStarts

\* All of the buffer leaves: before a tool call, or at the end.
LEMMA AllDelivered ==
    ASSUME Positions, TagStarts(buffer, inThink) = {}, buffer # <<>>,
           outbox' = outbox \o OfKind(KindOf(inThink), buffer),
           NEW mode, InMode(mode), NEW e, Follows(e),
           Behind + Len(buffer) = Len(e) \/ e[Behind + Len(buffer) + 1] = "tool"
    PROVE  outbox \o ReadingFrom(e)[Behind + 1][mode] =
               outbox' \o ReadingFrom(e)[Behind + Len(buffer) + 1][After(mode)]
<1> DEFINE n == Len(buffer)
<1>1. /\ n \in Nat /\ n # 0 /\ buffer \in Seq(Pieces) /\ outbox \in Seq(Outputs)
  BY EmptyIffLen, LenProperties DEF Positions
<1>2. \A p \in Behind + 1..Behind + n : IsText(e, p, Thinks(mode))
  <2> HIDE DEF n
  <2>1. n <= Len(buffer) /\ \A i \in 1..n : i \notin TagStarts(buffer, inThink)
    BY <1>1 DEF n
  <2>2. \A i \in 1..n, j \in 1..Len(e) :
            TagAt(e, Behind + i, j, inThink) => j <= Behind + Len(buffer)
    BY TagStopsAtTool DEF n
  <2> QED BY <1>1, <2>1, <2>2, BufferIsText
<1>3. /\ Len(inbox) = Behind + n + Marker /\ Len(inbox) \in Nat /\ Behind \in Nat
      /\ Len(inbox) <= Len(e) /\ e \in Seq(Inputs) /\ Len(e) \in Nat
      /\ \A i \in 1..n : e[Behind + i] = buffer[i]
  BY BufferStands
<1>4. Behind + n <= Len(e)
  BY <1>1, <1>3, MarkerFacts
<1>5. mode \in Modes /\ KindOf(Thinks(mode)) = KindOf(inThink)
  BY ModeFacts
<1>6. \A i \in 1..n : buffer[i] = e[Behind + i]
  BY <1>3
<1>7. outbox' = outbox \o OfKind(KindOf(Thinks(mode)), buffer)
  BY <1>5
<1>8. Len(buffer) = n
  OBVIOUS
<1> HIDE DEF n
<1>9. outbox \o ReadingFrom(e)[Behind + 1][mode] =
         outbox' \o ReadingFrom(e)[Behind + n + 1][After(mode)]
  <2>1. e \in Seq(Inputs) /\ Behind \in Nat
    BY <1>3
  <2> QED BY <2>1, <1>1, <1>2, <1>4, <1>5, <1>6, <1>7, <1>8, DeliveredRun
<1> QED BY <1>9 DEF n

LEMMA FlushForToolsDelivers ==
    ASSUME DeliveryInv, FlushForTools, Places'
    PROVE  DeliveryInv'
<1>1. /\ pc = "tools" /\ pc' = "tools" /\ buffer # <<>> /\ buffer' = <<>> /\ inThink' = FALSE
      /\ outbox' = outbox \o OfKind(KindOf(inThink), buffer)
      /\ UNCHANGED <<inbox, cuts>>
  BY DEF FlushForTools, Deliver, Scanned, OfKind
<1>2. PICK mode : InMode(mode) /\ DeliveredIn(mode)
  BY DEF DeliveryInv
<1>3. /\ Positions /\ buffer \in Seq(Pieces) /\ Len(buffer) \in Nat /\ outbox \in Seq(Outputs)
      /\ inbox \in Seq(Inputs) /\ Len(inbox) \in Nat /\ Behind \in Nat /\ Len(<<>>) = 0
  BY EmptySeq, LenProperties DEF DeliveryInv, Positions
<1>4. Marker = 1 /\ Marker' = 0 /\ TagStarts(buffer, inThink) = {}
  BY <1>1 DEF Marker, DeliveryInv, Places
<1>5. Behind = Len(inbox) - Len(buffer) - 1 /\ Behind' = Len(inbox)
  BY <1>1, <1>3, <1>4 DEF Behind
<1>6. Positions'
  <2>1. \A i \in 1..Len(buffer') : FALSE
    BY <1>1, <1>3
  <2>2. outbox' \in Seq(Outputs) /\ buffer' \in Seq(Pieces) /\ inThink' \in BOOLEAN
    BY <1>1, <1>3, OutboxTyped, EmptySeq
  <2>3. Behind' \in Nat /\ Marker' # 1
    BY <1>3, <1>4, <1>5
  <2> QED BY <1>1, <1>3, <2>1, <2>2, <2>3 DEF Positions
<1>7. InMode("text")'
  BY <1>1 DEF InMode, Modes, Thinks
<1>8. DeliveredIn("text")'
  <2> SUFFICES ASSUME NEW e, Follows(e)'
               PROVE  Reading(e) = outbox' \o ReadingFrom(e)[Behind' + 1]["text"]
    BY DEF DeliveredIn
  <2>1. Follows(e)
    BY <1>1, FollowsStays DEF Ended
  <2>2. Reading(e) = outbox \o ReadingFrom(e)[Behind + 1][mode]
    BY <1>2, <2>1 DEF DeliveredIn
  <2>3. /\ Len(inbox) <= Len(e) /\ e \in Seq(Inputs) /\ Len(e) \in Nat
        /\ e[Len(inbox)] = "tool"
    BY <1>3, <1>4, <2>1, BufferStands
  <2> DEFINE p == Behind + Len(buffer) + 1
  <2>4. p = Len(inbox) /\ p \in 1..Len(e)
    BY <1>3, <1>5, <2>3
  <2>5. e[p] = "tool"
    BY <2>3, <2>4
  <2>6. outbox \o ReadingFrom(e)[Behind + 1][mode] = outbox' \o ReadingFrom(e)[p][After(mode)]
    BY <1>1, <1>2, <1>3, <1>4, <2>1, <2>5, AllDelivered
  <2>7. After(mode) \in Modes /\ (IF After(mode) = "thinking" THEN "text" ELSE After(mode)) = "text"
    BY DEF After, Modes
  <2> HIDE DEF p
  <2>8. ReadingFrom(e)[p][After(mode)] = ReadingFrom(e)[p + 1]["text"]
    BY <2>3, <2>4, <2>5, <2>7, ToolIsRead
  <2> QED BY <1>5, <2>2, <2>4, <2>6, <2>8
<1> QED BY <1>6, <1>7, <1>8 DEF DeliveryInv

LEMMA FlushRestDelivers ==
    ASSUME DeliveryInv, FlushRest, Places'
    PROVE  DeliveryInv'
<1>1. /\ pc = "end" /\ pc' = "end" /\ buffer # <<>> /\ buffer' = <<>>
      /\ outbox' = outbox \o OfKind(KindOf(inThink), buffer)
      /\ UNCHANGED <<inbox, cuts, inThink>>
  BY DEF FlushRest, Deliver, Scanned, OfKind
<1>2. PICK mode : InMode(mode) /\ DeliveredIn(mode)
  BY DEF DeliveryInv
<1>3. /\ Positions /\ buffer \in Seq(Pieces) /\ Len(buffer) \in Nat /\ outbox \in Seq(Outputs)
      /\ inbox \in Seq(Inputs) /\ Len(inbox) \in Nat /\ Behind \in Nat /\ Len(<<>>) = 0
      /\ inThink \in BOOLEAN
  BY EmptySeq, LenProperties DEF DeliveryInv, Positions
<1>4. Marker = 0 /\ Marker' = 0 /\ TagStarts(buffer, inThink) = {} /\ Ended /\ Ended'
  BY <1>1 DEF Marker, Ended, DeliveryInv, Places
<1>5. Behind = Len(inbox) - Len(buffer) /\ Behind' = Len(inbox)
  BY <1>1, <1>3, <1>4 DEF Behind
<1>6. Positions'
  <2>1. \A i \in 1..Len(buffer') : FALSE
    BY <1>1, <1>3
  <2>2. outbox' \in Seq(Outputs) /\ buffer' \in Seq(Pieces) /\ inThink' \in BOOLEAN
    BY <1>1, <1>3, OutboxTyped, EmptySeq
  <2>3. Behind' \in Nat /\ Marker' # 1
    BY <1>3, <1>4, <1>5
  <2> QED BY <1>1, <1>3, <2>1, <2>2, <2>3 DEF Positions
<1>7. InMode(After(mode))'
  BY <1>1, <1>2, <1>4, ModeFacts DEF InMode
<1>8. DeliveredIn(After(mode))'
  <2> SUFFICES ASSUME NEW e, Follows(e)'
               PROVE  Reading(e) = outbox' \o ReadingFrom(e)[Behind' + 1][After(mode)]
    BY DEF DeliveredIn
  <2>1. Follows(e) /\ Len(e) = Len(inbox)
    BY <1>1, <1>4, FollowsStays DEF Follows
  <2>2. Reading(e) = outbox \o ReadingFrom(e)[Behind + 1][mode]
    BY <1>2, <2>1 DEF DeliveredIn
  <2>3. Behind + Len(buffer) = Len(e) /\ Behind + Len(buffer) + 1 = Behind' + 1
    BY <1>3, <1>5, <2>1
  <2>4. outbox \o ReadingFrom(e)[Behind + 1][mode]
            = outbox' \o ReadingFrom(e)[Behind + Len(buffer) + 1][After(mode)]
    BY <1>1, <1>2, <1>3, <1>4, <2>1, <2>3, AllDelivered
  <2> QED BY <2>2, <2>3, <2>4
<1> QED BY <1>6, <1>7, <1>8 DEF DeliveryInv

LEMMA TagsStayOut ==
    ASSUME NEW s \in Seq(Pieces), NEW think, SafeLength(s, think) > 0
    PROVE  TagStarts(s, think) = {} =>
               TagStarts(SubSeq(s, SafeLength(s, think) + 1, Len(s)), think) = {}
<1>1. SafeLength(s, think) \in 0..Len(s)
  <2>1. SafeLength(s, think) \in 1..Len(s) - 1
    BY SafeLengthFacts
  <2> QED BY <2>1, LenProperties
<1> DEFINE n == SafeLength(s, think)
<1> HIDE DEF n
<1>2. n \in 0..Len(s)
  BY <1>1 DEF n
<1>3. TagStarts(s, think) = {} => TagStarts(SubSeq(s, n + 1, Len(s)), think) = {}
  BY <1>2, CutFacts
<1> QED BY <1>3 DEF n

LEMMA PlacesStep == Positions /\ Places /\ [Next]_vars => Places'
<1> SUFFICES ASSUME Positions, Places, [Next]_vars PROVE Places'
  OBVIOUS
<1>1. buffer \in Seq(Pieces) /\ inThink \in BOOLEAN
  BY DEF Positions
<1>2. CASE UNCHANGED <<pc, via, stage, buffer, inThink, inbox, cuts>>
  BY <1>2 DEF Places
<1>3. CASE GiveUp \/ OpenStream \/ StreamFails \/ ChatEnds
  BY <1>3 DEF GiveUp, OpenStream, StreamFails, ChatEnds, Places, translator, history, requestVars
<1>4. CASE ContextWindowMidStream
  <2>1. pc' = "attempt" /\ stage' = "restart" /\ buffer' = <<>>
    BY <1>4 DEF ContextWindowMidStream, FreshNext
  <2> QED BY <2>1, NothingTagged DEF Places
<1>5. ASSUME via # "chat", via' = via, Translate PROVE Places'
  <2>1. CASE \E c \in Chunks : Receive(c)
    <3>1. PICK c \in Chunks : Receive(c)
      BY <2>1
    <3>2. /\ pc = "body" /\ stage' = stage /\ buffer' = buffer \o c.text /\ inThink' = inThink
          /\ pc' = IF c.text # <<>> THEN "scan" ELSE IF c.tools # <<>> THEN "tools" ELSE "body"
          /\ Len(inbox') \in cuts'
      BY <3>1 DEF Receive
    <3>3. c.text = <<>> => buffer' = buffer
      BY <1>1, <3>2, ConcatEmptySeq
    <3> QED BY <1>5, <3>2, <3>3 DEF Places
  <2>2. CASE ScanText
    <3>1. /\ pc = "scan" /\ UNCHANGED <<stage, inThink, inbox, cuts>>
          /\ SafeLength(buffer, inThink) > 0
          /\ buffer' = SubSeq(buffer, SafeLength(buffer, inThink) + 1, Len(buffer))
          /\ pc' = IF TagStarts(buffer, inThink) = {} THEN AfterScan ELSE "scan"
          /\ AfterScan \in {"body", "tools"}
      BY <2>2 DEF ScanText, Scanned, AfterScan
    <3>2. TagStarts(buffer, inThink) = {} => TagStarts(buffer', inThink') = {}
      BY <1>1, <3>1, TagsStayOut
    <3> QED BY <1>5, <3>1, <3>2 DEF Places
  <2>3. CASE ScanTag
    BY <1>5, <2>3 DEF ScanTag, Scanned, Places
  <2>4. CASE ScanHold
    BY <1>5, <2>4 DEF ScanHold, Scanned, AfterScan, Places
  <2>5. CASE FlushForTools \/ FlushRest
    <3>1. pc' = pc /\ pc \in {"tools", "end"} /\ stage' = stage /\ buffer' = <<>>
      BY <2>5 DEF FlushForTools, FlushRest, Scanned
    <3> QED BY <1>5, <3>1, NothingTagged DEF Places
  <2>6. CASE \E d \in ToolDelta : StartCall(d) \/ ContinueCall(d) \/ ReturnToCall(d)
    <3>1. /\ pc = "tools" /\ pc' \in {"body", "tools"} /\ stage' = stage
          /\ UNCHANGED <<buffer, inThink>>
      BY <2>6 DEF StartCall, ContinueCall, ReturnToCall, InTools
    <3> QED BY <1>5, <3>1 DEF Places
  <2>7. CASE UpstreamEnds
    BY <1>5, <2>7 DEF UpstreamEnds, translator, history, Places
  <2>8. CASE EndMessage
    BY <1>5, <2>8 DEF EndMessage, Places
  <2> QED BY <1>5, <2>1, <2>2, <2>3, <2>4, <2>5, <2>6, <2>7, <2>8 DEF Translate
<1>6. ASSUME NextKey \/ ContextWindow \/ ChatEvent
      PROVE  UNCHANGED <<pc, via, stage, buffer, inThink, inbox, cuts>>
  BY <1>6 DEF NextKey, ContextWindow, Compact, ChatEvent, streamVars, translator, wire, history,
              requestVars
<1>7. ASSUME UNCHANGED vars PROVE UNCHANGED <<pc, via, stage, buffer, inThink, inbox, cuts>>
  BY <1>7 DEF vars, streamVars, translator, wire, history, requestVars
<1> QED BY <1>2, <1>3, <1>4, <1>5, <1>6, <1>7 DEF Next, Request, requestVars

LEMMA DeliveryStep == DeliveryInv /\ [Next]_vars => DeliveryInv'
<1> SUFFICES ASSUME DeliveryInv, [Next]_vars PROVE DeliveryInv'
  OBVIOUS
<1>1. Places'
  BY PlacesStep DEF DeliveryInv
<1>2. ASSUME UNCHANGED <<buffer, inThink, inbox, cuts, outbox>>, Marker' = Marker, Ended => Ended'
      PROVE  DeliveryInv'
  BY <1>1, <1>2, QuietKeeps
<1>3. CASE UNCHANGED <<pc, todo, buffer, inThink, inbox, cuts, outbox>>
  <2>1. Marker' = Marker /\ Ended' = Ended
    BY <1>3 DEF Marker, Ended
  <2> QED BY <1>2, <1>3, <2>1
<1>4. CASE GiveUp \/ OpenStream \/ StreamFails \/ ChatEnds \/ UpstreamEnds \/ EndMessage
  <2>1. /\ UNCHANGED <<buffer, inThink, inbox, cuts, outbox>>
        /\ pc \in {"attempt", "body", "end"} /\ pc' \in {"body", "end", "over"}
        /\ Ended => Ended'
    BY <1>4 DEF GiveUp, OpenStream, StreamFails, ChatEnds, UpstreamEnds, EndMessage,
                translator, history, Ended
  <2>2. Marker = 0 /\ Marker' = 0
    BY <2>1, MarkerFacts
  <2> QED BY <1>2, <2>1, <2>2
<1>5. CASE ContextWindowMidStream
  <2>1. /\ buffer' = <<>> /\ inThink' = FALSE /\ inbox' = <<>> /\ outbox' = <<>>
        /\ pc' = "attempt"
    BY <1>5 DEF ContextWindowMidStream, FreshNext
  <2> QED BY <1>1, <2>1, FreshDelivers
<1>6. CASE \E d \in ToolDelta : StartCall(d) \/ ContinueCall(d) \/ ReturnToCall(d)
  <2>1. /\ pc = "tools" /\ pc' \in {"body", "tools"} /\ buffer = <<>>
        /\ UNCHANGED <<buffer, inThink, inbox, cuts, outbox>>
    BY <1>6 DEF StartCall, ContinueCall, ReturnToCall, InTools
  <2>2. Marker = 0 /\ Marker' = 0 /\ ~Ended
    BY <2>1, MarkerFacts DEF Ended
  <2> QED BY <1>2, <2>1, <2>2
<1>7. ASSUME Translate PROVE DeliveryInv'
  BY <1>1, <1>4, <1>6, <1>7, ReceiveDelivers, ScanTextDelivers, ScanTagDelivers, ScanHoldDelivers,
     FlushForToolsDelivers, FlushRestDelivers DEF Translate
<1>8. ASSUME NextKey \/ ContextWindow \/ ChatEvent
      PROVE  UNCHANGED <<pc, todo, buffer, inThink, inbox, cuts, outbox>>
  BY <1>8 DEF NextKey, ContextWindow, ChatEvent, streamVars, translator, history
<1>9. ASSUME UNCHANGED vars PROVE UNCHANGED <<pc, todo, buffer, inThink, inbox, cuts, outbox>>
  BY <1>9 DEF vars, streamVars, translator, history
<1> QED BY <1>3, <1>4, <1>5, <1>7, <1>8, <1>9 DEF Next, Request

\* However the text is cut into chunks, the client gets what it reads as, unless a
\* cut fell further inside a tag than the translator keeps back.
THEOREM DeliveryIsTheReading == Spec => []DeliversTheReading
<1>1. Init => DeliveryInv
  <2> SUFFICES ASSUME Init PROVE DeliveryInv
    OBVIOUS
  <2>1. /\ pc = "attempt" /\ stage = "idle" /\ buffer = <<>> /\ inThink = FALSE
        /\ inbox = <<>> /\ outbox = <<>>
    BY DEF Init, StreamInit, Fresh
  <2>2. Marker = 0 /\ Len(<<>>) = 0 /\ Behind = 0
    BY <2>1, EmptySeq DEF Behind, Marker
  <2>3. Positions
    <3>1. <<>> \in Seq(Pieces) /\ <<>> \in Seq(Inputs) /\ <<>> \in Seq(Outputs)
      BY EmptySeq
    <3>2. Marker # 1 /\ \A i \in 1..Len(buffer) : FALSE
      BY <2>1, <2>2
    <3> QED BY <2>1, <2>2, <3>1, <3>2 DEF Positions
  <2>4. Places
    BY <2>1, NothingTagged DEF Places
  <2>5. InMode("text")
    BY <2>1 DEF InMode, Modes, Thinks
  <2>6. DeliveredIn("text")
    <3> SUFFICES ASSUME NEW e, Follows(e)
                 PROVE  Reading(e) = outbox \o ReadingFrom(e)[Behind + 1]["text"]
      BY DEF DeliveredIn
    <3>1. e \in Seq(Inputs) /\ Len(e) \in Nat
      BY LenProperties DEF Follows
    <3>2. 1 \in 1..Len(e) + 1 /\ "text" \in Modes
      BY <3>1 DEF Modes
    <3>3. ReadingFrom(e)[1]["text"] \in Seq(Outputs)
      BY <3>1, <3>2, ReadingTyped
    <3>4. ReadingFrom(e)[1]["text"] = <<>> \o ReadingFrom(e)[1]["text"]
      BY <3>3, ConcatEmptySeq
    <3> QED BY <2>1, <2>2, <3>4 DEF Reading
  <2> QED BY <2>3, <2>4, <2>5, <2>6 DEF DeliveryInv
<1>2. DeliveryInv => DeliversTheReading
  <2> SUFFICES ASSUME DeliveryInv, CutsHeldBack(inbox, cuts)
               PROVE  IsPrefix(outbox, Reading(inbox)) /\ (stage = "done" => outbox = Reading(inbox))
    BY DEF DeliversTheReading
  <2>1. PICK mode : InMode(mode) /\ DeliveredIn(mode)
    BY DEF DeliveryInv
  <2>2. /\ inbox \in Seq(Inputs) /\ outbox \in Seq(Outputs) /\ Behind \in Nat
        /\ Len(inbox) \in Nat /\ Len(buffer) \in Nat /\ Marker \in {0, 1}
    BY LenProperties, MarkerFacts DEF DeliveryInv, Positions
  <2>3. Follows(inbox)
    BY <2>2 DEF Follows
  <2> DEFINE rest == ReadingFrom(inbox)[Behind + 1][mode]
  <2>4. Reading(inbox) = outbox \o rest
    BY <2>1, <2>3 DEF DeliveredIn
  <2>5. Behind + 1 \in 1..Len(inbox) + 1 /\ mode \in Modes
    BY <2>1, <2>2 DEF Behind, InMode
  <2>6. rest \in Seq(Outputs)
    BY <2>2, <2>5, ReadingTyped
  <2>7. stage = "done" => rest = <<>>
    <3> SUFFICES ASSUME stage = "done" PROVE rest = <<>>
      OBVIOUS
    <3>1. pc = "over" /\ buffer = <<>>
      BY DEF DeliveryInv, Places
    <3>2. Marker = 0 /\ Len(buffer) = 0
      BY <3>1, MarkerFacts, EmptySeq
    <3>3. Behind + 1 = Len(inbox) + 1
      BY <2>2, <3>2 DEF Behind
    <3> QED BY <2>2, <2>5, <3>3, ReadingCases
  <2> HIDE DEF rest
  <2>8. IsPrefix(outbox, Reading(inbox))
    BY <2>2, <2>4, <2>6, PrefixOf
  <2>9. outbox \o <<>> = outbox
    BY <2>2, ConcatEmptySeq
  <2> QED BY <2>4, <2>7, <2>8, <2>9
<1> QED BY <1>1, <1>2, DeliveryStep, PTL DEF Spec

=============================================================================
