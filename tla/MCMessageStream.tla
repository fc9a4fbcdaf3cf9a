-------------------------- MODULE MCMessageStream --------------------------
(* A small instance of MessageStream for TLC. *)
EXTENDS MessageStream

CONSTANTS t1, t2, a

MCTools == {t1, t2}
MCToolCalls == {a}
MCKeep  == <<3, 1>>

Text(s)  == [reasoning |-> FALSE, text |-> s, tools |-> <<>>]
Calls(s) == [reasoning |-> FALSE, text |-> <<>>, tools |-> s]
Args(t)  == [tool |-> t, args |-> TRUE]
Name(t)  == [tool |-> t, args |-> FALSE]

\* A whole tag with an attribute; tags cut in their name and after it, with and
\* without an attribute, the longer of which HoldBack does not cover; reasoning;
\* and tool calls alone, together and with text.
MCChunks == {
    Text(<<"word">>), Text(<<"open1", "open2", "word", "end">>), Text(<<"word", "open1">>),
    Text(<<"open2", "end", "word">>), Text(<<"open1", "open2", "word">>),
    Text(<<"word", "close1", "close2">>), Text(<<"end", "word">>),
    [Text(<<>>) EXCEPT !.reasoning = TRUE],
    Calls(<<Args(t1)>>), Calls(<<Name(t2), Args(t1)>>),
    [Text(<<"word">>) EXCEPT !.tools = <<Args(t2)>>]}

User      == [role |-> "user", calls |-> {}, answers |-> NoCall]
System    == [role |-> "system", calls |-> {}, answers |-> NoCall]
Says      == [role |-> "assistant", calls |-> {}, answers |-> NoCall]
Calling   == [role |-> "assistant", calls |-> {a}, answers |-> NoCall]
Answering == [role |-> "tool", calls |-> {}, answers |-> a]

\* Every conversation of 4 or 5 messages, well-ordered or not, and some that
\* begin with a system message.
MCConversations ==
    LET Ordinary == UNION {[1..n -> {User, Says, Calling, Answering}] : n \in 4..5}
    IN  Ordinary \cup {<<System>> \o c : c \in [1..4 -> {User, Calling, Answering}]}
=============================================================================
