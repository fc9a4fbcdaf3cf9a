----------------------------- MODULE Compaction -----------------------------
(***************************************************************************)
(* compact_messages: what is left of a conversation that exceeded the      *)
(* context window of the upstream model.  A message is a record of its     *)
(* role, the tool calls it makes (assistant) and the call it answers       *)
(* (tool); its text is abstracted.                                         *)
(***************************************************************************)
EXTENDS Naturals, SequencesExt, Selection

CONSTANTS
    ToolCalls,  \* ids of tool calls
    NoCall      \* a message without tool_call_id

Roles   == {"system", "user", "assistant", "tool"}
Message == [role : Roles, calls : SUBSET ToolCalls, answers : ToolCalls \cup {NoCall}]

\* Indexes of the conversation at which a user message stands.
SafePoints(c) == {i \in 1..Len(c) : c[i].role = "user"}

\* The first safe point that keeps at most keep messages; failing one, the
\* first user message; without users, the last keep messages.
CutPoint(c, keep) ==
    LET near == {i \in SafePoints(c) : i >= Len(c) - keep + 1}
    IN  IF SafePoints(c) = {} THEN Len(c) - keep + 1
        ELSE IF near = {} THEN Min(SafePoints(c))
        ELSE Min(near)

\* The assistant messages from index i on that make a call.
Callers(c, i, call) == {j \in i..Len(c) : c[j].role = "assistant" /\ call \in c[j].calls}

\* Tool messages from cut on whose caller was cut off, or does not exist.
Answers(c, cut) == {i \in cut..Len(c) : c[i].role = "tool" /\ c[i].answers # NoCall}
CutOff(c, cut)  == {i \in Answers(c, cut) : /\ Callers(c, cut, c[i].answers) = {}
                                            /\ Callers(c, 1, c[i].answers) # {}}
Nowhere(c)      == {i \in Answers(c, 1) : Callers(c, 1, c[i].answers) = {}}

\* Mutant: an answer whose caller was cut off does not move the cut back.
WidenedNever(c, cut) == cut

\* The cut point moves back to the caller of each answer until none is cut off.
Widened(c, cut) ==
    LET Back[i \in 1..Len(c) + 1] ==
            IF CutOff(c, i) = {} THEN i
            ELSE Back[Min(Callers(c, 1, c[Min(CutOff(c, i))].answers))]
    IN  Back[cut]

CompactMessages(messages, keep) ==
    LET system == {i \in DOMAIN messages : messages[i].role = "system"}
        c      == Picked(messages, DOMAIN messages \ system)
        cut    == Widened(c, CutPoint(c, keep))
        gone   == {c[i].answers : i \in Nowhere(c)}
        kept   == {i \in cut..Len(c) : c[i].role = "tool" => c[i].answers \notin gone}
    IN  IF Len(messages) <= keep \/ Len(c) <= keep THEN messages
        ELSE Picked(messages, system) \o Picked(c, kept)
=============================================================================
