SPECIFICATION Spec
CONSTANTS
  t1 = t1
  t2 = t2
  a = a
  NoTool = NoTool
  NoCall = NoCall
  ToolCalls <- MCToolCalls
  Tools <- MCTools
  Chunks <- MCChunks
  HoldBack = 2
  MaxChunks = 3
  Conversations <- MCConversations
  Keep <- MCKeep
  Attempts = 2
INVARIANTS TypeOK DeliversTheReading ToolArgumentsStayTogether ChatClientAssemblesTheCalls CompactedConversationIsWhole
PROPERTIES WellFramed
