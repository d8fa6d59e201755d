SPECIFICATION FairSpec
CONSTANTS
  MAX_CHAT_MESSAGES = 2
  MaxText = 1
  MaxLines = 2
INVARIANTS
  SameConversation
PROPERTIES
  ChatArrives

\* Players may fall silent.
CHECK_DEADLOCK FALSE
