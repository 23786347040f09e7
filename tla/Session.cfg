\* One client that sends anything, one terminal.
CONSTANTS
  Servers = {s1}
  Helpers = {h1}
  HelperModes = {"watch", "opened"}
  Messages <- AllMessages
  MaxMessages = 2
  MaxRow = 2
  Interactive = TRUE
SPECIFICATION FairSpec
INVARIANTS
  AnsweredInOrder
  HonestAnswers
  ApprovalServes
  AskedOnce
  ClosesWhenDecided
PROPERTIES
  MessagesEnd
  PendingIsAsked
