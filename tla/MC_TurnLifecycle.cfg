\* Three messages, two chats: a turn, one queued behind it, and a direct send.
SPECIFICATION Spec
CONSTANTS
  Msgs = {m1, m2, m3}
  Chats = {c1, c2}
  FirstChat = c1
  Nothing = Nothing
  MaxNav = 2
  MaxStops = 1
  MaxOther = 1
  MaxReruns = 1
INVARIANTS TypeOK OneTurn TurnIsLeased LeaseIsInUse QueueIsServed SentWhereWrittenUnlessRaced
SYMMETRY AnyMessage
CHECK_DEADLOCK FALSE
CONSTRAINT SwitchesOrRerun
