\* Two calls for one slot: answers, slots that come back, and work within the limit.
\* Every call ends answered, so behaviours may stop.
CHECK_DEADLOCK FALSE
SPECIFICATION FairSpec
CONSTANTS
  c1 = c1
  c2 = c2
  Calls <- TwoCalls
  Limit = 1
INVARIANTS
  NoForgottenLease
  PlainAnswerIsFinal
  WorkKeepsSlot
PROPERTIES
  CallAnswered
  SlotComesBack
  WorkLimited
