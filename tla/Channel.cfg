\* One task that both sends and receives and may be cancelled; a sender that may
\* close; another receiver, to whom a cancelled notified one can forward.
CONSTANTS
  Senders = {a, b}
  Receivers = {b, c}
  Closers = {a}
  Cancellable = {b}
  Capacity = 2
  NoTask = none
SPECIFICATION FairSpec
INVARIANTS NoStrandedValue NoStrandedSlot WakerExists CloseReachesAll
PROPERTY QueueFair
