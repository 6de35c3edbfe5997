CONSTANT QueueingTimes <- MCQueueingTimes
SPECIFICATION HopsSpec
INVARIANT ErrorBounded
PROPERTY NeverProlonged
