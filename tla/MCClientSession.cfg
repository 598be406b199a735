SPECIFICATION FairSpec
INVARIANTS SomebodyWillAnswer
PROPERTIES HostLeftIsFinal BackoffKept ConnectingEnds RetryFollows
