SPECIFICATION Spec
INVARIANT RepliesOnce
INVARIANT EndsWhatItBegins
INVARIANT ErrorsAreTold
INVARIANT NothingUntested
