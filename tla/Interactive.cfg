CONSTANT MaxCycles = 8
SPECIFICATION FairSpec
INVARIANT TypeOK
INVARIANT AnswerMatchesRequest
INVARIANT PredictsUpToDate
INVARIANT BacklogBounded
PROPERTY RequestsEnd
PROPERTY UserEnds
