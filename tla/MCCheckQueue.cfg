SPECIFICATION FairSpec
CONSTANTS
    Workers = {w1, w2}
    Masters = {m1}
    NoThread = none
    nBatchSize = 2
    MaxAdd = 2
    MaxChecks = 4
INVARIANTS CountersMatch VerdictCorrect RoundsIndependent
PROPERTIES WaitReturns StopReturns
