CONSTANTS
    Replicas = {r1}
    Handlers = {h1}
    Bodies = {b1, b2}
    NoBody = NoBody
    MaxFailures = 1
SPECIFICATION FairSpec
INVARIANTS TypeOK SentRecordIsTrue
PROPERTIES UnfinishedIsHandled
