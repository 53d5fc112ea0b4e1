SPECIFICATION FairSpec
CONSTANT Requests = {w1, w2}
PROPERTY CollisionsAreRetried
CHECK_DEADLOCK FALSE
