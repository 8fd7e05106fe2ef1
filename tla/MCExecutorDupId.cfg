CONSTANTS
    Scripts = {s1, s2, s3}
    Ids = {1, 2}
    NoId = NoId
    NoChan = NoChan
    MaxEvents = 2
SPECIFICATION Spec
INVARIANT OwnChannelOpen
