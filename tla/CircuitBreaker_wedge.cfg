SPECIFICATION FairSpec
CONSTANTS
    Sends = {s1, s2, s3}
    Threshold = 2
    AllowReset = TRUE
    NoSend = NoSend
PROPERTIES ProbeGoesThrough
