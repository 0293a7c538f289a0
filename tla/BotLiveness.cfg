\* One handler is enough: it serves request after request. Reads are atomic.
SPECIFICATION FairSpec
CONSTANTS
    Handlers = {h1}
    TornReads = FALSE
PROPERTY StopIsHonoured
PROPERTY CancelIsHonoured
PROPERTY ResumeIsHonoured
PROPERTY SessionEnds
