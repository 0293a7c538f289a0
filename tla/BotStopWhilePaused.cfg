\* A stop request to a paused session waits for a suspended ffmpeg.
SPECIFICATION FairSpec
CONSTANTS
    Handlers = {h1}
    TornReads = FALSE
PROPERTY StopFinalises
