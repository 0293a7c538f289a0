\* A SIGTERM outside cleanup leaves ffmpeg and the browser behind.
SPECIFICATION Spec
CONSTANTS
    Handlers = {h1}
    TornReads = FALSE
INVARIANT CancelRunsCleanup
