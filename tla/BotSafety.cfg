\* All interleavings of two HTTP handlers, Redis, SIGTERM and ffmpeg, with torn reads.
SPECIFICATION Spec
CONSTANTS
    Handlers = {h1, h2}
    TornReads = TRUE
SYMMETRY HandlerSymmetry
INVARIANT NothingLeftBehind
INVARIANT RecordingIsLive
INVARIANT CompleteAfterRecording
INVARIANT FailedMeansError
INVARIANT SuccessMeansRecorded
PROPERTY ImplementsLifecycle
PROPERTY ImplementsSetup
