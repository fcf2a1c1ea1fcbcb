\* Every component, script and plugin, one at a time.
SPECIFICATION Spec
CONSTANTS
    Call = {c1, c2, c3}
    WordsToAnimate <- MCWords
    Lines <- WorkflowLines
    Quantities = {1, 2}
    Icons = {1, 2}
    Layouts <- MCLayouts
    Sizes <- MCSizes
    numSquares = 2
    MaxWrites = 2
    GridSizes = {0, 1, 2}
    Ranges <- MCRanges
    timeoutMs = 2
    MaxEvents = 2
    MaxTokens = 5
    MaxLines = 2
    MaxLine = 4
INVARIANTS
    OneFlow HelperStartsNoFlow
    NothingAfterUnmount RegisteredOnce
    TextInOrder
    CirclesKept StoppedWhenDrawn RetroLoop PipelineReleased
    DrawingFits OrnamentsFit TileSeamless
    NavigationAgrees CopiedIsTakenBack TreeShows
    TokensAreTheLine QuotedHashIsCode
    WaitIsHonest DiagramsKept CommitHasSubject
PROPERTIES
    EverythingShown WaitSettles BusyIsReleased
CHECK_DEADLOCK FALSE
