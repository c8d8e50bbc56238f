\* A panel of two cells whose BUSY may outlast the wait; callers that refresh in full first.
SPECIFICATION FairSpec
CONSTANTS
    Width = 10
    Height = 1
    Rects <- MCRects
    Inks = {black, white}
    White = white
    FullFirst = TRUE
    SlowPanel = TRUE
INVARIANTS
    NoCommandLost
    PanelShowsFlushed
PROPERTIES
    RightWaveform
    BaselineInSync
    ImplementsDisplay
    CallReturns
CHECK_DEADLOCK FALSE
