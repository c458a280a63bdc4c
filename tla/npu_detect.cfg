SPECIFICATION FairSpec
CONSTANT MaxFrames = 6
INVARIANTS WholeFrames NoLostWakeup
PROPERTIES FrameTaken IsMailbox
