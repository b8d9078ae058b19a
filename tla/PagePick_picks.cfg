SPECIFICATION Spec
CONSTANTS
    Scenes <- MCScenes
INVARIANTS FramePathRecovered ChainFitsPath StoredIsBest StableIsPreferred PointedFieldHasTheLead
CHECK_DEADLOCK FALSE
