SPECIFICATION FairSpec
CONSTANTS
    MaxUtterances = 3
    Chunks = 1
INVARIANTS StatementsDrained OneVoice InterruptedIsFinal TranscriptTold SettlesInConversation AnsweredInStep
PROPERTY EveryTurnEnds
CHECK_DEADLOCK FALSE
