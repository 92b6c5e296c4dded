SPECIFICATION KSpec
CONSTANTS
    None = None
    auto = auto
    gen = gen
    whole = whole
    small = small
    other = other
    job1 = job1
    job2 = job2
    Jobs = {job1, job2}
    Paths = {1, 2}
    Texts = {auto, gen}
    Settings = {whole, small, other}
    Legacy = {other}
    Setting <- JobSetting
    Pieces <- Cut
    Product <- TextProduct
    Category <- TextCategory
    MaxEdits = 1
    Serving = small
    Model <- ModelOf
    Dim <- DimOf
    Cosine <- Similarities
    Terms <- Counts
    Coverage <- Covered
    MinScore = 22
    CandidatePool = 3
INVARIANTS BaseIsImage SearchIsTopK
PROPERTIES SyncedUnlessOvertaken EveryJobEnds
\* every job comes to an end
CHECK_DEADLOCK FALSE
