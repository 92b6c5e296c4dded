SPECIFICATION Spec
CONSTANTS
    MaxParagraphs = 3
    MaxLength = 5
    MaxSize = 6
    Layouts <- Documents
    Limits <- Sizes
INVARIANTS NothingDropped PiecesGoOn
\* the text comes to an end
CHECK_DEADLOCK FALSE
