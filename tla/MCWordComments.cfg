\* Two comments, and a word opened again while the first screen lives on or the
\* process is killed.
SPECIFICATION Spec
CONSTANTS
    Comments = {c1, c2}
    Screens = {s1, s2}
    NoScreen = NoScreen
    MaxBlocks = 3
    MaxRestarts = 1
INVARIANTS TypeOK RowsExist CommentsFresh
PROPERTY SavedCommentShown
