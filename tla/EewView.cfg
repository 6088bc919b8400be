SPECIFICATION Spec
CONSTANTS
    None = None
    NoQuake = NoQuake
    Absent = Absent
    Word = Word
    Body <- MCBody
    Query <- MCQuery
    Line <- MCLine
    MaxLines = 4
INVARIANT ListIsFaithful
INVARIANT EveryReportReached
INVARIANT DecodeAgrees
