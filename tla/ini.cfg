CONSTANTS
    Lines <- MCLines
    MaxLines = 3
    TextMax = 4
    CommentMax = 5
SPECIFICATION Spec
INVARIANTS
    ScansWithinBuffer
    ParsedAsWritten
    DamageIsLocal
