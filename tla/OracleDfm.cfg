\* Every format / date string of up to five characters over MCAlphabet.
\* INT32_MAX is scaled to 1221 so that four digits reach it: 1221 fits and
\* 1222 overflows at its last digit, as 2147483647 and 2147483648 do.
CONSTANTS
    Alphabet <- MCAlphabet
    MaxLen = 5
    INT32_MAX = 1221
INIT Init
NEXT Next
INVARIANTS
    ParseFormatTokenizes
    CheckSemanticEnforcesRules
    IntValueReadsNumber
    CommaValueReadsDigits
    SprintfFollowsFormatCase
