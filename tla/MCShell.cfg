CONSTANTS
    Huge = Huge
    Overflow = Huge
    Program <- MCProgram
    Stoi <- MCStoi
    Numeral <- MCNumeral
    Lines <- MCLines
    MaxLogs = 2
SPECIFICATION Spec
INVARIANTS TypeOK FailuresRecorded ExecByFormat
