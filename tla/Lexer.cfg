\* Every text whose comments have a form the lexer handles.
SPECIFICATION FairSpec
CONSTANTS
    Alphabet = {"i", "f", "0", "space", "newline", "slash", "star", "equal", "amp", "plus"}
    MaxLength = 5
    Forms = {}
INVARIANTS TypeOK InText TokensMatch LocationsExact UnknownReported
PROPERTY Finishes
