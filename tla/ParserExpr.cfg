SPECIFICATION Spec
CONSTANTS
    Tokens = {"access", "var", "ident", "literal", "lparen", "rparen", "comma", "colon", "semicolon", "dot", "star", "plus", "less", "equal", "and", "question", "assign", "minus", "not"}
    MaxDepth = 8
INVARIANTS PrecedenceKept BracketsMatch
