SPECIFICATION Spec
CONSTANTS
    Tokens = {"access", "func", "var", "class", "init", "external", "return", "if", "else", "type", "void", "ident", "lparen", "rparen", "lbrace", "rbrace", "comma", "colon", "semicolon", "arrow", "assign", "minus", "not"}
    MaxDepth = 7
INVARIANTS TypeOK NullReported BracketsMatch OverrunReported
PROPERTY Progress
