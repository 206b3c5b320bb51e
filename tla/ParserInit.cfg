SPECIFICATION Spec
CONSTANTS
    Tokens = {"access", "func", "var", "class", "init", "external", "return", "if", "else", "type", "void", "ident", "literal", "lparen", "rparen", "lbrace", "rbrace", "comma", "colon", "semicolon", "arrow", "dot", "star", "question", "assign", "minus", "not"}
    MaxDepth = 6
INVARIANT VariablesHaveInit
