SPECIFICATION Spec
CONSTANTS
    Names = {a, b}
    Decls <- MCDecls
    MaxDecls = 2
    Forms = {}
INVARIANT CtorsCalled
