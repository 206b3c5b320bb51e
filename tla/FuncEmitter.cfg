\* Functions without the unhandled forms: nested ifs, ternaries in ifs, any operators.
SPECIFICATION Spec
CONSTANTS
    Items = {1, 2}
    Blocks = {1, 2, 3, 4, 5, 6, 7}
    MaxDepth = 5
    MaxScopes = 6
    Forms = {}
INVARIANTS TypeOK ModuleValid DestroyedOnce HeldMatches ScopesMatch NoCrash
