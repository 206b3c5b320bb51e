SPECIFICATION Spec
CONSTANTS
    Names = {a, b}
    Decls <- MCDecls
    MaxDecls = 3
    Forms = {}
SYMMETRY Symmetry
INVARIANTS TypeOK ForwardTypes OneBody LinkageKept UsesSeen
PROPERTY KeepsLifecycle
