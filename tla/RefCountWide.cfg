SPECIFICATION Spec
CONSTANTS
    a1 = a1
    a2 = a2
    b1 = b1
    A = A
    B = B
    None = None
    Obj = {a1, a2, b1}
    Class = {A, B}
    ClassOf <- MCClassOf
    FieldClass <- MCFieldClass
    Forms = {}
    MaxStack = 6
SYMMETRY MCSymmetry
INVARIANTS
    TypeOK
    CountExact
    NoUseAfterFree
    NoLeak
    SelfAlive
