SPECIFICATION Spec
CONSTANTS
    a1 = a1
    a2 = a2
    b1 = b1
    A = A
    B = B
    None = None
    Obj = {a1}
    Class = {A}
    ClassOf <- MCClassOf
    FieldClass <- MCFieldClass
    Forms = {"SelfValue"}
    MaxStack = 4
INVARIANT NoUseAfterFree
