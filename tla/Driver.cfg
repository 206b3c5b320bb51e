SPECIFICATION Spec
CONSTANTS
    Files = {source, out}
    Default = out
    Forms = {}
INVARIANTS TypeOK ExitTellsTruth MachineKnown ModuleKnown
PROPERTIES FilesSafe Finishes
