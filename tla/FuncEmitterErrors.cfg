\* Programs with errors that the emitter diagnoses.
SPECIFICATION Spec
CONSTANTS
    Items = {1, 2}
    Blocks = {1, 2, 3, 4}
    MaxDepth = 4
    MaxScopes = 5
    Forms = {"Errors", "Duplicate"}
INVARIANTS FaultsReported
