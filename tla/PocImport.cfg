SPECIFICATION PocImportSpec
CONSTANTS
    ImportPocs = {"p1"}
    ImportKeys = {"k1", "k2"}
    ImportCallers = {"c1", "c2"}
    Labels = {"l1", "l2"}
    RunIds = {"r1"}
    Digests = {"d1", "d2"}
    PackReaders = {"v1"}
    MaxImports = 2
    MaxRootSteps = 1
    MaxPackSteps = 2
INVARIANTS
    KeyNamesOneImport
