SPECIFICATION Spec
CONSTANTS
    r1 = r1  r2 = r2  r3 = r3
    Requests <- ThreeRequests
    Acls <- TwoAcls
    MaxVersions = 3
    MaxRevisions = 2
SYMMETRY Symmetry
INVARIANTS
    TypeOK
    RowsAgree
    WithdrawalHolds
CHECK_DEADLOCK FALSE
