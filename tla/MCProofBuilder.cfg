CONSTANTS
    NumReceipts = 300
    Absent = Absent
SPECIFICATION Spec
INVARIANT ProvableAtIndex
