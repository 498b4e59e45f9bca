CONSTANTS
    None = None
    Damaged = Damaged
    Sources <- Trees
    Outcome <- Reports
    Validators <- OneValidator
    SigningKeys = {k1, k2}
    k1 = k1
    k2 = k2
    MaxChanges = 1
    MaxExports = 2
    MaxEdits = 1
    MaxReports = 2
SPECIFICATION Spec
SYMMETRY KeySymmetry
INVARIANTS TypeOK VerifiedIsAsExported ReportedPassIsEarned
CHECK_DEADLOCK FALSE
