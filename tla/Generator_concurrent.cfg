\* Two runs at once on the same project, with an edit or a crash.
CONSTANTS
    Absent = Absent
    c1 = c1
    v1 = v1
    v2 = v2
    r1 = r1
    r2 = r2
    Columns <- MCColumns
    Versions <- MCVersions
    CodeFiles = {1}
    CustomFiles = {1}
    MaxPrefix = 1
    Runs = {r1, r2}
    Specs <- MCTwoSpecs
    Requests <- MCRealRequests
    MaxDisturbances = 1
SYMMETRY MCSymmetry
SPECIFICATION Spec
INVARIANTS HistoryBacksSnapshot
CHECK_DEADLOCK FALSE
