\* The recovery docs/MIGRATIONS.md describes, after an interrupted run.
CONSTANTS
    Absent = Absent
    c1 = c1
    v1 = v1
    v2 = v2
    r1 = r1
    r2 = r2
    Columns <- MCColumns
    Versions <- MCVersions
    CodeFiles = {1}
    CustomFiles = {1}
    MaxPrefix = 2
    Runs = {r1}
    Specs <- MCSpecs
    Requests <- MCRequests
    MaxDisturbances = 2
SPECIFICATION Spec
PROPERTIES DocumentedRecovery
CHECK_DEADLOCK FALSE
