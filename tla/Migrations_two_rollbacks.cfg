SPECIFICATION Spec
CONSTANTS
    Runners = {r1, r2}
    Latest = 3
    Bundles = {3}
    Roles = {"rollback"}
    MaxFaults = 0
    MaxRestarts = 0
PROPERTIES OnlyRecordedRolledBack
