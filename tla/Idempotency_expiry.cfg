SPECIFICATION Spec
CONSTANTS
    Requests = {r1, r2, r3}
    Replicas = {p1}
    Routes = {remember, reinforce}
    CheckFails = 0
    SaveFails = 0
    Ages = 1
    CanOversize = FALSE
INVARIANTS ReusedKeyDeduplicated
