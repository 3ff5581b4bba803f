\* Everything the service does, on one app.
SPECIFICATION Spec
CONSTANTS
    Apps = {a1}
    owner = owner
    other = other
    Users <- MCUsers
    Managers <- MCManagers
    Deciders <- MCDeciders
    Contents = {c1}
    ReviewIds = {r1, r2, r3}
    Requests = {h1}
    MaxLevels = 2
    Configs <- MCConfigs
    None = None
SYMMETRY MCSymmetry
INVARIANTS TypeOK OnePendingReview ChainOfApprovals
PROPERTIES DecisionsAreFinal DecisionsFollowPolicy
