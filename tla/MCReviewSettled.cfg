\* A settled workflow: two handlers in flight, one or two levels.
SPECIFICATION SettledSpec
CONSTANTS
    Apps = {a1}
    owner = owner
    other = other
    Users <- MCUsers
    Managers <- MCManagers
    Deciders <- MCDeciders
    Contents = {c1}
    ReviewIds = {r1, r2, r3}
    Requests = {h1, h2}
    MaxLevels = 2
    Configs <- MCSettledConfigs
    None = None
SYMMETRY MCSymmetry
INVARIANTS QueueAgrees PublishedWasApproved
PROPERTIES RejectedIsNotPublished ApprovalKept
