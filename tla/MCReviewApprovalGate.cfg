\* Violated: an approval publishes what was edited in the queue, uncleared.
SPECIFICATION GatedSpec
CONSTANTS
    Apps = {a1}
    owner = owner
    other = other
    Users <- MCUsers
    Managers <- MCManagers
    Deciders <- MCDeciders
    Contents = {c1, c2}
    ReviewIds = {r1, r2}
    Requests = {h1}
    MaxLevels = 2
    Configs <- MCSettledConfigs
    None = None
PROPERTIES ApprovalPassesGate
