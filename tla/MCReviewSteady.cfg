\* A settled workflow whose handlers are not interrupted.
SPECIFICATION SteadySpec
CONSTANTS
    Apps = {a1}
    owner = owner
    other = other
    Users <- MCUsers
    Managers <- MCManagers
    Deciders <- MCDeciders
    Contents = {c1}
    ReviewIds = {r1, r2}
    Requests = {h1, h2}
    MaxLevels = 2
    Configs <- MCSettledConfigs
    None = None
PROPERTIES EditedRejectionIsRequeued
