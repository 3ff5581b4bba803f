\* Violated: two apps record one review at once, one wears the other's.
SPECIFICATION Spec
CONSTANTS
    Apps = {a1, a2}
    Contents = {c1, c2}
    RemoteIds = {r1}
    here = here
    there = there
    keyHere = keyHere
    keyThere = keyThere
    Deployments = {here}
    Home <- MCHome
    Keys = {keyHere}
    Issuer <- MCIssuer
    Refreshers = {h1, h2}
    Savers = {s1}
    MaxRotations = 0
    MaxRevision = 2
    None = None
SYMMETRY MCSymmetry
INVARIANTS LabelOfOwnReview
