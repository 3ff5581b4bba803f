\* Settings saved one at a time, owners editing, two refreshes in flight.
SPECIFICATION OrderlySpec
CONSTANTS
    Apps = {a1}
    Contents = {c1, c2}
    RemoteIds = {r1}
    here = here
    there = there
    keyHere = keyHere
    keyThere = keyThere
    Deployments = {here, there}
    Home <- MCHome
    Keys = {keyHere, keyThere}
    Issuer <- MCIssuer
    Refreshers = {h1, h2}
    Savers = {s1, s2}
    MaxRotations = 1
    MaxRevision = 3
    None = None
SYMMETRY MCSymmetry
INVARIANTS TypeOK VerifiedContent VerifiedBySecCheckInUse CredentialStaysHome
PROPERTIES AttestationKept
