CONSTANTS
    c1 = c1
    c2 = c2
    c3 = c3
    ann = ann
    bob = bob
    Logout = Logout
    Nobody = Nobody
    Command = {c1, c2, c3}
    Email = {ann, bob}
    Secret = {"password", "code"}
    Errands <- Started
SPECIFICATION Spec
INVARIANTS
    SessionsAreEarned
    CopiedIsDue
CHECK_DEADLOCK FALSE
