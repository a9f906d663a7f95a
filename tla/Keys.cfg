SPECIFICATION Spec
CONSTANTS
    Passwords = {"p", "q"}
    Costs = {2, 3}
    Salts <- MCSalts
    Base = 2
    MaxContexts = 2
INVARIANTS
    TypeOK
    PasswordDecides
    ContextsReleased
