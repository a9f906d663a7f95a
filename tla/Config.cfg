SPECIFICATION Spec
CONSTANTS
    b1 = b1
    b2 = b2
    None = None
    Bases = {b1, b2}
    Numbers <- MCNumbers
    RcLines <- MCRcLines
INVARIANTS
    TypeOK
    CommandLineWins
    CreatesAsked
    GeneratorFollows
