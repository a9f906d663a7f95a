SPECIFICATION FairSpec
CONSTANTS
    f1 = f1
    f2 = f2
    pw1 = pw1
    pw2 = pw2
    s1 = s1
    s2 = s2
    r1 = r1
    r2 = r2
    NoKey = NoKey
    NoName = NoName
    Files <- OneFile
    Passwords <- TwoPasswords
    Salts <- TwoSalts
    Records <- OneRecord
PROPERTY GlueEnds
