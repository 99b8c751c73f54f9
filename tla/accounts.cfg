CONSTANTS
    plain = plain
    capital = capital
    Ids = {g1, g2}
    Addresses <- MailAddresses
    Lower <- MailLower
    Passwords = {w1, w2}
    Tokens = {t1, t2}
    Procs = {p1, p2}
    None = None
    MaxServed = 4
    MaxChanges = 3
SPECIFICATION Spec
SYMMETRY AccountSymmetry
INVARIANT TypeOK
INVARIANT TokenHonoured
INVARIANT SessionsHonest
INVARIANT RegisteredFound
