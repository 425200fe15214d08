SPECIFICATION Spec
CONSTANTS
    jon = jon
    john = john
    ext = ext
    NoAddr = NoAddr
    Addr <- MCAddr
    Foreign = {ext}
    NgramClose <- MCNgramClose
    WordClose <- MCWordClose
    Conf = {1, 2}
    Autofix <- MCAutofix
    Offers <- AllOffers
    MaxRcpt = 3
    MaxRefresh = 1
INVARIANTS
    NeverLost
