SPECIFICATION Spec
CONSTANTS
    p1 = p1
    p2 = p2
    milter = milter
    mail = mail
    wheel = wheel
    Root = Root
    NoAccount = NoAccount
    NoGid = NoGid
    Account = {milter}
    Gid = {mail, wheel}
    GidOf <- MCGidOf
    NoProc = NoProc
    NoFile = NoFile
    Proc = {p1}
    File = {1, 2}
    Options <- PlainOptions
PROPERTIES
    StopEnds
