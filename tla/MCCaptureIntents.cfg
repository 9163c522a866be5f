SPECIFICATION FairSpec
CONSTANTS
    g1 = g1
    g2 = g2
    a1 = a1
    a2 = a2
    b1 = b1
    Titles <- TwoGames
    Saves <- TwoAccounts
    TitleOf <- MCTitleOf
    Destinations = {"cloud", "local"}
    MaxVer = 2
    MaxPid = 2
    MaxMishaps = 1
    Torn = Torn
    None = None
CHECK_DEADLOCK FALSE
PROPERTY IntentsServed
INVARIANT TypeOK
INVARIANT SessionsRemembered
