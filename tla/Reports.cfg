SPECIFICATION Spec
CONSTANTS
    client = client
    sub1 = sub1
    sub2 = sub2
    None = None
    Accounts = {sub1, sub2}
    UserOf <- MCUserOf
    Legs = {1, 2, 3}
    LegInfo <- MCLegInfo
    Strategies = {1, 2, 3}
    Owner <- MCOwner
    FirstBox <- MCFirstBox
    CtVal <- MCCtVal
    Price <- MCPrice
    Held <- MCHeld
    Upl <- MCUpl
    DayLength = 2
    SettleAt = 1
    MonthLength = 1
    YearLength = 2
    Tolerance = 0
    Horizon = 3
    MaxSnapshots = 3
    MaxMoves = 1
INVARIANTS
    BooksAgree
    PiecesMakeTheWhole
    ChartIsRight
    FillsFindTheirLeg
PROPERTIES
    SettledRatesStay
