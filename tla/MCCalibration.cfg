CONSTANTS
    Item = {i1, i2}
    Critical = {i1}
    Owner = {o1}
    OwnersOf <- MCOwnersOf
    Unread = Unread
    Rev = {B, C}
    NoRev = NoRev
    Quantity = {q1, q2}
    Word = {w1}
    Standard = {std, std2}
    About <- MCAbout
    Milestone = {m1}
    Today = 2
    Both = Both
    Ghost = Ghost
    Invented = Invented
    Case <- MCCase
    Note <- MCNote
    File = {f1, f2}
    Retries = 1
    MaxMoves = 1
    MaxTrouble = 2
    B = B
    C = C
    q1 = q1
    q2 = q2
    w1 = w1
    std = std
    std2 = std2
    m1 = m1
    i1 = i1
    i2 = i2
    o1 = o1
    f1 = f1
    f2 = f2
    NoFile = NoFile
    MaxPlanned = 4
SPECIFICATION TrialSpec
INVARIANTS
    HonestRunsPass
    CalibrationIsOk
    MovedDataIsDrift
    ReplaysAreJudgedRight
    NeverAGuess
    PlansOnlyRead
