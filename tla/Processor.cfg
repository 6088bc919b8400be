SPECIFICATION Spec
CONSTANTS
    q1 = q1
    q2 = q2
    all = all
    limited = limited
    NoQuake = NoQuake
    NoTelegram = NoTelegram
    NoPath = NoPath
    Telegram <- MCTelegram
    All <- MCAll
    Limited <- MCLimited
    MaxTelegrams = 3
    MaxTime = 1
    MaxCrashes = 1
INVARIANT TypeOK
INVARIANT FinalsAreWhole
INVARIANT ToldMeansArchived
INVARIANT LimitedHearOfEveryQuake
PROPERTY StaysOnDisk
