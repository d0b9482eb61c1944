SPECIFICATION FairSpec
CONSTANTS
    Tiers <- MCTiers
    Order <- MCOrder
    Providers <- MCProviders
    NKeys <- MCNKeys
    Cascade <- MCCascade
    Questions = {"release"}
    Rpm = 1
    Window = 2
    MaxAttempts = 2
    Cooldown = 1
    AuthCooldown = 1
    RunTime = 2
    CacheSize = 2
    MaxDrafts = 2
    MaxPaid = 2
    MaxAnswers = 2
INVARIANTS WindowBounded FailedMeansAllTried SpendingBounded
PROPERTIES SpentKeysRest AlwaysAnswered
CHECK_DEADLOCK FALSE
