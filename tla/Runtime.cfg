CONSTANTS
    Clients = {c1, c2}
    From = {ETH}
    Other = {}
    Users = {alice, bob}
    MaxRate = 1
    MaxChallenges = 2
    Scenarios = {{"error", "change"}, {"partial", "change"}, {"keys", "error"}}
    Free = Free
SPECIFICATION RuntimeSpec
INVARIANTS TickerIsDecoded
PROPERTIES RatesNeverGoBack ChallengeOnce StaleRatesGo EveryoneIsServed
CHECK_DEADLOCK FALSE
