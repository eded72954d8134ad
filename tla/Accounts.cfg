CONSTANTS
    alice = alice
    bob = bob
    i1 = i1
    i2 = i2
    Names = {alice, bob}
    Tokens = {USDT, GTECH, CRV}
    DefaultTokens = {USDT, GTECH}
    Payments = {p1, p2, p3}
    Invites = {i1, i2}
    Handlers = {h1, h2}
    Own <- OwnInvite
    Scenarios <- Looks
    MaxAsked = 2
    NoRow = NoRow
    NoPayment = NoPayment
    NoUser = NoUser
SPECIFICATION AccountsSpec
INVARIANTS InviteAdmitsOne UsersHaveRows RowsHaveUsers EnableRepairs
PROPERTIES BalancesFollow EthPaymentIsMined
CHECK_DEADLOCK FALSE
