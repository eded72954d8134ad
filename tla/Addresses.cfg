CONSTANTS
    Users = {u1, u2}
    Exchange = exchange
    Outputs = {o1, o2}
    Operators = {p1, p2}
    Depths = {1}
    MaxAddresses = 3
    MaxInbox = 3
    Mixes <- MCMixes
SYMMETRY MCSymmetry
SPECIFICATION AddressSpec
INVARIANTS CreditedToPayee DepositsAreCredited
CHECK_DEADLOCK FALSE
