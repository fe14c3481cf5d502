SPECIFICATION Spec
CONSTANTS
    Nil = Nil
    Sizes = {0, 1, 2}
    Pages <- MCPages
    Accounts <- MCAccounts
    Hex <- MCHex
    Headers <- MCHeaders
INVARIANT PagesOpenAtRoot
CHECK_DEADLOCK FALSE
