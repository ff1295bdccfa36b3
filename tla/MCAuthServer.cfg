SPECIFICATION RolloutSpec
CONSTANTS
    Jobs = {j1}
    None = None
    Script <- MCScript
    Approved <- MCApproved
    Bootstraps = {"b1", "b2", "b3"}
    PasswordOf <- MCPasswordOf
    Admin = Admin
    Client = Client
INVARIANTS
    SuccessesAgree
    ServesOnlyOnHead
PROPERTIES
    UsersOnlyOnHead
    ForwardedTermEnds
CHECK_DEADLOCK FALSE
