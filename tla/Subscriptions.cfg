SPECIFICATION Spec
CONSTANTS
    w1 = w1
    w2 = w2
    t1 = t1
    t2 = t2
    Workspaces <- TwoWorkspaces
    Users = {u1}
    Tasks <- TwoTasks
    Tiers = {"Free", "Plus"}
    Paid = {"Plus"}
    None = none
    MaxRows = 2
    MaxCustomers = 2
    MaxPayments = 2
    MaxAtStripe = 2
    MaxAsks = 2
    MaxAgain = 1
    MaxCrashes = 1
INVARIANTS StripeStaysHome PaymentFindsWorkspace PaymentNotForgotten
CHECK_DEADLOCK FALSE
SYMMETRY Symmetry
