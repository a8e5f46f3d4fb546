SPECIFICATION AccountsSpec
CONSTANTS
  Pairs = {p1, p2, p3}
  Callers = {c1, c2}
  NoPair = NoPair
  Payments = {"first", "second"}
  Workers = {w1, w2}
  NoPayment = "none"
  Plan <- PlanDef
  Days <- DaysDef
  MaxUses = 1
  Horizon = 4
SYMMETRY Symmetry
INVARIANTS
  SavedRenewable RenewedOnce FileIsMemory
  GrantedOnce EveryDayPaid GateBacked PromoCounted
CHECK_DEADLOCK FALSE
