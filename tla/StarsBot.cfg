\* Two invoices, one restart.
SPECIFICATION FairSpec
CONSTANTS
  c1 = c1  c2 = c2
  Null = Null
  Charges <- TwoCharges
  Attempts = 2
  MaxRestarts = 1
INVARIANTS PaymentHeld CreditedOnce
PROPERTIES DeliveryKept
CHECK_DEADLOCK FALSE
