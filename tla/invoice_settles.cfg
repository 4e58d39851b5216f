\* Overlapping deliveries and presses on one charge, failing and dying at any step.
SPECIFICATION FairSpec
CONSTANTS
  m1 = m1
  m2 = m2
  m3 = m3
  y1 = y1
  y2 = y2
  Calls = {c1, c2}
  Kinds = {"webhook", "press"}
  Payments = {m2}
  Free = {}
  Years = {y1, y2}
  YearOf <- MCYearOf
  NoCall = NoCall
  NoPayment = NoPayment
  MaxFaults = 1
INVARIANTS
  MailedOnce
  CompletedIsTold
PROPERTIES
  NobodyWedged
CHECK_DEADLOCK FALSE
