\* Two calls at once on three payments of two years; or the pages of two plans, of one
\* app at two domains, of the month ends of a year, of one restaurant's backups over three days.
SPECIFICATION MCSpec
CONSTANTS
  m1 = m1
  m2 = m2
  m3 = m3
  y1 = y1
  y2 = y2
  Calls = {c1, c2}
  Kinds = {"press"}
  Payments = {m1, m2, m3}
  Free = {}
  Years = {y1, y2}
  YearOf <- MCYearOf
  NoCall = NoCall
  NoPayment = NoPayment
  MaxFaults = 0
  Plans = {1, 2}
  MaxRows = 3
  FirstWindow = 2
  BookWindow = 1
  HistoryCap = 2
  HistoryLimit = 1
  Hosts = {"a.nl", "b.nl"}
  BadHost = "bad"
  NoHost = "none"
  Looks <- MCLooks
  Intervals = {1, 3, 12}
  TrialMonths = 1
  MonthsAhead = 2
  NoDate = NoDate
  House = house
  LastDay = 3
  NoDay = NoDay
  StaleAfter = 1
  UnprotectedAfter = 2
  QuietAfter = 1
  OffBoxAfter = 1
  Window = 2
  TrialDay = 2
  CopiesShown = 1
SYMMETRY Symmetry
PROPERTIES
  IsBook
  ScreensAgree
CHECK_DEADLOCK FALSE
