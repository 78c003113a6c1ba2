CONSTANTS
  wizard = wizard
  page = page
  script = script
  p1 = p1
  p2 = p2
  r1 = r1
  r2 = r2
  k1 = k1
  k2 = k2
  None = None
  Callers = {wizard, page, script}
  Wizard = wizard
  Page = page
  Script = script
  Cases = {1, 2}
  Applicants = {1, 2, 3}
  Passports = {p1, p2}
  Clients = {k1, k2}
  Routes = {r1, r2}
  RouteConfig <- MCRouteConfig
  TravelDates = {38}
  Expiries = {10, 40}
  Born <- MCBorn
  Scripted <- MCScripted
  MaxSaves = 3
  MaxTries = 2
  MaxList = 2
  MaxPage = 1
  MaxScript = 1
  MaxLost = 1
  MaxOther = 1
SPECIFICATION Spec
INVARIANTS
  ConsoleTypeOK
  ReadyCaseIsBookable
  LinksResolve
  OnePersonPerPassport
  OnePrimaryInForm
  
  TwinOnlyAfterLoss
CHECK_DEADLOCK FALSE
