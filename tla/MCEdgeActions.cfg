SPECIFICATION MCSpec
CONSTANTS
  S1 = S1
  S2 = S2
  Missing = Missing
  NoSecret = NoSecret
  NoURL = NoURL
  Lists <- MCLists
  Secrets <- MCSecrets
  Installs <- MCInstalls
  Budget = 5
  Timeout = 2
  RetryDelay = 1
  RetryAttempts = 3
  LogoutTimeout = 1
  O1 = O1
  O2 = O2
  Nas = Nas
  Lamp = Lamp
  Outlet2 = Outlet2
  Guest = Guest
  Ap = Ap
  NoBody = NoBody
  Writers = {W1, W2}
  ConsoleActions <- MCConsoleActions
  Consoles <- MCConsoles
  Bank <- MCBank
  Policies <- MCPolicies
  Patchings <- MCPatchings
  Names = {Lamp, Nas}
  Placeholder = {Outlet2}
  MaxWrites = 2
  MaxEdits = 1
  Mine = W1
  Manifests <- MCManifests
  Webhook = Webhook
  T1 = T1
  T2 = T2
  Triggers = {T1, T2}
  MaxStarts = 3
INVARIANTS
  AtMostOnce
  SessionsEnded
  WithinBudget
  ReportedAsItWent
  OffMeansOff
  
  NoSessionLeft
  OneRule
PROPERTIES
  OnlyTheAddressed
  AgreedWhenWritten
CHECK_DEADLOCK FALSE
