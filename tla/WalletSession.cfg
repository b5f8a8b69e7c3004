SPECIFICATION WalletSpec
CONSTANTS
  a1 = a1
  a2 = a2
  Account = {a1, a2}
  MaxConns = 2
  MaxRetries = 1
  MaxEvents = 3
INVARIANTS CredsOfTheirAccount OneConnect ScreenIsDriven QuietWipeHolds
PROPERTIES CancelSticks RestoreAnswersItsAccount PruneSparesStored
SYMMETRY Accounts
