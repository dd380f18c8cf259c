SPECIFICATION Spec
CONSTANTS
  Calls = {"deposit", "fund", "join", "pow"}
  Claimers = {}
  Vouchers = {}
  Tickets = {t1, t2}
  Expiry = 1
  Owned = 2
  MaxNotes = 2
  MaxPool = 2
  MaxSigned = 1
  MaxOps = 3
  MaxHeight = 2
  MaxRestarts = 1
INVARIANTS StakeStays ReleasedInTime TicketsAccounted
