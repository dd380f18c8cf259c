SPECIFICATION Spec
CONSTANTS
  Calls = {"transfer", "unpaid", "claim", "join"}
  Claimers = {c1, c2}
  Vouchers = {1, 2}
  Tickets = {}
  Expiry = 1
  Owned = 2
  MaxNotes = 3
  MaxPool = 2
  MaxSigned = 0
  MaxOps = 0
  MaxHeight = 2
  MaxRestarts = 1
INVARIANTS TypeOK FundedOnce ReservedUntilLanded ReservationEnds VoucherPaidOnce
