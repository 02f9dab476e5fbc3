SPECIFICATION TillSpec
CONSTANTS
  Desks = {d1, d2}
  Kinds = {"GST", "NON_GST"}
  Baskets <- TillBaskets
  Price = 2
  AmountPerPoint = 2
  Sessions = 2
  NoRow = NoRow
  Idle = Idle
  Nobody = Nobody
  MaxBills = 3
  MaxRequests = 4
  Lines = {l1, l2}
  MaxEntryStarts = 4
  Products = {p1, p2}
  Ordered = 2
  MaxOrders = 3
  MaxFaults = 1
  Plans = {s1, s2}
  Duration = 1
  Quantity = 1
  MaxDays = 2
  MaxSold = 2
  MaxUses = 2
  Lots = {l1, l2}
  Worth = 2
  MaxPointStarts = 3
  MaxDeaths = 1
SYMMETRY DeskSymmetry
CHECK_DEADLOCK FALSE
INVARIANTS NumbersConsecutive AppointmentMatchesBill MoneyAddsUp UsedIsBilled
INVARIANTS SlipPaysWhatItMarks StockIsExplained MembershipAddsUp PointsAddUp
