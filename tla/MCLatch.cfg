CONSTANTS
  a1 = a1
  a2 = a2
  a3 = a3
  b1 = b1
  Arrivers = {a1, a2, a3}
  Waiters = {b1}
  Amount <- MCAmount
  MaxExpected = 5
SPECIFICATION FairSpec
INVARIANTS NobodyPassesEarly OpenOrOpening NoArriverAfterReturn
PROPERTY WaitReturns
