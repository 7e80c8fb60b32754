\* Five levels in words of two bits: two full words and one of a single bit.  Two
\* orders are enough to move the best level from any word to any other; prices on
\* both sides of the ladder, quantity 0, ids in use and unknown ids are refused.
CONSTANTS
  OrderIds = {o1, o2}
  kInvalidOrderId = none
  Accounts = {1}
  Prices = {3, 4, 5, 6, 7, 8, 9}
  Quantities = {0, 1}
  TimesInForce = {"Gtc"}
  MinPrice = 4
  MaxPrice = 8
  QtyModulus = 16
  WordBits = 2
SPECIFICATION LadderSpec
INVARIANTS WordsAgree WalkVisitsAll
PROPERTIES ImplementsPriceTime CallReturns
