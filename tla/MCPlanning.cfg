CONSTANTS
  None = None
  NoCategory = NoCategory
  checking = checking
  wallet = wallet
  pot = pot
  house = house
  trip = trip
  food = food
  market = market
  fruit = fruit
  Accounts = {checking, wallet}
  Pots = {pot}
  GoalIds = {house, trip}
  AllocationIds = {1, 2}
  Amounts = {1, 2}
  MaxBalance = 2
  Categories = {food, market, fruit}
  Months = {1, 2}
  Types = {"EXPENSE", "INCOME"}
  Files <- MCFiles
SPECIFICATION Spec
CONSTRAINT Scenes
SYMMETRY Alike
CHECK_DEADLOCK FALSE
INVARIANTS
  BackingIsReal
  LimitsAreApart
PROPERTIES
  PledgedOnce
