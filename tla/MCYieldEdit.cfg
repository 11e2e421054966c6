CONSTANTS
  None = None
  Undated = Undated
  fund = fund
  pot = pot
  miles = miles
  stars = stars
  euro = euro
  real = real
  Pairs = {fund, pot}
  UnitPairs = {fund}
  OpIds = {1, 2, 3}
  EntryIds = {1, 2, 3}
  RedemptionIds = {1}
  Programs = {miles, stars}
  Currencies = {euro, real}
  Dates = {1, 2}
  Currency <- MCCurrency
  OperationForms <- MCOperations
  EntryForms <- MCEntries
  RedemptionForms <- MCRedemptions
  Openings <- MCOpenings
  RateForms <- MCRates
SPECIFICATION HoldingsSpec
CONSTRAINT Scenes
CHECK_DEADLOCK FALSE
PROPERTY DescriptiveEditsKeepEvidence
