SPECIFICATION PayersSpec
CONSTANTS
  Offers <- MCOffers
  Units = {"pop1", "pop2"}
  Mints = {"mint", "elsewhere"}
  Mint = "mint"
  Unit = "pop1"
  Balance = 8
  Caps = {2, 3}
  NoCap = NoCap
  NoUnit = "no unit"
  None = None
INVARIANTS PayersTypeOK WithinBudget EchoVerifies
