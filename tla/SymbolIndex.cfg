\* A symbol is added in front of those that are inside of it.
SPECIFICATION Spec
CONSTANTS
  Offers <- MCOffers
  Dot = 2
  InName = {2, 3, 4, 5}
  MaxAdds = 4
  Careless = {"inside"}
  None = None
INVARIANTS NoSymbolInsideAnother
