\* A file is added whose name the vector of the encoded database has already.
SPECIFICATION Spec
CONSTANTS
  Offers <- MCOffers
  Dot = 2
  InName = {2, 3, 4, 5}
  MaxAdds = 4
  Careless = {"twice"}
  None = None
INVARIANTS WhatWasAddedIsFound
