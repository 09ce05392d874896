SPECIFICATION Spec
CONSTANTS
  Addresses = {a1, a2, a3}
  MAX_DEVICES = 2
  Zero = Zero
SYMMETRY AddressSymmetry
INVARIANTS
  
  
  
  SlotsMatch
