SPECIFICATION Spec
CONSTANTS
  Addresses = {a1, a2}
  MAX_DEVICES = 2
  Zero = Zero
PROPERTY
  EventuallyNoticed
