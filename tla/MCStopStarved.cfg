SPECIFICATION Spec
CONSTANTS
  Workers = {loop}
  Loop = loop
  Capacity = 1
  Faults = {}
PROPERTIES StopIsServed
