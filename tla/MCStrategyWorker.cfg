SPECIFICATION Spec
CONSTANTS
  Workers = {loop, w2}
  Loop = loop
  Capacity = 1
  Faults = {"db", "strategy"}
INVARIANTS IndInv SuppressedIfQueued
PROPERTIES OneExitPerCooldown TicksFinish StopIsServedWithBars
