SPECIFICATION Spec
CONSTANTS
  Creates = {r1, r2}
  Adds = {a1, a2, a3}
  Emails = {m1, m2}
  EventLoop = EventLoop
SYMMETRY Symmetry
INVARIANTS OwnEventsOnly ReturnedIsKept
