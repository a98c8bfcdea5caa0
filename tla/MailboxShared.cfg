SPECIFICATION Spec
CONSTANTS
  Receivers = {r1, r2}
  Messages = {m1, m2}
  Exits = {e1}
  MaxTimers = 2
SYMMETRY Symmetry
INVARIANTS TypeOK Conservation NoPhantomTimeout SignalPending
PROPERTY ImplementsAbstract
