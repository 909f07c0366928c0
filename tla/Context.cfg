CONSTANTS
  Contexts = {c1, c2, c3}
  Main = c1
SPECIFICATION Spec
INVARIANT ThreadsSafe
PROPERTY ImplementsCoroutine
PROPERTY ControlArrives
