\* Two tests and two suites; the first suite's test may fail after its body has ended.
SPECIFICATION Spec
CONSTANTS
  Tests = {t1, t2}
  Suites = {d1, d2}
  None = None
INVARIANT AfterHooksAlwaysRun
CHECK_DEADLOCK FALSE
