SPECIFICATION Spec
CONSTANTS
  MaxTerm = 3
  Candidate = {c1, c2}
  Nobody = Nobody
  Missing = Missing
  Torn = Torn
INVARIANTS NeverTorn PromiseKept StateDurable
