SPECIFICATION Spec
CONSTANTS
  s1 = s1  s2 = s2  s3 = s3  s4 = s4  s5 = s5
  w1 = w1  w2 = w2
  Calls = {s1, s2, s3}
  Waiters = {w1, w2}
  Initial = 2
  Modulus = 8
PROPERTY RemainsSignaled
CHECK_DEADLOCK FALSE
