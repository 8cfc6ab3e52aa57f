SPECIFICATION Spec
CONSTANTS
    Primes = {3, 5, 7, 11}
    Times = {0, 1, 2, 5}
    Base = 4
    KeySize = 2
INVARIANTS SameAnswer MessageRecovered
CHECK_DEADLOCK FALSE
