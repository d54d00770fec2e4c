CONSTANTS
    N = 2
    Cap = 1
SPECIFICATION Spec
PROPERTIES
    NoStarvation
