SPECIFICATION Spec
CONSTANTS
    Unit = 1000
    Prices = {8, 17}
    Quantities = {7}
    Leverages = {10}
    FarPrice = 90
INVARIANTS
    PayoutIsASplit
