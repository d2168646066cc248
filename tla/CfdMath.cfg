SPECIFICATION Spec
CONSTANTS
    Unit = 1000
    Prices = {0, 1, 2, 3, 7, 8, 12, 17, 18, 19, 34, 36, 90, 400}
    Quantities = {1, 2, 3, 7, 10}
    Leverages = {1, 2, 3, 4, 5, 10}
    FarPrice = 90
INVARIANTS
    PayoutWithinMargins
    OverpaidByRoundingOnly
    LiquidationLeavesLittle
PROPERTIES
    PayoutFollowsPrice
