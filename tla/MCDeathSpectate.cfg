CONSTANTS
  Players = {a, b, c}
  Guests = {b, c}
  Chaser = b
  MaxWire = 0
  Roaming = {{a, b}}
  MaxDeaths = 3
  MaxJourneys = 1
SPECIFICATION MCSpec
CHECK_DEADLOCK FALSE
INVARIANTS SomebodyKnows WipeIsOfThisDeath
PROPERTIES WipeIsRequired ComesBackToTheLiving NobodyHangs
