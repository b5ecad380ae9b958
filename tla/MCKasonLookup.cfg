SPECIFICATION Spec
CONSTANTS
  Capacity = 3
  Keys <- MCKeys
  Texts <- MCTexts
  Decode <- MCDecode
  Mix <- MCMix
INVARIANTS KeysInReach
PROPERTIES IsKeySet
