SPECIFICATION DSpec
CONSTANTS
  Calls = {1, 2}
  Pages = {p1}
  NoCall = NoCall
  Types <- MCTypes
  Total <- MCTotal
  NoType = NoType
  Asks <- MCAsks
  Uses = 2
  Slots <- MCSlots
  Unknown = Unknown
INVARIANTS AsAskedIfAlone LastClickWins
PROPERTIES CallsAnswered ViewsAgree
