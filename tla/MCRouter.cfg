SPECIFICATION TSpec
CONSTANTS
  N = 5
  TypeOf <- MCTypeOf
  Types <- MCTypes
  NoType = NoType
  NoServer = NoServer
PROPERTIES NoOvertaking NextSound
