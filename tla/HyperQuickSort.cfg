CONSTANTS
  MaxP = 5
  SampleScale = 5
  MaxLen = 2
  MaxKey = 3
  Inputs <- BothSizes
SPECIFICATION Spec
INVARIANTS CommunicatorsAgree KeysConserved HalvesSeparated MessagesMatch
PROPERTIES SortsGlobally
