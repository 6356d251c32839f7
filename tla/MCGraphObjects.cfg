SPECIFICATION Spec
CONSTANTS
  LinkType = {"olink"}
  OverDefaults = {"olink"}
  Name = {"weight", "load"}
  WeightName <- MCWeightName
  Value = {0, 1}
  Default = 0
  NoValue = NoValue
  Bad = Bad
  Data <- MCData
  MaxObjects = 3
INVARIANT AnswersAgree
PROPERTY WeightAlone
