SPECIFICATION Spec
CONSTANTS
  Keys <- Names
  Absent = Absent
  Alias <- Aliases
  Score <- Scores
  NameRank <- FromTheLast
  Threshold = 78
  Required = {"customer_id", "email_address"}
  Allowed = {"customer_id", "email_address", "stock_count"}
  Destinations = {"customer_id", "email_address", "stock_count"}
  ExpectedLists <- Lists
  MaxKeys = 4
  RuleSets <- UpToTwoRules
CHECK_DEADLOCK FALSE
INVARIANTS
  TypeOK
  RulesAsDeclared
  FieldsAsDeclared
  LostOnlyToOwnKey
  LeftoverIsRival
  RequiredIsForwarded
  MappingsExplain
  OperatorDecidesParked
