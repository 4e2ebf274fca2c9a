SPECIFICATION LoadSpec
CONSTANTS
  directory = directory
  ivac = ivac
  Datasets = {directory, ivac}
  ReadOrder <- MCReadOrder
  Undated = Undated
  MaxRetries = 3
  MaxEdition = 2
  MaxLoads = 2
CHECK_DEADLOCK FALSE
INVARIANTS
  DatesBracketTheRows
  ColumnsWereThereWhenChecked
  RetriesAreBounded
PROPERTIES
  LoadsEnd
