\* A value that has come back, a call that has returned, and loaded arguments are the last.
CHECK_DEADLOCK FALSE
CONSTANTS
  None = None
  NoEntry = NoEntry
  Threads = {script, other}
  Script = script
  other = other
  e1 = e1
  e2 = e2
  e3 = e3
  e4 = e4
  Extras = {e1, e2, e3, e4}
  TypeOf <- MCTypeOf
  InstanceType = "instance"
  Kind = "weapon"
  Owners = {"form", "item", "reference", "worn", "nothing worn"}
  Original <- MCOriginal
  Arguments <- MCArguments
  Word = 1000
  Items = {1, 2}
  Blank = 1
  MaxLength = 2
  MaxChanges = 3
SPECIFICATION MCSpec
INVARIANTS ArgumentsAreLoaded MovieValuesComeBack
PROPERTIES CallsKeepTheirArrays ItemsKeepTheirData
