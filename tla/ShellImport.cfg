SPECIFICATION ParseSpec
CONSTANTS
  Lines <- MCLines
  Slug <- MCSlug
  Stem = "script"
  NoComment = NoComment
  None = None
  Flags = {"x", "y", "port"}
  Values = {"1", "2", "8000", ""}
  MaxLines = 4
INVARIANTS NamesUnique EnvIsWhatShPasses NamedByItsComment FlagsAgree PortIsAssigned
CHECK_DEADLOCK FALSE
