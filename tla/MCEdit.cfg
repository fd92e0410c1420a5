SPECIFICATION EditSpec
CONSTANTS
  TextKeys = {"a"}
  NameKeys = {"a", ".", " "}
  Newline = "nl"
  Dot = "."
  Blank = " "
  Upper <- MCUpper
  TextMax = 3
  NameMax = 3
  BaseLen = 1
  ExtLen = 1
  Entries <- MCEntries
  Heights = {1, 2}
INVARIANTS
  EditTypeOK
  CaretShown
  NamesAgree
PROPERTIES
  ImplementsLines
