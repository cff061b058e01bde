SPECIFICATION Spec
CONSTANTS
  Char <- const_Char
  WordChar <- const_WordChar
  Space = " "
  Upper <- const_Upper
  Lower <- const_Lower
  Prompts <- const_Prompts
  Texts <- const_Texts
  MaxText = 3
  Slack = 2
  Page = 3
  AnyMark = FALSE
INVARIANTS
  PromptIntact
  BufferFits
PROPERTIES
  KilledTextComesBack
  ImplementsEditor
  CommandEndsOrSticks
CHECK_DEADLOCK FALSE
