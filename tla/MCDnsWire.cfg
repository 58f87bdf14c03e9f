SPECIFICATION WireSpec
CONSTANTS
  MaxHops = 2
  Host <- MCHost
  Want <- MCWant
  Sent <- MCSent
  MaxAnswers = 2
  Rcode = {0, 3}
  Raw <- MCRaw
  Nothing = Nothing
INVARIANTS
  StaysInside
  AnswersAsAsked
PROPERTY
  NamesAsDefined
