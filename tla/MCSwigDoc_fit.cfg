CONSTANTS
  Xml <- MCSwigXml
  Asked = {"Block"}
  MakeName <- MCMakeName
  HeaderName <- MCHeaderName
  Operators = {"operator bool", "operator new"}
SPECIFICATION SwigSpec
INVARIANTS
  OneObjectPerRefid
  NamesAreUnique
  EachDocumentedOnce
  ParsingErrorsAreContained
PROPERTIES
  AnswersAreStable
CHECK_DEADLOCK FALSE
