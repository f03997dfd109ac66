SPECIFICATION Spec
CONSTANTS
  Values = {"ns__a", "ns__b"}
  Content <- MCContent
  Filters = {"a", "z"}
  Matches <- MCMatches
  Lists <- MCLists
  Tags = {"frontend"}
  Created = {"other", "Frontend"}
  TagMatches <- MCTagMatches
  SameText <- MCTagMatches
  TagLists <- MCTagLists
PROPERTIES
  ArrowsFindAnOption
