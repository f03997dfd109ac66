SPECIFICATION Spec
CONSTANTS
  Values = {"dev", "prod"}
  Content <- MCTenantContent
  Filters = {"d", "z"}
  Matches <- MCTenantMatches
  Lists <- MCTenantLists
  Tags = {"frontend"}
  Created = {"other", "Frontend"}
  TagMatches <- MCTagMatches
  SameText <- MCTagMatches
  TagLists <- MCTagLists
PROPERTIES
  OpensOnNewText
