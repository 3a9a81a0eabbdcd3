SPECIFICATION Spec
CONSTANTS
  Errors = {"plain", "coded", "odd"}
  NoError = "no error"
  ErrorCode <- MCErrorCode
  ErrorHeaders <- MCErrorHeaders
  ErrorFields <- MCErrorFields
  IsRules = {"is"}
  AsRules = {"as"}
  Found <- MCFound
  Target <- MCTarget
  RuleCodes = {0, 503}
  RuleFields <- MCRuleFields
  RuleHeaders <- MCRuleHeaders
  RuleLists <- MCRuleLists
  MaxEncoders = 4
  MaxChanges = 1
INVARIANTS
  FirstMatchAnswers
  CodeIsStatus
  NothingLeaks
  ErrorsGetAStatus
PROPERTY OnlyBranchingDisturbs
