SPECIFICATION Spec
CONSTANTS
  OFF_MAX = 3
  PAGE_SIZE = 7
  ROOT <- Root
  Trees <- AllTrees
  Cases <- AllCases
INVARIANTS
  FileTypeOK
  NormalizeIsBalanced
  LinksLead
  TypeIsFoundInPlace
  KeepAliveAsAsked
  HeaderFitsBody
  FileHasOneOwner
  
  AnswersFromWhatWasSeen
