SPECIFICATION Spec
CONSTANTS
    Objects <- MCObjects
    Services <- MCServices
    Attributes <- MCAttributes
    FirstServices <- MCFirstServices
    FirstAttributes <- MCFirstAttributes
    ByteArrays = {"ByteArray", "ByteArrayLength"}
    Space = 14
    Requests <- MCRequests
INVARIANTS
    AnswersMatch
    IdsAgree
    NoAliasing
PROPERTIES
    ImplementsObjectModel
