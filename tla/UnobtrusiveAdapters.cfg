SPECIFICATION InputSpec
CONSTANTS
  Markup <- MCMarkup
  Changed <- MCChanged
  Text <- MCText
  FieldName <- MCFieldName
  OtherFields <- MCOtherFields
INVARIANT ClientAgrees
