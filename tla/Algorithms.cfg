SPECIFICATION Spec
CONSTANTS
  Star = "*"
  Plain = {"a", "b"}
  MaxLength = 5
  Bits = 4
  NaN = NaN
  Unit = {0, 127, 128, 2047, 2048, 55295, 55296, 56319, 56320, 57343, 57344, 65535}
  MaxUnits = 3
  MaxText = 4
  Letter = {"1", ",", " "}
  MaxString = 2
  Char <- MCChar
  Name <- MCName
  Pattern <- MCPattern
  Utf16 <- MCUtf16
  XMLString <- MCXMLString
  Floating <- MCFloating
  Span <- MCSpan
  Template <- MCTemplate
  Place <- MCPlace
  Message <- MCMessage
  Type <- MCType
  Operand <- MCOperand
  Nesting <- MCNesting
INVARIANTS FullMatchesAreFound DistanceIsAbsolute TextIsKept EscapedOnce TextTellsApart TemplateIsFilled SameMeansEqual RangeEitherOrder
