SPECIFICATION CloudyfoxSpec
CONSTANTS
  None = None
  Domains = {"d1", "d2"}
  Payload = {"x", "y"}
  NL = "NL"
  Streams <- SomeLines
  Eager <- OneLine
  MaxDown = 3
  NoConn = None
INVARIANT ConsoleIsRight
PROPERTY Longest
PROPERTY ListingIsTrue
PROPERTY NewPoolAllOrNothing
PROPERTY TemplateIsWhole
PROPERTY ImplementsTunnel
PROPERTY DialSettles
