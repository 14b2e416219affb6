SPECIFICATION PageContentSpec
CONSTANTS
  Bufs = {b1, b2}
  Pages = {p1, p2}
  PageBytes = 2
  NULL = NULL
  Values = {x, y}
  ZERO = ZERO
  LINK = LINK
  Lengths = {0, 1, 2, 3}
  MaxRefs = 2
INVARIANTS
  PageContentTypeOK
PROPERTIES
  PagesKeepTheirBytes
