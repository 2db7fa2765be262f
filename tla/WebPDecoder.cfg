SPECIFICATION FairSpec
CONSTANTS
  Rows = 4
  MaxSpurious = 1
  MaxAppends = 1
INVARIANT OutputIsThePicture
INVARIANT TornDown
INVARIANT PictureIInv
PROPERTY NothingAfterTheEnd
PROPERTY JobUndisturbed
PROPERTY Ends
