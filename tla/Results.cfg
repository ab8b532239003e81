SPECIFICATION FairResultSpec
CONSTANTS
  File = {1, 2, 3, 4}
  Pixel <- MCPixel
  Missed <- MCMissed
  Content <- MCContent
  Stray <- MCStray
  NoFile = NoFile
  Listing <- MCListing
  ENTRIES = 3
  DIM_X = 1
  DIM_Y = 2
  Listings <- MCListings
INVARIANTS
  ResultTypeOK
  NoOverrun
  ReadsOpenFile
  AllRead
PROPERTIES
  ImageServed
  ImplementsImageService
  MergeEnds
CHECK_DEADLOCK FALSE
