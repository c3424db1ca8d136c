\* Idle, the app waits for its user: the bounds are used up.
CONSTANTS
  Rows = {x, y}
  Urls = {x, y}
  Cells = {c}
  Picture <- McPicture
  MaxActive = 1
  MaxDownloads = 3
  MaxDetails = 1
SPECIFICATION Spec
INVARIANT DownloadsAreServed
PROPERTY LatePicturesIgnored
SYMMETRY Symmetry
CHECK_DEADLOCK FALSE
