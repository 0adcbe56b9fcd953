SPECIFICATION AdapterSpec
CONSTANTS
  Boxes <- StripBoxes
  MaxDetections = 2
  MinIou <- Third
  MaxCoastAge = 1
  ClassAware = TRUE
  MaxLag = 2
  MaxImages = 3
  MaxRestarts = 1
INVARIANT DetectionsAreFollowed
PROPERTY TracksPersistBetweenRestarts
