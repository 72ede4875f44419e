SPECIFICATION MarkerSpec
CONSTANTS
  fileA = fileA
  fileB = fileB
  imageA = imageA
  imageB = imageB
  Marker = {fileA, fileB}
  Url = {imageA, imageB}
  Manifest <- mcManifest
  Paragraphs <- mcParagraphs
  Carriers <- mcCarriers
  MaxBlocks = 2
  NoReport = NoReport
INVARIANT NoMarkerShips
CHECK_DEADLOCK FALSE
