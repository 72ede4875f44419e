SPECIFICATION Spec
CONSTANTS
  Key = {k1, k2}
  Limit = 2
  Window = 3
  Second = 2
  MaxNow = 5
  MaxPairs = 3
  Byte = {1, 3}
  Token = {0, 2}
  SizeLimit = 7
  TokenLimit = 4
  Session = {s1, s2}
  Att = {a1, a2}
  MaxUploads = 1
  Retries = 1
  MaxCalls = 2
  MaxSends = 1
  NoFile = NoFile
  ClientAttempts = 2
  MaxRetries = 2
  MaxPolicyRetries = 3
  AltRetries = 2
  HasFallback = TRUE
  Image = {i1, i2, i3}
  Concurrency = 2
  MaxTyped = 2
  fileA = fileA
  fileB = fileB
  imageA = imageA
  imageB = imageB
  Marker = {fileA, fileB}
  Url = {imageA, imageB}
  Manifest <- mcManifest
  Paragraphs <- mcParagraphs
  Carriers <- mcCarriers
  MaxBlocks = 2
  NoReport = NoReport
  Layout <- mcLayout
  Fragment <- mcFragment
  HtmlLength = 6
  Address = {1, 2, 3, 4}
  WithFindings = {1, 4}
  MaxPatches = 3
  Field = {"f", "g"}
  Path = {"p", "q", "r", "none"}
  FieldAt <- mcFieldAt
  PerCall = 2
  NoAnswer = NoAnswer
  Pasted <- mcPasted
  Word <- mcWord
  Replacing <- mcReplacing
  Letter = {"a", "b"}
  Invalid = Invalid
  MaxEdits = 2
  Page <- mcPage
INVARIANTS
  LimiterKeepsWord
  ProtectedKept
  LeastTrim
  UploadsBounded
  
  CostIsBounded
  ImagesAgree
  MarkersLand
  PatchesLandInPlace
  
  
PROPERTY MapStaysSmall
CHECK_DEADLOCK FALSE
