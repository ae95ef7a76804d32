SPECIFICATION FairSpec
CONSTANTS
  d1 = d1
  d2 = d2
  d3 = d3
  base2 = base2
  serve = serve
  cli = cli
  NoDoc = NoDoc
  MimeTypes <- MCMimeTypes
  Docs = {d1, d2, d3}
  Runners = {serve}
  Scheduled = {serve}
  FileNames = {d1, d2, d3}
  DateOf <- SameDay
  Filename <- OwnNames
  MIMEType <- LastIsHtml
  Base <- OwnBase
  AllowedMIMETypes <- DefaultTypes
  HasWatermarkPath = TRUE
  Refused = {d1}
  Backdating = FALSE
  ListingSkips = FALSE
  ConsumptionFails = FALSE
  MaxCrashes = 1
  MaxSubmissions = 1
INVARIANTS WatermarkSound SuccessIsComplete
PROPERTIES EveryDocumentArchived
