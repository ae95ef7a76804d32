SPECIFICATION Spec
CONSTANTS
  d1 = d1
  d2 = d2
  d3 = d3
  base2 = base2
  serve = serve
  cli = cli
  NoDoc = NoDoc
  MimeTypes <- MCMimeTypes
  Docs = {d1, d2}
  Runners = {serve}
  Scheduled = {serve}
  FileNames = {d1, d2}
  DateOf <- TwoDays
  Filename <- OwnNames
  MIMEType <- AllPDF
  Base <- OwnBase
  AllowedMIMETypes <- DefaultTypes
  HasWatermarkPath = TRUE
  Refused = {}
  Backdating = FALSE
  ListingSkips = FALSE
  ConsumptionFails = FALSE
  MaxCrashes = 1
  MaxSubmissions = 2
INVARIANTS NoDuplicateSubmissions
