SPECIFICATION Spec
CONSTANTS
  d1 = d1
  d2 = d2
  d3 = d3
  base2 = base2
  serve = serve
  cli = cli
  NoDoc = NoDoc
  MimeTypes <- MCMimeTypes
  Docs = {d1, d2}
  Runners = {serve, cli}
  Scheduled = {serve}
  FileNames = {d1, d2}
  DateOf <- TwoDays
  Filename <- OwnNames
  MIMEType <- SecondIsHtml
  Base <- OwnBase
  AllowedMIMETypes <- SetByFlag
  HasWatermarkPath = TRUE
  Refused = {}
  Backdating = TRUE
  ListingSkips = TRUE
  ConsumptionFails = TRUE
  MaxCrashes = 1
  MaxSubmissions = 1
INVARIANTS TypeOK WatermarkHidesNothingOwed IInv
PROPERTIES KeepsContract
