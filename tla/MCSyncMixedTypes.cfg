SPECIFICATION Spec
CONSTANTS
  d1 = d1
  d2 = d2
  d3 = d3
  base2 = base2
  serve = serve
  cli = cli
  NoDoc = NoDoc
  MimeTypes <- MCMimeTypes
  Docs = {d1, d2}
  Runners = {serve, cli}
  Scheduled = {serve}
  FileNames = {d1, d2}
  DateOf <- TwoDays
  Filename <- OwnNames
  MIMEType <- FirstIsHtml
  Base <- OwnBase
  AllowedMIMETypes <- SetByFlag
  HasWatermarkPath = TRUE
  Refused = {}
  Backdating = FALSE
  ListingSkips = FALSE
  ConsumptionFails = FALSE
  MaxCrashes = 1
  MaxSubmissions = 1
INVARIANTS WatermarkSound
