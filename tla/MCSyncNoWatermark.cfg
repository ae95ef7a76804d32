SPECIFICATION FairSpec
CONSTANTS
  d1 = d1
  d2 = d2
  d3 = d3
  base2 = base2
  serve = serve
  cli = cli
  NoDoc = NoDoc
  MimeTypes <- MCMimeTypes
  Docs = {d1, d2}
  Runners = {serve}
  Scheduled = {serve}
  FileNames = {d1, d2, base2}
  DateOf <- OneUndated
  Filename <- OwnNames
  MIMEType <- FirstIsHtml
  Base <- OneSlash
  AllowedMIMETypes <- BothTypes
  HasWatermarkPath = FALSE
  Refused = {}
  Backdating = TRUE
  ListingSkips = TRUE
  ConsumptionFails = TRUE
  MaxCrashes = 1
  MaxSubmissions = 1
PROPERTIES EveryDocumentArchived EachSettles
