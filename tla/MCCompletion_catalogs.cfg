SPECIFICATION FairSpec
CONSTANTS
  en = en
  pl = pl
  NoLang = NoLang
  x = x
  y = y
  reader = reader
  a1 = a1
  a2 = a2
  a3 = a3
  writer = writer
  guesser = guesser
  tokenizer = tokenizer
  segmenter = segmenter
  morfologik = morfologik
  lamerlemma = lamerlemma
  puddle = puddle
  link = link
  detok = detok
  token = token
  segment = segment
  form = form
  parse = parse
  Processor = {reader, a1, a2, a3}
  Tag = {x, y}
  Lang = {en, pl}
  Rank <- MCSmallRank
  Settings <- CatalogSettings
INVARIANTS
  TypeOK
  PassedIsSettled
  EverythingProvided
  RequestKept
  BestChosen
  FailsOnlyIfItMust
PROPERTIES
  Termination
CHECK_DEADLOCK FALSE
