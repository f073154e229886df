SPECIFICATION RunnerFairSpec
CONSTANTS
  en = en
  pl = pl
  NoLang = NoLang
  x = x
  y = y
  reader = reader
  a1 = a1
  a2 = a2
  a3 = a3
  writer = writer
  guesser = guesser
  tokenizer = tokenizer
  segmenter = segmenter
  morfologik = morfologik
  lamerlemma = lamerlemma
  puddle = puddle
  link = link
  detok = detok
  token = token
  segment = segment
  form = form
  parse = parse
  Processor = {reader, writer, guesser, tokenizer, segmenter, morfologik, lamerlemma, puddle, link, detok, a1, a2, a3}
  Tag = {token, segment, form, parse, x}
  Lang = {en, pl}
  Rank <- MCToolkitRank
  Settings <- MCSettings
  Name <- MCName
  factoriesForName <- MCFactories
  HasLangOption <- MCHasLangOption
  Readers = {reader}
  Writers = {writer}
  Continuation <- MCContinuation
  TxtReader <- MCTxtReader
  LangGuesser <- MCLangGuesser
  LangRank <- MCLangRank
  RequirementsMet <- MCRequirementsMet
  Commands <- MCCommands
INVARIANTS
  RunnerTypeOK
  AssertionsHold
  GuessedFirst
  OnlyTheirLanguages
PROPERTIES
  ImplementsPipeline
  RunEnds
CHECK_DEADLOCK FALSE
