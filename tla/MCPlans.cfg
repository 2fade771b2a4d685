CONSTANTS
  Requests = {1, 2, 3}
  Arrivals = {0, 1, 3}
  Prompts = {1, 3}
  News = {1, 2}
  BatchSizes = {1, 2, 3}
  Budgets = {4, 5, 8}
  SampleCounts = {3, 4, 5}
  WorldSizes = {1, 2, 3}
  MicroBatches = {1, 2}
  Accumulations = {1, 2}
  MaxStep = 3
  Weights = {"full", "half"}
  Conversions <- MCConversions
  Alphabet = {1, 2}
  BlockSize = 2
  MaxRows = 2
  MaxChunk = 2
  MaxText = 4
  MaxTokens = 2
  MaxBytes = 15
  MaxEventBytes = 6
  MaxFrames = 3
  ByteValues = 2
  MaxMerges = 3
  MaxPayload = 5
  Corpora <- MCCorpora
  Characters <- MCCharacters
  Vocabulary <- MCVocabulary
  MaxDocument = 3
  MaxFed = 5
SPECIFICATION Spec
INVARIANTS
  BatchesAreSound
  CachesAreExact
  StreamsAreFaithful
  EncodingsAreExact
