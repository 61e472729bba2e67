SPECIFICATION PromptsSpec
CONSTANTS
  Directories <- MCDirectories
  SortedIds <- MCSortedIds
  Functions = {"f1", "f2"}
  Texts = {"p", "q"}
  Edited = "w2"
  EditedDirectories <- MCEdited
  Savers = {s1, s2}
  maxSaveRetries = 2
  MaxVersion = 2
SYMMETRY SaverSymmetry
INVARIANTS Isolated PromptsOwned RunsAuthorized PublishedServes PromptFresh
CHECK_DEADLOCK FALSE
