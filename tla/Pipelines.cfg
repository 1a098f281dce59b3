CONSTANTS
  style = style
  domain = domain
  None = None
  Runs = {style, domain}
  Remote = {style}
  Style = {style}
  Probed = {domain}
  Merging <- MCMerging
  RowSets <- MCRowSets
  AdapterFiles <- MCAdapterFiles
  MergedFiles <- MCMergedFiles
  Deterministic = TRUE
  Overwrite = FALSE
  MaxResumes = 1
SPECIFICATION PipelineSpec
INVARIANTS
  WholeOrUnseen
  RegisteredIsGated
  RegistrationAgrees
  MixOnlyByRace
CHECK_DEADLOCK FALSE
