\* Room for three characters behind the prompt
CONSTANTS
  Letters = {"e", "r"}
  Commands <- MCCommands
  readelf <- MCreadelf
  Files <- MCFiles
  Width = 6
  PromptLen = 2
  MaxKeys = 7
SPECIFICATION Spec
CHECK_DEADLOCK FALSE
INVARIANTS
  BufferIsEditedLine
  ScreenShowsBuffer
PROPERTIES
  RunsWhatWasTyped
