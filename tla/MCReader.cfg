CONSTANTS
  Texts <- MCTexts
  Messages <- MCMessages
  Others <- MCOthers
  BufferSize = 512
SPECIFICATION Spec
INVARIANTS TypeOK DecodesWhatWasSent LeaksOnlyWhenCut
CHECK_DEADLOCK FALSE
