\* Up to five calls and callbacks nested; the third attachment is kept.
SPECIFICATION ThreadSpec
CONSTANTS
  Threshold = 2
  MaxAttach = 4
  MaxDepth = 5
  Errnos = {0, 1}
  Win32 = FALSE
CHECK_DEADLOCK FALSE
INVARIANTS AttachedWhileJavaActive NoPendingInJava AttachmentAccounted LostOnlyIfKept ThreadInv
