CONSTANTS
  time = time
  sig = sig
  label = label
  Signals <- AllSignals
  Timebase = time
  Strings <- Labels
  Forms <- AllForms
  Aos = aos
  Files <- AllFiles
  MaxElements = 3
  Invalid <- MCInvalid
  TimeValues <- MCTimeValues
  Requests <- MCRequests
  Windows <- MCWindows
  Held = 0
SPECIFICATION Spec
INVARIANTS SpansDisjoint ReopenAgrees LookupFindsOwnRow NarrowingIsSweep
           ReadsNearest ReadsAround WindowsAgree
PROPERTY SlicesAligned
CHECK_DEADLOCK FALSE
