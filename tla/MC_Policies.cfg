CONSTANTS
  Threads = {t1, t2}
  MaxSaves = 3
  Texts <- MCTexts
  Star = "*"
  Starred = {"*", "door-*"}
  Glob <- MCGlob
  NoValue = NoValue
  KnownActions = {"open", "enter"}
  RequireKnown = FALSE
  MaxAge = 1
  Skew = 0
  KnownObligations = {"emitActionReceipt"}
  LastPart <- MCLastPart
  ActionName <- MCActionName
  Publisher = "own"
  Offerable <- MCOfferable
  Drafts <- MCDrafts
  Insertions <- MCInsertions
  Barred <- MCBarred
  TermSheets <- MCTermSheets
  Calls <- MCCalls
  Described = {"open"}
  Asked <- MCAsked
  MaxOffered = 2
  MaxEdits = 2
SPECIFICATION Spec
INVARIANTS
  BrokenFileDecidesNothing
  StaleOnlyAfterOverlap
  AdaptersKeepMeaning
CHECK_DEADLOCK FALSE
