\* Two requests, made and made again: every response, failure and cancellation.
CONSTANTS
  r1 = r1
  r2 = r2
  Requests = {r1, r2}
  None = None
  MaxStarts = 2
  Kinds <- MCKinds
  ContentType <- MCContentType
  Json <- MCJson
  JsonTexts <- MCJsonTexts
  Responses <- MCResponses
SPECIFICATION FairSpec
INVARIANTS
  TypeOK
  HeadersJoined
  AnsweredOnce
PROPERTIES
  AnswersTrue
  FinalOnlyOnAnswer
  AnswersCome
CHECK_DEADLOCK FALSE
