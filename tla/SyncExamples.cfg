\* Two or three threads, three rounds, a buffer that is used again.
CONSTANTS
  RUNS = 3
  THREADS = 3
  BUFFER_SIZE = 2
SPECIFICATION FairSpec
INVARIANTS TypeOK CommentedCorrect NoSimultaneousAccess
PROPERTY AllJoined
