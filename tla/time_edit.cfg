SPECIFICATION Spec
CONSTANTS
  None = None Instants = {0, 1, 2, 3, 4, 5, 6, 7, 8, 9, 10, 11}
  Messages <- MCMessages Guesses <- MCGuesses
PROPERTIES KeptStays ShiftIsExact AskedStillDone
VIEW Times
