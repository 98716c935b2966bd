SPECIFICATION BitmapSpec
CONSTANTS
  Threads = {t1, t2}
  Slots = {0, 2, 6}
  Reservations = {5}
  WordBits = 2
  MaxWords = 4
SYMMETRY Symmetry
INVARIANTS
  PagesBackWords
  CountSettles
PROPERTIES
  ImplementsSlotSet
