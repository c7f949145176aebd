\* Two registrations over two new emails and a seeded one, two
\* readers of the profiles and a wizard that replaces a seeded one.
SPECIFICATION FairSpec
CONSTANTS
  Emails = {"demo", "a", "b"}
  Seeded <- MCSeeded
  SeededAuth <- MCSeededAuth
  Calls = {"c1", "c2"}
  Readers = {"r1", "r2"}
  None = None
  MaxCustomer = 4
  MaxWizards = 1
INVARIANT AccountsSafe
PROPERTIES CacheCatchesUp EveryCallAnswered
