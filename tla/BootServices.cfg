\* Three checks for Weaver; a vibrator that stores two effects.
CONSTANTS
  Tries = 3
  Effects = 2
SPECIFICATION FairSpec
INVARIANTS SkippedOnlyWithoutKeymint VibratesAgain
PROPERTIES NobodyWaitsForever
