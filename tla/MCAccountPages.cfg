CONSTANTS
  traveler = traveler
  expert = expert
  main = main
  side = side
  None = None
  Tabs = {main, side}
  Links <- MCLinks
  Mangled <- MCMangled
  Users = {traveler, expert}
  Travelers = {traveler}
  Onboarded = {}
  Registrants = {traveler}
  Expiring <- MCExpiring
  Bouncing <- MCBouncing
  Habits <- MCHabits
SPECIFICATION MCSpec
PROPERTIES
  OnlyLanguageLosesLink
  SpentByItsHolder
  EveryNavigationEnds
