CONSTANTS
  traveler = traveler
  expert = expert
  main = main
  side = side
  None = None
  Tabs = {main, side}
  Links <- MCLinks
  Mangled <- MCMangled
  Users = {traveler, expert}
  Travelers = {traveler}
  Onboarded = {}
  Registrants = {}
  Expiring <- MCExpiring
  Bouncing <- MCBouncing
  Habits <- MCHabitsAsMailed
SPECIFICATION FairSpec
PROPERTIES
  LinkReachesForm
