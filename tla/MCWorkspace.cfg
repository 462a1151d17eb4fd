SPECIFICATION Spec
CONSTANTS
  Screens <- MCScreens
  Server <- MCCommands
  Queries <- MCQueries
  Families <- MCFamilies
  QueryRoots <- MCQueryRoots
  Unchecked <- MCUnchecked
  Repeatable <- MCRepeatable
  Reopened <- MCReopened
  LeftBehind <- MCLeftBehind
  MaxChanges = 2
INVARIANT TypeOK
INVARIANT RefusedOnlyWhenOvertaken
INVARIANT TakesEffectOnce
INVARIANT StaleForAReason
PROPERTY OwnChangeShows
