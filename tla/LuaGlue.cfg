SPECIFICATION Spec
CONSTANTS
  Files = {main, mod}
  StartFile = main
  Lines = {1, 2}
  MaxNest = 2
INVARIANTS TypeOK BreakpointsFound RunKeepsBreakpoints NoReentry NoPanic IndInv ProfilerSilencesHooks
PROPERTIES LostClientReleases AbortSticks ImplementsDebuggee
