CONSTANTS
  MaxProcesses = 3
  f = f
  g = g
  h = h
  main = main
  Func = {f, g, h}
  Main = main
  EndHandler = end_handler
  EndAddr = end_addr
  CallGraph <- MCCallGraph
  MaxBreakpoints = 2
  MaxBacktrace = 3
  MaxSteps = 3
  MaxSetups = 2
  MaxForks = 2
  MaxSleep = 1
SPECIFICATION FairSpec
INVARIANTS
  TypeOK
  OneOnProcessor
  HandOver
  ReturnsHome
  BacktraceIsCallChain
  BreakpointsAgree
  EndsKeptEnabled
PROPERTIES
  DebuggerLearnsOfExit
