SPECIFICATION Spec
CONSTANTS
  Threads = {render, worker, loader}
  Render = render
  HookCount = 1
  FlushEvery = 3
  MaxNoted = 8
  MaxExits = 1
INVARIANTS TypeOK ReadsOwnCalls
PROPERTIES ImplementsTally RenderCounted
