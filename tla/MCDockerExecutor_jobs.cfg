\* Two jobs that run either of two images, one with a cache volume, and an
\* interrupt at any time
CONSTANTS
  j1 = j1  j2 = j2  i1 = i1  i2 = i2
  Job <- TwoJobs
  Image <- TwoImages
  Caching <- OneImage
SPECIFICATION FairSpec
INVARIANTS TypeOK NothingLeft SuccessIsReal
PROPERTIES CachesStay CancelEnds ImplementsLifecycle
\* a runner that was interrupted is over
CHECK_DEADLOCK FALSE
