-------------------------- MODULE MCDockerExecutor --------------------------
(* Small instances of DockerExecutor for TLC.                              *)
EXTENDS DockerExecutor, TLC

CONSTANTS j1, j2, i1, i2

OneJob == {j1}
TwoJobs == {j1, j2}
OneImage == {i1}
TwoImages == {i1, i2}
=============================================================================
