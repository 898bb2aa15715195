\* Two requests of administrators, two saves and one new publication of the image
SPECIFICATION Spec
CONSTANTS
  Name <- MCName
  Image <- MCImage
  Request = {q1, q2}
  MaxSaves = 2
  MaxPublished = 1
SYMMETRY Symmetry
INVARIANTS
  TypeOK
  RequiredArrives
  OneRowPerName
\* the task may be deleted and everything be done
CHECK_DEADLOCK FALSE
