\* Three people, at most two rows and two requests at a time; new accounts are
\* active
CONSTANTS
  boss = boss  ann = ann  bob = bob  chief = chief  p1 = p1  p2 = p2  q1 = q1  q2 = q2
  Subject <- ThreeSubjects
  Profile <- Profiles
  AdminProfile <- TheAdminProfile
  ProfilesOf <- Given
  Request <- TwoRequests
  InactiveByDefault = FALSE
  MaxUsers = 2
SPECIFICATION Spec
SYMMETRY Symmetry
INVARIANTS AdminsAreAppointed DeactivationSticks
