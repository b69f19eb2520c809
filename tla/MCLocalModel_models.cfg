SPECIFICATION Spec
CONSTANTS
  Skills = {fast, eyes}
  VisionTier = eyes
  MaxFiles = 2
  NumFiles <- Projector
  Panels = {p1, p2}
  Savers = {v1}
  Requests = {r1, r2}
  MaxActs = 3
  CanCrash = TRUE
  None = None
SYMMETRY ModelSymmetry
INVARIANTS PlacedChecked SkillWhole SwitchServed
CHECK_DEADLOCK FALSE
