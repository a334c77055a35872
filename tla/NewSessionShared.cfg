SPECIFICATION Spec
CONSTANTS
  Directories = {d1, d2}
  Own = {a1}
  Others = {b1}
  MaxForms = 1
  MaxMishaps = 1
SYMMETRY Symmetry
CHECK_DEADLOCK FALSE
INVARIANT DirectoriesHaveOneProject
