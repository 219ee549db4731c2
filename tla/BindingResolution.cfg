CONSTANTS
  Inputs <- MCInputs
  Targets <- MCTargets
SPECIFICATION Spec
INVARIANTS TypeOK RegistriesSound BindingsHonoured
PROPERTY CandidatesKept
