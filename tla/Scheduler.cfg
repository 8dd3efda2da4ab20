\* Every plan of the instance, scheduled to its end, admitted or refused, and explained.
SPECIFICATION ScheduleSpec
CONSTANT Plans <- SmallPlans
CONSTANT Workers <- SmallWorkers
CONSTANT Requirements <- SmallRequirements
CONSTANT Evidence <- SmallEvidence
CONSTANT Additive <- Sums
CONSTANT Peaks <- Held
CONSTANTS
  MaxUnits = 14
  BitRate = 2
  MaxAttempts = 2
  MaxFreshness = 3
  MaxPpm = 9
  MaxFigure = 9
  NoManifest = NoManifest
INVARIANTS SchedulesAreConserved MandatoryStaysAffordable CertificateMeansItsStatus
  AdmissionIsExact EveryDecisionIsExplained
