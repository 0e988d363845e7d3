SPECIFICATION Spec
CONSTANTS
  Images <- MCImages
  MaxBody = 6
INVARIANTS TypeOK OpenBlocksNumbered BranchesLand
PROPERTIES LabelsReplacedOnce SecondRunAgrees Loads
