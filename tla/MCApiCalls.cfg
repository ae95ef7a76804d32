SPECIFICATION Spec
CONSTANTS
 Models <- ApiModel
 Validators <- ApiValidator
 ContextValidators <- ApiContextValidator
 Unwraps = TRUE
 MaxDepth = 3
 MaxList = 2
 MaxDefects = 2
INVARIANTS TypeOK NilIffValid FirstReported Located NoPanic
