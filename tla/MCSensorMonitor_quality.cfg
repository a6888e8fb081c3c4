SPECIFICATION Spec
CONSTANTS Checkers={c1} MaxFailures=1 RclpyAvailable=TRUE
Kinds={"camera"}
Regimes={"poor"}
PROPERTIES QualityIsShown
