CONSTANTS
  Names <- MCNames
  DevCluster = "k8s-dev"
  Excluded <- MCExcluded
  BadConfig = {}
  Envs = {"dev", "prod"}
  MaxOps = 4
SPECIFICATION Spec
INVARIANT NoHandlerPanic
