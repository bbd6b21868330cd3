\* Every handler in every order, with sends that are given up or fail.
SPECIFICATION Spec
INVARIANTS
  TypeOK
  InStep
  FrameArrives
