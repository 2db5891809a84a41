SPECIFICATION Spec
CONSTANTS
  p1 = p1
  p2 = p2
  Peers = {p1, p2}
  Patient = {p1}
  Registered = {}
  Pieces = {2}
  Script <- MCScript
  Stream <- MCStream
  Cut <- MCCut
  Mask <- MCMask
  Workers = {w1, w2}
  Size = 16
  Fresh = {0}
  NoPeer = NoPeer
INVARIANTS
  TypeOK
  FramesHeardWereSent
  NothingStranded
PROPERTIES
  PatientServed
  GoneSessionEnds
CHECK_DEADLOCK FALSE
