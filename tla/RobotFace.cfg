CONSTANT MaxEvents = 3
SPECIFICATION FairFaceSpec
INVARIANTS FaceTypeOK LockHasHolder FaceShowsMode OneOfEach
PROPERTY IdleReturns
