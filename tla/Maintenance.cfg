SPECIFICATION PartSpec
CONSTANTS
  HeapBegin = 40 HeapEnd = 12 Align = 2
  MaxModels = 2
  ModelSets <- MCSets
  NoSet = NoSet Blank = Blank Junk = Junk
  QueueSize = 6 Buffer3 = 3 Buffer4 = 9 DebugSize = 2
  MaxBootSeq = 2 MaxUpdate = 3 MaxSwitch = 1 MaxBoot = 3 MaxFault = 1 MaxCommand = 3
  Begin <- MCBegin
  a = a b = b full = full t1 = t1 t2 = t2
  NumImg = 5 NumRes = 2 ImgCap = 5 ResCap = 2 MaxInput = 1
  Cameras = {0, 1} MaxFrames = 4 MaxUpset = 2
  HicoBegin <- MCHicoBegin
INVARIANTS ModelTypeOK RunsRequestedModel LoadedIsThere ModelsApartFromHeap HeapSound
  CameraBuffersApart FramesInOrder BuffersReturn
CHECK_DEADLOCK FALSE
