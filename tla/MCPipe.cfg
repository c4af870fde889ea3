SPECIFICATION Spec
CONSTANTS
  ByteBits = 2
  Zero = 0
  CacheStalls <- MCCacheStalls
  Timing <- MCTiming
  Word <- MipsWord
  Reg <- MCReg
  Start <- MCStart
  PlusFour <- Link
  Src1 <- MipsSrc1
  Src2 <- MipsSrc2
  Dst <- MipsDst
  IsLoad <- MipsIsLoad
  IsStore <- MipsIsStore
  Address <- MipsAddress
  Aligned <- MipsAligned
  Loaded <- MipsLoaded
  Stored <- MipsStored
  Result <- MipsResult
  NewHI <- MipsHI
  NewLO <- MipsLO
  Latency <- MipsLatency
  UsesHiLo <- MipsUsesHiLo
  Taken <- MipsTaken
  Target <- MipsTarget
  Exits <- MipsExits
  Programs <- MCPrograms
  Memories <- MCMemories
INVARIANT StateAtExit
PROPERTIES ImplementsIsa
CHECK_DEADLOCK FALSE
