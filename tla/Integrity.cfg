CONSTANTS
  ConnApp = {"p", "q"}
  MaxHandle = 2
  Fd = {1, 2}
  MaxConn = 1
  Null = Null
  Overrun = Overrun
  Behind = 0
  SampleRequests <- RequestSamples
  SampleResponses <- ResponseSamples
  SampleUrls <- UrlSamples
  SamplePatterns <- PatternSamples
  SampleResources <- ResourceSamples
  SampleBuffers <- BufferSamples
  SampleKeys <- KeySamples
  ValueRoom = 3
  Nothing = Nothing
  AttrKey = {"a", "b"}
  KeyLength <- LengthOfKey
  AttrValue <- ValueSamples
  TagLength = 1
  Reserved = 100
  HostFrames <- FrameSamples
  MaxFrames = 2
  SectionTypeMax = 11
  AotVersion = 3
  PltSize = 6
  GuiApp = {"p", "q"}
  GuiClass = {"btn", "list"}
  MaxAsync = 1
  MaxNodeless = 1
  MaxObjects = 2
  MaxWidgetEvents = 1
  Device = {"d1", "d2"}
  View = {"v"}
  ViewOp = {"query", "install"}
  MaxCommands = 3
  MaxNews = 1
  StoreName = {"mine", "timer", "ui"}
  Builtin = {"timer", "ui"}
  Preloaded = {"timer"}
  MaxListed = 5
  MaxAsked = 3
  MaxClock = 11
  AsBegin = 6
  AsTimeout = 2
  AsWrap = 16
  NativeLib = {"a", "b", "c"}
  Exports <- ExportsOf
  MaxNative = 2
  Drawer = {"p", "q"}
  Colour = {"red", "blue"}
  Height = 2
  MaxDrawings = 2
SPECIFICATION Spec
INVARIANTS
  OneCloser DescriptorHasOwner HandlerHearsPeer
  PacketsReadBack UrlsMatchAsDocumented KeyFoundIsFirst
  FramesUnderstood OneAnswerPerInstall
  NodesNameWidgets CleanupReachesAll
  ToldInTime  UploadedIsOffered NothingLeftUp DrawnIsShown
PROPERTY ContainerIsMap
CHECK_DEADLOCK FALSE
