SPECIFICATION GuiSpec
CONSTANTS
  GuiApp = {"p"}
  GuiClass = {"btn"}
  MaxObjects = 2
  MaxWidgetEvents = 1
  MaxAsync = 1
  MaxNodeless = 1
PROPERTY HandlerGetsSet
CHECK_DEADLOCK FALSE
