SPECIFICATION Spec
CONSTANTS
  plugin = plugin
  application = application
  wide = wide
  Surface = {plugin, application, wide}
  Kind <- Kinds
  NoSurface = NoSurface
  MaxCalls = 2
  MaxNews = 1
INVARIANTS TypeOK Placed HiddenAsAsked
PROPERTIES OrderKept DropLands
CONSTRAINT Apart
