SPECIFICATION MCSpec
CONSTANTS
  a = a  b = b
  Platforms = {"linux", "darwin", "freebsd", "openbsd", "windows"}
  Creators = {a, b}
  Units <- UnitNames
  Asked <- AskedNames
INVARIANTS ResourceInv DeviceAsAsked
PROPERTIES DestroysOwn NameComesBack CreationsReturn
CHECK_DEADLOCK FALSE
