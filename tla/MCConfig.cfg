CONSTANTS
  Url = {a, b}
  Empty = Empty
  Typed <- MCTyped
  MaxClients = 3
SPECIFICATION Spec
INVARIANTS TypeOK CrashTearsOne HiddenForAReason
PROPERTY SavedIsRead
