\* Four processes of four users open and close all four devices.
CONSTANTS
  alice = alice  bob = bob  carol = carol  dave = dave
  ann = ann  ben = ben  cat = cat  root = root
  tty1 = tty1  tty2 = tty2
  Procs = {alice, bob, carol, dave}
  NoProc = NoProc
  Users = {root, ann, ben, cat}
  RootUser = root
  uid <- MCUid
  euid <- MCEuid
  tty <- MCTty
  Capable = {dave}
  Kinds <- MCAll
  Nonblock = {alice}
  Signalled = {bob}
SPECIFICATION MCSpec
INVARIANTS TypeOK SingleOpen OneUser OneClonePerTty
PROPERTY WaiterIsWoken
