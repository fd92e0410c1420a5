SPECIFICATION DeskSpec
SYMMETRY MCSymmetry
CONSTANTS
  Files = Files
  edit = edit
  wasm = wasm
  about = about
  gallery = gallery
  Windows = {Files, edit, wasm, about, gallery}
  WinCount = 5
INVARIANTS
  DeskTypeOK
  ClosedBelowOpen
PROPERTIES
  CycleTakesTurns
