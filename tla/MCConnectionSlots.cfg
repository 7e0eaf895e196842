CONSTANTS
  JOHNNY_CON_BITMAP_LEN = 2
  JOHNNY_BITS_PER_LONG = 6
  IntBits = 3
  c1 = c1
  c2 = c2
  c3 = c3
  c4 = c4
  c5 = c5
  c6 = c6
  c7 = c7
  Conns = {c1, c2, c3, c4, c5, c6, c7}
  MaxLive = 7
  NoCtx = NoCtx
SPECIFICATION Spec
INVARIANTS TypeOK FewAreExclusive FewAreTracked UpperHalfUnused
SYMMETRY Symmetry
