SPECIFICATION SpecStale
CONSTANTS
  LayerId = {l1, l2, l3, l4}
  Handle = {h1, h2}
  Text = {d0, d1}
  DefaultText = d0
  NoLayer = NoLayer
INVARIANTS TypeOK AtMostOneBase PathsOnly
SYMMETRY Symmetry
