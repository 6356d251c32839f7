SPECIFICATION Spec
CONSTANTS
  LayerId = {l1, l2, l3, l4}
  Handle = {h1, h2}
  Text = {d0}
  DefaultText = d0
  NoLayer = NoLayer
INVARIANTS BaseExists SingleStack AllLayersListed
PROPERTIES BaseRemovedLast ImplementsLayerStack
SYMMETRY Symmetry
