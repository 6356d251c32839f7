SPECIFICATION Spec
CONSTANTS
  LayerId = {l1, l2, l3}
  Node = {n1, n2, n3, n4}
INVARIANTS TypeOK HLinksWithinLayer VLinksGoUpOne
PROPERTY OrphansByRemoveOLinkOnly
SYMMETRY Symmetry
