CONSTANTS
    LocalApics <- MCLocalApics
    ThisApic = 20
SPECIFICATION Spec
INVARIANTS
    GuardsExclusive
PROPERTIES
    EoiUnlessSelfBlocked
    DeliveredUnlessSelfBlocked
