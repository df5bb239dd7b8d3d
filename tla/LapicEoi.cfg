CONSTANTS
    LocalApics <- MCLocalApics
    ThisApic = 20
SPECIFICATION Spec
PROPERTY EoiFollows
