SPECIFICATION Spec
PROPERTIES
    WorkEnds
    ClusterSettles
CHECK_DEADLOCK FALSE
