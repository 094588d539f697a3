\* Three nodes, two reports and two frames.
SPECIFICATION Spec
CONSTANTS
    Nodes = {n1,n2,n3}
    n1 = n1
    n2 = n2
    n3 = n3
    Detections <- MCDetections
    MaxReports = 2
    MaxFrames = 2
SYMMETRY MCSymmetry
INVARIANTS
    TypeOK
    NodesAgree
    CountsBalance
PROPERTY ViewsAdvance
