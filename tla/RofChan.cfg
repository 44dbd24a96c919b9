SPECIFICATION FairSpec
CONSTANTS
    Conns = {"c1", "c2"}
    Chans = {"h1", "h2"}
    Aux = {0, 1}
    PassiveAux = {0, 1}
    PassiveKinds = {"dpt"}
    AppKinds = {"ctl"}
 
CHECK_DEADLOCK FALSE
PROPERTIES  DatapathDropped
