SPECIFICATION FairSpec
CONSTANTS
    w1 = w1
    w2 = w2
    wait = wait
    Ways = {"fired"}
    Waiting = {w1, w2}
    Names = {wait}
    NameOf <- MCTwo
    Sockets = {ui}
    None = None
INVARIANTS ShownAsItIs
PROPERTIES SocketsCatchUp
