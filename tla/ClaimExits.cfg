SPECIFICATION FairSpec
CONSTANTS
    Polls = {p1}
    Listeners = {c1, c2}
PROPERTY SignalledProcessExits
