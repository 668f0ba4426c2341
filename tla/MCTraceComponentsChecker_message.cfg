\* createMessageForReason against the message precedence of spec 4.4.
CONSTANTS
    Names = {n1, n2}
    MaxListed = 2
SPECIFICATION Spec
INVARIANT MessageMatchesSpec
