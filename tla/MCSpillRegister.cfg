CONSTANTS
    Zero = w0
    Data = {w0, w1, w2}
    FLUSH = FALSE
SPECIFICATION Spec
PROPERTIES
    ImplementsFifo
    OfferHeld
    NoBubble
