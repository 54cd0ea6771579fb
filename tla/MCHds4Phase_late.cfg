\* A producer that changes i_data after the valid/ready handshake.
CONSTANTS
    Data = {w0, w1, w2}
    Zero = w0
    HoldData = FALSE
    OneSided = FALSE
    MaxItems = 2
    MaxResets = 0
SPECIFICATION Spec
INVARIANT
    DeliversSampledWord
