SPECIFICATION Spec
CONSTANTS
    BITS = 3
    btmp_bytes_len = 2
    Count <- MCCount
INVARIANT
    InBitmap
