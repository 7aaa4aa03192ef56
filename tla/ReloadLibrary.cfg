SPECIFICATION Spec
CONSTANTS
    Comps = {"plant", "nav"}
    Rows = {1, 2, 3}
    Sequenced = {1, 2}
    MaxReloads = 3
    Quiesced = FALSE
    Owner <- MCOwner
INVARIANT CodeOutlivesRun
