CONSTANTS
    TickValues = {127, 16384, 2097151, 2097152, 17000000}
    EpochValues = {127, 128, 150}
    TickField = 1
    EpochField = 2
    MaxWrites = 2
INIT Init
NEXT Next
PROPERTY RoundTrip
