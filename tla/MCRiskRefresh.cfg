CONSTANTS
    TTL = 24
    Margin = 6
    BucketHours = 3
    MaxOutage = 2
SPECIFICATION HoursSpec
INVARIANT StaysValid
