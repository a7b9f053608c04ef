SPECIFICATION IOLiveSpec
CONSTANTS
    ConversionPolls = 3
    EnablePolls = 2
    Period = 4
INVARIANTS AdcInv FailedInitIsSilent DriverInv
PROPERTIES NewestAtMostTwice InputKeepsComing ChangesBetweenPeriods DutyTakesEffect
