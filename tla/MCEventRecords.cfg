\* Three notices of any kind to two instances, in five configurations.
SPECIFICATION Spec
CONSTANTS
    Instances = {"i1", "i2"}
    Notices <- MCNotices
    Configs <- MCConfigs
    MaxNotices = 3
INVARIANTS
    EventsTypeOK
    ReferralIsKept
    VotersCountOnce
    GivenAsAsked
CHECK_DEADLOCK FALSE
