CONSTANTS
    Unset = Unset
    Bad = Bad
    Off = Off
    Main = Main
    None = None
    Dialers = {d1, d2}
    Fires = {f1}
    Layers <- MCLayers
    Hosts <- MCHosts
    d1 = d1  d2 = d2
SPECIFICATION FairSpec
INVARIANTS TypeOK OnlyByChoice BackendsInStep ChannelsCloseOnce ResumeStartsInstance MergedAsDocumented
PROPERTIES HeldIsReleased IdleSuspends
CHECK_DEADLOCK FALSE
