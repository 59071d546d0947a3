\* Two streams tell SYS_STATUS from the others; one tick is more than the
\* 1000 ms after which SYS_STATUS is missed.
CONSTANTS
    Streams = {sys_status, attitude}
    SysStatus = sys_status
    RebootAp = reboot_ap
    PreArm = pre_arm
    Stale = 0
    QueueSize = 1
    Clients = {ground1, ground2}
    NoClient = NoClient
SPECIFICATION Spec
INVARIANT TypeOK
PROPERTIES SysStatusRestored 
